--------------------------- MODULE StatementProofs ---------------------------
(***************************************************************************)
(* A bank statement's way, for any value of the constants: what            *)
(* StatementImport guarantees of the rows it files, for any number of      *)
(* jobs, uploads, files and charges and however many handlers stop half    *)
(* way; what ProviderChain guarantees of the models that read it, for any  *)
(* number of readers, any chain and any ladder of models; and what         *)
(* StatementReading guarantees of the reading, for any statements and any  *)
(* number of slips.                                                        *)
(***************************************************************************)
EXTENDS StatementImport, ProviderChain, StatementReading,
        FiniteSetTheorems, SequenceTheorems, WellFoundedInduction, TLAPS

-----------------------------------------------------------------------------
(* StatementImport. IInv adds to the two state invariants that only a      *)
(* statement job has a statements row and that a job row not yet inserted  *)
(* has nothing.                                                            *)

(* A receipt job owns no statements row, nor does a job that is not there. *)
RowsAreStatements == \A j \in Jobs : stmt[j] # NoRow => job[j].kind = "statement"

IInv ==
  /\ TypeOK
  /\ RowsAreStatements
  /\ ChargesHaveTheirStatement
  /\ ProcessingHasAJob

-----------------------------------------------------------------------------
LEMMA InitInvariant == Init => IInv
BY BoundsAssumption
DEF Init, IInv, TypeOK, RowsAreStatements, ChargesHaveTheirStatement, ProcessingHasAJob,
    Q!Init, Q!TypeOK, Q!Phases, Unused, NoRow, Idle

(* Whatever the queue does to a job, its phase stays one of JobLifecycle.  *)
LEMMA PhasesStay ==
  ASSUME Q!TypeOK, Q!Next \/ UNCHANGED phase
  PROVE  Q!TypeOK'
BY DEF Q!TypeOK, Q!Phases, Q!Next, Q!Become, Q!Submit, Q!Start, Q!Finish, Q!Yield, Q!GiveUp,
       Q!Interrupt, Q!Cancel, Q!Retry, Q!Refile, Q!Clear, Q!Settled, Q!Swap

(* The bookkeeping of a handler that stops half way, or does not.          *)
LEMMA HalfIsTyped ==
  ASSUME TypeOK, Half
  PROVE  clean' = FALSE /\ clean' \in BOOLEAN /\ left' \in [{"halves", "restarts"} -> Nat]
<1>1. clean' = FALSE /\ clean' \in BOOLEAN
  BY DEF Half
<1>2. left' \in [{"halves", "restarts"} -> Nat]
  BY DEF Half, TypeOK
<1>3. QED
  BY <1>1, <1>2

LEMMA WholeIsTyped ==
  ASSUME TypeOK, Whole
  PROVE  clean' = clean /\ clean' \in BOOLEAN /\ left' \in [{"halves", "restarts"} -> Nat]
BY DEF Whole, TypeOK

(* Removing the rows of a file with its charges leaves no charge behind.   *)
LEMMA FileGoesWhole ==
  ASSUME IInv, NEW n \in Names, DropCharges(ChargesOf(n)), DropRows(RowsOf(n)), UNCHANGED job
  PROVE  /\ stmt' \in [Jobs -> {NoRow, "processing", "imported", "failed"}]
         /\ ledger' \in [Charges -> Jobs \cup {0}]
         /\ RowsAreStatements' /\ ChargesHaveTheirStatement'
         /\ \A j \in Jobs : stmt'[j] = "processing" => stmt[j] = "processing"
<1> USE DEF IInv, TypeOK, DropCharges, DropRows, NoRow
<1>1. ASSUME NEW c \in Charges, ledger'[c] # 0 PROVE stmt'[ledger'[c]] # NoRow
  <2>1. ledger'[c] = ledger[c] /\ c \notin ChargesOf(n) /\ ledger[c] \in Jobs
    BY <1>1
  <2>2. ledger[c] \notin RowsOf(n)
    BY <2>1, <1>1 DEF ChargesOf, RowsOf
  <2>3. QED
    BY <2>1, <2>2, <1>1 DEF ChargesHaveTheirStatement
<1>2. QED
  BY <1>1 DEF RowsAreStatements, ChargesHaveTheirStatement

-----------------------------------------------------------------------------
(* Each group of actions preserves IInv.                                   *)

LEMMA UploadsPreserve ==
  ASSUME IInv, UploadActs
  PROVE  IInv'
<1> USE DEF IInv, InFlight, NoRow, Unused, Idle
<1>1. ASSUME NEW u \in Uploads, NEW f \in File, UploadChecks(u, f) PROVE IInv'
  <2>1. f.name \in Names
    BY DEF File
  <2>2. QED
    BY <1>1, <2>1, FileGoesWhole
    DEF UploadChecks, Replaces, Whole, TypeOK, ProcessingHasAJob, Q!TypeOK, File
<1>b. ASSUME NEW u \in Uploads, NEW f \in File, NEW looks \in SUBSET Looks,
             UploadChecksBlind(u, f, looks)
      PROVE  IInv'
  <2>1. f.name \in Names
    BY DEF File
  <2>2. left' \in [{"halves", "restarts"} -> Nat]
    BY <1>b DEF UploadChecksBlind, TypeOK
  <2>3. QED
    BY <1>b, <2>1, <2>2, FileGoesWhole
    DEF UploadChecksBlind, Replaces, TypeOK, ProcessingHasAJob, Q!TypeOK, File
<1>2. ASSUME NEW u \in Uploads, NEW f \in File, UploadChecksHalf(u, f) PROVE IInv'
  BY <1>2, HalfIsTyped DEF UploadChecksHalf, DropCharges, TypeOK, RowsAreStatements,
              ChargesHaveTheirStatement, ProcessingHasAJob, Q!TypeOK
<1>3. ASSUME NEW u \in Uploads, UploadRefused(u) PROVE IInv'
  BY <1>3 DEF UploadRefused, Whole, TypeOK, RowsAreStatements,
              ChargesHaveTheirStatement, ProcessingHasAJob, Q!TypeOK
<1>4. ASSUME NEW u \in Uploads, NEW j \in Jobs,
             UploadAccepted(u, j) \/ UploadUnstored(u, j) \/ UploadHalf(u, j)
      PROVE  IInv'
  <2>1. /\ job[j] = Unused /\ upload[u].file \in File /\ ledger' = ledger
        /\ job' = [job EXCEPT ![j] = [kind |-> "statement", file |-> upload[u].file]]
    BY <1>4 DEF UploadAccepted, UploadUnstored, UploadHalf, OpensRow, NewJob, TypeOK
  <2>2. stmt[j] = NoRow
    BY <2>1 DEF RowsAreStatements
  <2>3. Q!TypeOK'
    BY <1>4, PhasesStay DEF TypeOK, UploadAccepted, UploadUnstored, UploadHalf, Q!Next
  <2>4. TypeOK'
    BY <1>4, <2>1, <2>3, HalfIsTyped, WholeIsTyped
    DEF TypeOK, UploadAccepted, UploadUnstored, UploadHalf
  <2>5. RowsAreStatements' /\ ChargesHaveTheirStatement'
    BY <1>4, <2>1, <2>2 DEF TypeOK, RowsAreStatements, ChargesHaveTheirStatement,
       UploadAccepted, UploadUnstored, UploadHalf
  <2>6. ProcessingHasAJob'
    BY <1>4, <2>4 DEF TypeOK, ProcessingHasAJob, UploadAccepted, UploadUnstored, UploadHalf,
       Whole, Half, Q!Submit, Q!Become, Q!TypeOK
  <2>7. QED
    BY <2>4, <2>5, <2>6
<1>5. QED
  BY <1>1, <1>b, <1>2, <1>3, <1>4 DEF UploadActs

LEMMA QueuePreserves ==
  ASSUME IInv, QueueActs
  PROVE  IInv'
<1> USE DEF IInv, InFlight, NoRow, Unused
<1>1. Q!TypeOK'
  <2>1. Q!Next
    BY DEF QueueActs, StartJobs, Import, ParseFails, ParseFailsHalf, ReceiptEnds, ImportBreaks,
           Q!Next
  <2>2. QED
    BY <2>1, PhasesStay DEF TypeOK
<1>2. ASSUME NEW S \in SUBSET Jobs, StartJobs(S) PROVE IInv'
  BY <1>1, <1>2 DEF StartJobs, Q!Start, Q!Become, Q!InPhase, Whole, TypeOK, RowsAreStatements,
                    ChargesHaveTheirStatement, ProcessingHasAJob, Q!TypeOK
<1>3. ASSUME NEW j \in Jobs, Import(j) PROVE IInv'
  <2>1. TypeOK'
    BY <1>1, <1>3 DEF Import, TypeOK, ImportRows, Close, Whole
  <2>2. RowsAreStatements' /\ ChargesHaveTheirStatement'
    BY <1>3 DEF Import, Insertable, TypeOK, ImportRows, Close, RowsAreStatements,
                ChargesHaveTheirStatement
  <2>3. ProcessingHasAJob'
    BY <1>3, <2>1 DEF Import, TypeOK, Close, Whole, ProcessingHasAJob, Q!Finish, Q!Become, Q!TypeOK
  <2>4. QED
    BY <2>1, <2>2, <2>3
<1>4. ASSUME NEW j \in Jobs, ParseFails(j) \/ ParseFailsHalf(j) PROVE IInv'
  <2>1. TypeOK'
    BY <1>1, <1>4, HalfIsTyped, WholeIsTyped DEF ParseFails, ParseFailsHalf, TypeOK, Close
  <2>2. RowsAreStatements' /\ ChargesHaveTheirStatement'
    BY <1>4 DEF ParseFails, ParseFailsHalf, TypeOK, Close, RowsAreStatements,
                ChargesHaveTheirStatement
  <2>3. ProcessingHasAJob'
    BY <1>4, <2>1 DEF ParseFails, ParseFailsHalf, TypeOK, Close, Whole, Half, ProcessingHasAJob,
                      Q!Yield, Q!GiveUp, Q!Become, Q!TypeOK
  <2>4. QED
    BY <2>1, <2>2, <2>3
<1>5. ASSUME NEW j \in Jobs, ReceiptEnds(j) PROVE IInv'
  <2>1. stmt[j] # "processing"
    BY <1>5 DEF ReceiptEnds, RowsAreStatements
  <2>2. QED
    BY <1>1, <1>5, <2>1 DEF ReceiptEnds, Whole, TypeOK, RowsAreStatements, ProcessingHasAJob,
       ChargesHaveTheirStatement, Q!Finish, Q!Yield, Q!GiveUp, Q!Become, Q!TypeOK
<1>6. ASSUME NEW j \in Jobs, NEW C \in SUBSET Charges, ImportBreaks(j, C) PROVE IInv'
  <2>1. TypeOK'
    BY <1>1, <1>6 DEF ImportBreaks, TypeOK, ImportRows, Close
  <2>2. RowsAreStatements' /\ ChargesHaveTheirStatement'
    BY <1>6 DEF ImportBreaks, Insertable, TypeOK, ImportRows, Close, RowsAreStatements,
                ChargesHaveTheirStatement
  <2>3. ProcessingHasAJob'
    BY <1>6, <2>1 DEF ImportBreaks, TypeOK, Close, ProcessingHasAJob, Q!Yield, Q!GiveUp,
                      Q!Become, Q!TypeOK
  <2>4. QED
    BY <2>1, <2>2, <2>3
<1>7. QED
  BY <1>2, <1>3, <1>4, <1>5, <1>6 DEF QueueActs

LEMMA UserPreserves ==
  ASSUME IInv, UserActs
  PROVE  IInv'
<1> USE DEF IInv, InFlight, NoRow, Unused
<1>1. Q!TypeOK'
  <2>1. Q!Next \/ UNCHANGED phase
    BY DEF UserActs, CancelJob, CancelHalf, RetryJob, RerouteHalf, Reroute, ClearJobs,
           DeleteSourceFile, ClearAllSourceFiles, Q!Next
  <2>2. QED
    BY <2>1, PhasesStay DEF TypeOK
<1>2. ASSUME NEW j \in Jobs, CancelJob(j) \/ CancelHalf(j) \/ RetryJob(j) PROVE IInv'
  <2>1. TypeOK'
    BY <1>1, <1>2, HalfIsTyped, WholeIsTyped DEF CancelJob, CancelHalf, RetryJob, TypeOK, Close
  <2>2. RowsAreStatements' /\ ChargesHaveTheirStatement'
    BY <1>2 DEF CancelJob, CancelHalf, RetryJob, TypeOK, Close, RowsAreStatements,
                ChargesHaveTheirStatement
  <2>3. ProcessingHasAJob'
    BY <1>2, <2>1 DEF CancelJob, CancelHalf, RetryJob, TypeOK, Close, Statements, Whole, Half,
       RowsAreStatements, ProcessingHasAJob, Q!Cancel, Q!Retry, Q!Become, Q!TypeOK
  <2>4. QED
    BY <2>1, <2>2, <2>3
<1>3. ASSUME NEW j \in Jobs, RerouteHalf(j) PROVE IInv'
  BY <1>1, <1>3, HalfIsTyped DEF RerouteHalf, Close, TypeOK, RowsAreStatements,
                    ChargesHaveTheirStatement, ProcessingHasAJob
<1>4. ASSUME NEW j \in Jobs, NEW k \in Jobs, Reroute(j, k) PROVE IInv'
  <2>1. /\ job[k] = Unused /\ job[j].kind = "statement" /\ job[j].file \in File
        /\ job' = [job EXCEPT ![k] = [kind |-> "receipt", file |-> job[j].file]]
        /\ stmt[k] = NoRow
    BY <1>4 DEF Reroute, NewJob, Statements, TypeOK, RowsAreStatements
  <2>2. TypeOK'
    BY <1>1, <1>4, <2>1 DEF Reroute, Close, Whole, TypeOK
  <2>3. RowsAreStatements' /\ ChargesHaveTheirStatement'
    BY <1>4, <2>1 DEF Reroute, Close, TypeOK, RowsAreStatements, ChargesHaveTheirStatement
  <2>4. ProcessingHasAJob'
    BY <1>4, <2>1, <2>2 DEF Reroute, Close, Whole, TypeOK, ProcessingHasAJob, Q!Swap, Q!TypeOK
  <2>5. QED
    BY <2>2, <2>3, <2>4
<1>5. ASSUME NEW p \in Q!Settled, ClearJobs(p) PROVE IInv'
  BY <1>1, <1>5 DEF ClearJobs, Whole, TypeOK, RowsAreStatements, ChargesHaveTheirStatement,
                    ProcessingHasAJob, Q!Clear, Q!Become, Q!InPhase, Q!Settled, Q!TypeOK
<1>6. ASSUME NEW n \in Names, DeleteSourceFile(n) PROVE IInv'
  BY <1>1, <1>6, FileGoesWhole DEF DeleteSourceFile, Whole, TypeOK, ProcessingHasAJob
<1>7. CASE ClearAllSourceFiles
  BY <1>1, <1>7 DEF ClearAllSourceFiles, DropCharges, DropRows, Whole, TypeOK,
                    RowsAreStatements, ChargesHaveTheirStatement, ProcessingHasAJob
<1>8. QED
  BY <1>2, <1>3, <1>4, <1>5, <1>6, <1>7 DEF UserActs

LEMMA RestartsPreserve ==
  ASSUME IInv, Restart \/ RestartUnswept
  PROVE  IInv'
<1> USE DEF IInv, InFlight, NoRow, Idle
<1>1. Q!TypeOK'
  BY PhasesStay DEF TypeOK, Restart, RestartUnswept, Q!Next
<1>2. CASE Restart
  BY <1>1, <1>2 DEF Restart, TypeOK, RowsAreStatements, ChargesHaveTheirStatement,
                    ProcessingHasAJob, Q!Interrupt, Q!Become, Q!InPhase, Q!TypeOK
<1>3. CASE RestartUnswept
  BY <1>1, <1>3, HalfIsTyped DEF RestartUnswept, TypeOK, RowsAreStatements, ChargesHaveTheirStatement,
                    ProcessingHasAJob
<1>4. QED
  BY <1>2, <1>3

LEMMA StepInvariant == IInv /\ [Next]_vars => IInv'
<1> SUFFICES ASSUME IInv, [Next]_vars PROVE IInv'
  OBVIOUS
<1>1. CASE Next
  BY <1>1, UploadsPreserve, QueuePreserves, UserPreserves, RestartsPreserve DEF Next
<1>2. CASE UNCHANGED vars
  BY <1>2 DEF vars, IInv, TypeOK, RowsAreStatements, ChargesHaveTheirStatement,
              ProcessingHasAJob, Q!TypeOK, InFlight
<1>3. QED
  BY <1>1, <1>2

THEOREM InvariantHolds == Spec => []IInv
BY InitInvariant, StepInvariant, PTL DEF Spec

(* No statement is stranded in 'processing' (ProcessingHasAJob, which also *)
(* says that every variable has its type): whatever is closed, cancelled,  *)
(* re-filed, replaced or deleted, and wherever a handler of the upload or  *)
(* of the queue stopped half way before the last sweep.                    *)
THEOREM NoneStranded == Spec => []ProcessingHasAJob
<1>1. IInv => ProcessingHasAJob
  BY DEF IInv
<1>2. QED
  BY <1>1, InvariantHolds, PTL

(* No charge outlives its statement: a job whose file was replaced or      *)
(* deleted while it was being read cannot bring the charges back.          *)
THEOREM ChargesKept == Spec => []ChargesHaveTheirStatement
<1>1. IInv => ChargesHaveTheirStatement
  BY DEF IInv
<1>2. QED
  BY <1>1, InvariantHolds, PTL

-----------------------------------------------------------------------------
(* A job that leaves 'active' for 'done' has been through Import.          *)
LEMMA OnlyImportFinishes ==
  ASSUME TypeOK, Next, NEW j \in Statements, phase[j] = "active", phase'[j] = "done"
  PROVE  Import(j)
<1> USE DEF Q!Become, Q!InPhase, Statements
<1>0. j \in Jobs /\ job[j].kind = "statement"
  OBVIOUS
<1>1. ASSUME UploadActs PROVE FALSE
  BY <1>0, <1>1 DEF UploadActs, UploadChecks, UploadChecksBlind, Replaces, UploadChecksHalf,
                    UploadRefused, UploadAccepted, UploadUnstored, UploadHalf, Q!Submit
<1>2. ASSUME UserActs PROVE FALSE
  BY <1>0, <1>2 DEF UserActs, CancelJob, CancelHalf, RetryJob, RerouteHalf, Reroute, ClearJobs,
                    DeleteSourceFile, ClearAllSourceFiles, Q!Cancel, Q!Retry, Q!Refile, Q!Swap,
                    Q!Clear, TypeOK, Q!TypeOK
<1>3. ASSUME Restart \/ RestartUnswept PROVE FALSE
  BY <1>0, <1>3 DEF Restart, RestartUnswept, Q!Interrupt
<1>4. CASE QueueActs
  <2>1. ASSUME NEW S \in SUBSET Jobs, StartJobs(S) PROVE FALSE
    BY <1>0, <2>1 DEF StartJobs, Q!Start
  <2>2. ASSUME NEW i \in Jobs,
               \/ Import(i) /\ i # j
               \/ ParseFails(i) \/ ParseFailsHalf(i) \/ ReceiptEnds(i)
               \/ \E C \in SUBSET Charges : ImportBreaks(i, C)
        PROVE  FALSE
    BY <1>0, <2>2 DEF Import, ParseFails, ParseFailsHalf, ReceiptEnds, ImportBreaks, Q!Finish,
                      Q!Yield, Q!GiveUp
  <2>3. QED
    BY <1>4, <2>1, <2>2 DEF QueueActs
<1>5. QED
  BY <1>1, <1>2, <1>3, <1>4 DEF Next

(* A job is reported done only with every charge of its file in the books. *)
THEOREM DoneMeansImported == Spec => DoneIsImported
<1>1. ASSUME IInv, Next, NEW j \in Statements, phase[j] = "active", phase'[j] = "done",
             NEW c \in Content[job[j].file.bytes]
      PROVE  ledger'[c] # 0
  <2>1. Import(j)
    BY <1>1, OnlyImportFinishes DEF IInv
  <2>2. job[j].file.bytes \in Bytes /\ c \in Charges /\ j \in Nat \ {0}
    BY <1>1, ContentAssumption, JobsAssumption DEF IInv, TypeOK, Statements, Unused, File
  <2>3. ledger' = [d \in Charges |-> IF d \in Missing(j) THEN j ELSE ledger[d]]
    BY <2>1 DEF Import, ImportRows
  <2>4. QED
    BY <2>2, <2>3, <1>1 DEF Missing
<1>2. IInv /\ [Next]_vars =>
        [\A j \in Statements :
           phase[j] = "active" /\ phase'[j] = "done"
             => \A c \in Content[job[j].file.bytes] : ledger'[c] # 0]_vars
  BY <1>1 DEF vars
<1>3. QED
  BY <1>2, InvariantHolds, PTL DEF Spec, DoneIsImported

(* An upload whose check removes a statements row in flight holds other    *)
(* bytes than that row, however many uploads run between check and insert, *)
(* or its look in the queue raised and was taken for "not there".          *)
THEOREM IdenticalKept == Spec => IdenticalDropKeepsRow
<1>1. ASSUME TypeOK, Next, NEW j \in Statements, NEW u \in Uploads,
             phase[j] \in InFlight, stmt[j] # NoRow, stmt'[j] = NoRow,
             upload'[u].at = "scanning", upload[u] # upload'[u]
      PROVE  \/ upload'[u].file.bytes # job[j].file.bytes
             \/ \E looks \in SUBSET {"books"} : UploadChecksBlind(u, upload'[u].file, looks)
  <2>1. CASE UploadActs
    <3>1. PICK v \in Uploads :
            \/ \E f \in File : \/ UploadChecks(v, f) \/ UploadChecksHalf(v, f)
                             \/ \E looks \in SUBSET Looks : UploadChecksBlind(v, f, looks)
            \/ UploadRefused(v)
            \/ \E i \in Jobs : UploadAccepted(v, i) \/ UploadUnstored(v, i) \/ UploadHalf(v, i)
      BY <2>1 DEF UploadActs
    <3>2. PICK f \in File : \/ UploadChecks(v, f)
                           \/ \E looks \in SUBSET Looks : UploadChecksBlind(v, f, looks)
      BY <1>1, <3>1 DEF UploadChecksHalf, UploadRefused, UploadAccepted, UploadUnstored,
                        UploadHalf, TypeOK, Idle
    <3>3. upload' = [upload EXCEPT ![v] = [at |-> "scanning", file |-> f]]
      BY <3>2 DEF UploadChecks, UploadChecksBlind, Replaces
    <3>4. v = u /\ upload'[u].file = f
      BY <1>1, <3>3 DEF TypeOK
    <3>5. CASE UploadChecks(v, f)
      BY <1>1, <3>4, <3>5 DEF UploadChecks, NotADuplicate, Looks
    <3>6. ASSUME NEW looks \in SUBSET Looks, UploadChecksBlind(v, f, looks), "queue" \in looks
          PROVE  f.bytes # job[j].file.bytes
      BY <1>1, <3>6 DEF UploadChecksBlind, NotADuplicate
    <3>7. ASSUME NEW looks \in SUBSET Looks, UploadChecksBlind(v, f, looks), "queue" \notin looks
          PROVE  \E some \in SUBSET {"books"} : UploadChecksBlind(u, upload'[u].file, some)
      <4>1. looks \in SUBSET {"books"}
        BY <3>7 DEF Looks
      <4>2. UploadChecksBlind(u, upload'[u].file, looks)
        BY <3>4, <3>7
      <4>3. QED
        BY <4>1, <4>2
    <3>8. QED
      BY <3>2, <3>4, <3>5, <3>6, <3>7
  <2>2. CASE QueueActs \/ UserActs
    BY <1>1, <2>2 DEF QueueActs, StartJobs, Import, ParseFails, ParseFailsHalf, ReceiptEnds,
       ImportBreaks, UserActs, CancelJob, CancelHalf, RetryJob, RerouteHalf, Reroute, ClearJobs,
       DeleteSourceFile, ClearAllSourceFiles
  <2>3. CASE Restart \/ RestartUnswept
    BY <1>1, <2>3 DEF Restart, RestartUnswept, Idle
  <2>4. QED
    BY <1>1, <2>1, <2>2, <2>3 DEF Next
<1>2. IInv /\ [Next]_vars =>
        [\A j \in Statements, u \in Uploads :
           (phase[j] \in InFlight /\ stmt[j] # NoRow /\ stmt'[j] = NoRow
            /\ upload'[u].at = "scanning" /\ upload[u] # upload'[u])
             => \/ upload'[u].file.bytes # job[j].file.bytes
                \/ \E looks \in SUBSET {"books"} :
                     UploadChecksBlind(u, upload'[u].file, looks)]_vars
  BY <1>1 DEF vars, IInv
<1>3. QED
  BY <1>2, InvariantHolds, PTL DEF Spec, IdenticalDropKeepsRow
-----------------------------------------------------------------------------
(* ProviderChain. The invariant of one reader, Sound, says how many calls  *)
(* the pages read so far can have cost, how many requests the call under   *)
(* way, and who was asked by then; the slots are counted over all readers. *)

Providers == {"local", "gemini", "openai"}
Ats == {"queued", "gate", "asked", "over"}
Links == 0..Len(Chain)
Ladder == 1..Rungs
Thrice == 0..2
Steps == {"read", "sharpen", "verify", "correct"}
Pages == Nat \ {0}
Blames == SUBSET Providers
CutSets == SUBSET Cuts
Lasts == {"none", "down", "mute", "timeout", "other"}
Kepts == {"none", "vendorless"}
Verdicts == {"none", "answer", "weak", "vendorless", "outage", "slow", "failed"}
CallRecords ==
  [at : Ats, link : Links, rung : Ladder, tries : Thrice, doubled : BOOLEAN, corrected : BOOLEAN,
   asked : Nat, step : Steps, batch : Pages, checked : Nat, calls : Nat, failed : Blames,
   cuts : CutSets, last : Lasts, kept : Kepts, verdict : Verdicts]

One(b) == IF b THEN 1 ELSE 0

(* What the call under way can have asked the provider by now              *)
Used(c) ==
  IF Provider(c) = "gemini" THEN 2 * (c.rung - 1) + 1 + c.tries
  ELSE 1 + c.tries + One(c.doubled) + One(c.corrected)

(* How many calls bring a reader to this step of this batch                *)
Spoken(r, step, batch, checked) ==
  IF Kinds[r] = "statement" THEN (IF step = "correct" THEN Batches[r] + batch ELSE batch)
  ELSE CASE step = "read" -> 2 * batch - 1
         [] step = "sharpen" -> 2 * batch
         [] OTHER -> 2 * Batches[r] + checked

Placed(r, step, batch, checked, calls) ==
  /\ batch \in Nat \ {0} /\ batch <= Batches[r]
  /\ checked \in Nat /\ checked <= VerifyCalls
  /\ calls \in Nat /\ calls <= Spoken(r, step, batch, checked)
  /\ step \in (IF Kinds[r] = "statement" THEN {"read", "correct"} ELSE {"read", "sharpen", "verify"})
  /\ step \in {"sharpen", "verify"} => Batches[r] > 1
  /\ step = "verify" => batch = Batches[r]

Stands(r, c) == Placed(r, c.step, c.batch, c.checked, c.calls)

(* Every provider before the k-th failed, unless one left a fallback       *)
AllTried(c, k) == c.kept # "none" \/ \A i \in 1..(k - 1) : Chain[i] \in c.failed

(* A reader at the k-th provider: at the first one nobody is to blame yet. *)
Walks(r, c) ==
  /\ c.link \in 1..Len(Chain) /\ AllTried(c, c.link) /\ c.verdict = "none"
  /\ c.link = 1 => c.failed = {} /\ c.cuts = {}
  /\ Stands(r, c)

Waits(c) == c.asked = 0 /\ c.tries = 0 /\ ~c.doubled /\ ~c.corrected

Works(c) ==
  /\ c.asked <= Used(c)
  /\ Provider(c) = "gemini" => c.tries <= 1 /\ ~c.doubled /\ ~c.corrected

(* What a verdict of failure says of the chain                             *)
Justified(r, v, failed, cuts) ==
  /\ v \in {"outage", "slow", "failed"} => \A k \in DOMAIN Chain : Chain[k] \in failed
  /\ v = "outage" => cuts # {}
  /\ Chain = <<"local">> /\ Gated(r) /\ v \in {"slow", "failed"} => cuts = {}

Sound(r, c) ==
  /\ c \in CallRecords
  /\ Kinds[r] = "statement" => c.kept = "none"
  /\ c.at = "queued" => c = Queued
  /\ c.at = "gate" => Walks(r, c) /\ Waits(c)
  /\ c.at = "asked" => Walks(r, c) /\ Works(c)
  /\ c.at = "over" => Justified(r, c.verdict, c.failed, c.cuts)

ChainInv ==
  /\ call \in [Readers -> CallRecords]
  /\ \A r \in Readers : Sound(r, call[r])
  /\ IsFiniteSet(Inside) /\ ServerIsGated

-----------------------------------------------------------------------------
(* What calls and requests add up to                                       *)

LEMMA ChainIsOnce ==
  /\ Len(Chain) \in Nat \ {0} /\ DOMAIN Chain = 1..Len(Chain)
  /\ \A k \in 1..Len(Chain) : Chain[k] \in Providers
BY ChainAssumption DEF Providers

(* The values the steps write are of the fields' types, which the proofs   *)
(* keep folded.                                                            *)
LEMMA Values ==
  /\ \A a \in {"queued", "gate", "asked", "over"} : a \in Ats
  /\ \A s \in {"read", "sharpen", "verify", "correct"} : s \in Steps
  /\ 0 \in Links /\ 1 \in Ladder /\ 0 \in Thrice /\ 1 \in Pages /\ {} \in Blames /\ {} \in CutSets
  /\ "none" \in Lasts /\ "none" \in Kepts /\ "none" \in Verdicts
<1>1. 0 \in Links
  BY ChainIsOnce DEF Links
<1>2. 1 \in Ladder /\ 1 \in Pages /\ 0 \in Thrice
  BY ChainAssumption DEF Ladder, Pages, Thrice
<1>3. QED
  BY <1>1, <1>2 DEF Ats, Steps, Blames, CutSets, Lasts, Kepts, Verdicts

LEMMA QueuedIs == Queued \in CallRecords
BY Values DEF CallRecords, Queued

(* What a call uses is within what a provider's call may ask.              *)
LEMMA UsedIsAllowed ==
  ASSUME NEW c \in CallRecords, Works(c)
  PROVE  c.asked <= (IF Provider(c) = "gemini" THEN 2 * Rungs ELSE 5)
<1>1. c.asked \in Nat /\ c.tries \in 0..2 /\ c.rung \in 1..Rungs /\ Rungs \in Nat
  BY ChainAssumption DEF CallRecords, Thrice, Ladder
<1>2. One(c.doubled) \in 0..1 /\ One(c.corrected) \in 0..1
  BY DEF One
<1>3. c.asked <= Used(c) /\ (Provider(c) = "gemini" => c.tries <= 1)
  BY DEF Works
<1>4. QED
  BY <1>1, <1>2, <1>3 DEF Used

(* The calls of all pages are within what one provider may be put.         *)
LEMMA PlacedIsAllowed ==
  ASSUME NEW r \in Readers, NEW step, NEW batch, NEW checked, NEW calls,
         Placed(r, step, batch, checked, calls)
  PROVE  calls <= CallsPerProvider(r)
<1>1. Batches[r] \in Nat \ {0} /\ VerifyCalls \in Nat
  BY ChainAssumption
<1>2. CASE Kinds[r] = "statement"
  BY <1>1, <1>2 DEF Placed, Spoken, CallsPerProvider
<1>3. CASE Kinds[r] # "statement" /\ step = "read"
  BY <1>1, <1>3 DEF Placed, Spoken, CallsPerProvider
<1>4. CASE Kinds[r] # "statement" /\ step = "sharpen"
  BY <1>1, <1>4 DEF Placed, Spoken, CallsPerProvider
<1>5. CASE Kinds[r] # "statement" /\ step = "verify"
  BY <1>1, <1>5 DEF Placed, Spoken, CallsPerProvider
<1>6. QED
  BY <1>2, <1>3, <1>4, <1>5 DEF Placed

-----------------------------------------------------------------------------
(* Going on                                                                *)

(* The fields of a further call                                            *)
Fresh(r, c, d) ==
  /\ d \in CallRecords /\ d.at \in {"gate", "asked"}
  /\ d.link = c.link /\ d.step = c.step /\ d.batch = c.batch /\ d.checked = c.checked
  /\ d.calls = c.calls + 1 /\ d.failed = c.failed /\ d.cuts = c.cuts
  /\ d.kept = c.kept /\ d.verdict = c.verdict
  /\ d.tries = 0 /\ ~d.doubled /\ ~d.corrected /\ d.rung \in 1..Rungs
  /\ d.at = "gate" => d.asked = 0
  /\ d.at = "asked" => d.asked = 1
  /\ d.at = "asked" /\ Gated(r) /\ Provider(d) = "local" => Kinds[r] = "statement" /\ c.batch # 1

LEMMA CallsIs ==
  ASSUME NEW r \in Readers, NEW c \in CallRecords, c.link \in 1..Len(Chain)
  PROVE  Fresh(r, c, Calls(r, c))
<1> DEFINE e == [c EXCEPT !.rung = IF Kinds[r] = "statement" THEN @ ELSE 1, !.tries = 0,
                          !.doubled = FALSE, !.corrected = FALSE, !.asked = 0, !.calls = @ + 1]
           g == [e EXCEPT !.at = "gate"]
           a == Again([e EXCEPT !.at = "asked"])
           gates == Provider(c) = "local" /\ Gated(r) /\ (Kinds[r] = "receipt" \/ c.batch = 1)
<1>0. c.calls + 1 \in Nat /\ c.rung \in Ladder /\ 0 + 1 = 1
  BY DEF CallRecords
<1>k. e \in CallRecords
  BY <1>0, Values DEF CallRecords
<1>1. /\ e.link = c.link /\ e.step = c.step /\ e.batch = c.batch
      /\ e.checked = c.checked /\ e.calls = c.calls + 1 /\ e.failed = c.failed /\ e.cuts = c.cuts
      /\ e.kept = c.kept /\ e.verdict = c.verdict /\ e.tries = 0 /\ e.doubled = FALSE
      /\ e.corrected = FALSE /\ e.rung \in 1..Rungs /\ e.asked = 0
  BY <1>0, Values DEF CallRecords, Ladder
<1>2. Calls(r, c) = IF gates THEN g ELSE a
  BY DEF Calls
<1> HIDE DEF e
<1>t. g \in CallRecords /\ a \in CallRecords
  <2>1. g \in CallRecords /\ [e EXCEPT !.at = "asked"] \in CallRecords
    BY <1>k, Values DEF CallRecords
  <2>2. [e EXCEPT !.at = "asked"].asked + 1 \in Nat
    BY <2>1 DEF CallRecords
  <2>3. QED
    BY <2>1, <2>2 DEF CallRecords, Again
<1>3. /\ g.at = "gate" /\ g.link = e.link /\ g.step = e.step
      /\ g.batch = e.batch /\ g.checked = e.checked /\ g.calls = e.calls /\ g.failed = e.failed
      /\ g.cuts = e.cuts /\ g.kept = e.kept /\ g.verdict = e.verdict /\ g.tries = e.tries
      /\ g.doubled = e.doubled /\ g.corrected = e.corrected /\ g.rung = e.rung /\ g.asked = e.asked
  BY <1>k DEF CallRecords
<1>4. /\ a.at = "asked" /\ a.link = e.link /\ a.step = e.step
      /\ a.batch = e.batch /\ a.checked = e.checked /\ a.calls = e.calls /\ a.failed = e.failed
      /\ a.cuts = e.cuts /\ a.kept = e.kept /\ a.verdict = e.verdict /\ a.tries = e.tries
      /\ a.doubled = e.doubled /\ a.corrected = e.corrected /\ a.rung = e.rung
      /\ a.asked = e.asked + 1
  BY <1>k DEF CallRecords, Again
<1> HIDE DEF g, a
<1>5. CASE gates
  <2>1. Calls(r, c) = g
    BY <1>2, <1>5
  <2>2. Fresh(r, c, g)
    BY <1>1, <1>3, <1>t DEF Fresh
  <2>3. QED
    BY <2>1, <2>2
<1>6. CASE ~gates
  <2>1. Gated(r) /\ Provider(a) = "local" => Kinds[r] = "statement" /\ c.batch # 1
    BY <1>1, <1>4, <1>6, ChainAssumption DEF Provider, Gated
  <2>2. Calls(r, c) = a
    BY <1>2, <1>6
  <2>3. a.asked = 1
    BY <1>1, <1>4
  <2>4. Fresh(r, c, a)
    BY <1>1, <1>4, <1>t, <2>1, <2>3 DEF Fresh
  <2>5. QED
    BY <2>2, <2>4
<1>7. QED
  BY <1>5, <1>6

(* A call the pages have room for may be put.                              *)
LEMMA CallsSound ==
  ASSUME NEW r \in Readers, NEW c \in CallRecords, c.link \in 1..Len(Chain),
         c.verdict = "none", Kinds[r] = "statement" => c.kept = "none",
         AllTried(c, c.link), c.link = 1 => c.failed = {} /\ c.cuts = {},
         Placed(r, c.step, c.batch, c.checked, c.calls + 1)
  PROVE  Sound(r, Calls(r, c))
<1> DEFINE d == Calls(r, c)
<1>1. Fresh(r, c, d)
  BY CallsIs
<1> HIDE DEF d
<1>2. Walks(r, d)
  BY <1>1 DEF Walks, AllTried, Stands, Fresh
<1>3. d.at = "asked" => Works(d)
  <2>1. One(d.doubled) = 0 /\ One(d.corrected) = 0
    BY <1>1 DEF One, Fresh
  <2>2. Rungs \in Nat /\ d.rung \in 1..Rungs /\ d.tries = 0
    BY <1>1, ChainAssumption DEF Fresh
  <2>3. Used(d) \in Nat /\ Used(d) >= 1
    BY <2>1, <2>2 DEF Used
  <2>4. QED
    BY <1>1, <2>3 DEF Works, Fresh
<1>4. Kinds[r] = "statement" => d.kept = "none"
  BY <1>1 DEF Fresh
<1>5. QED
  BY <1>1, <1>2, <1>3, <1>4 DEF Sound, Waits, Fresh, d

(* The next provider begins at the first page.                             *)
LEMMA OpensSound ==
  ASSUME NEW r \in Readers, NEW c \in CallRecords, NEW k \in 1..Len(Chain),
         c.verdict = "none", Kinds[r] = "statement" => c.kept = "none",
         AllTried(c, k), k = 1 => c.failed = {} /\ c.cuts = {}
  PROVE  /\ Sound(r, Opens(r, c, k)) /\ Opens(r, c, k).at \in {"gate", "asked"}
         /\ Opens(r, c, k).at = "asked" /\ Gated(r) => Provider(Opens(r, c, k)) # "local"
<1> DEFINE e == [c EXCEPT !.link = k, !.rung = 1, !.step = "read", !.batch = 1, !.checked = 0, !.calls = 0]
<1>0. /\ 1 \in 1..Rungs /\ k \in 0..Len(Chain) /\ 0 + 1 = 1 /\ 2 * 1 - 1 = 1
      /\ Batches[r] \in Nat \ {0} /\ VerifyCalls \in Nat
  BY ChainAssumption, ChainIsOnce
<1>t. e \in CallRecords
  BY <1>0, Values DEF CallRecords, Links
<1>1. /\ e.link = k /\ e.step = "read" /\ e.batch = 1 /\ e.checked = 0
      /\ e.calls = 0 /\ e.failed = c.failed /\ e.cuts = c.cuts /\ e.kept = c.kept
      /\ e.verdict = c.verdict
  BY <1>0 DEF CallRecords
<1>2. Opens(r, c, k) = Calls(r, e)
  BY DEF Opens
<1> HIDE DEF e
<1>3. Placed(r, "read", 1, 0, 1)
  BY <1>0 DEF Placed, Spoken
<1>4. AllTried(e, e.link)
  BY <1>1 DEF AllTried
<1>5. Placed(r, e.step, e.batch, e.checked, e.calls + 1)
  BY <1>0, <1>1, <1>3
<1>6. Sound(r, Calls(r, e))
  BY <1>t, <1>1, <1>4, <1>5, CallsSound
<1>7. Fresh(r, e, Calls(r, e))
  BY <1>t, <1>1, CallsIs
<1>8. QED
  BY <1>1, <1>2, <1>6, <1>7 DEF Fresh

(* A reader is done with a verdict that the failures so far justify.       *)
LEMMA SettledSound ==
  ASSUME NEW r \in Readers, NEW c \in CallRecords, NEW v \in {"answer", "weak", "vendorless",
                                                               "outage", "slow", "failed"},
         Kinds[r] = "statement" => c.kept = "none",
         Justified(r, v, c.failed, c.cuts)
  PROVE  Sound(r, Settled(c, v)) /\ Settled(c, v).at = "over"
<1> DEFINE d == Settled(c, v)
<1>0. v \in Verdicts
  BY DEF Verdicts
<1>1. d \in CallRecords
  BY <1>0, Values, QueuedIs DEF Settled, CallRecords
<1>2. d.at = "over" /\ d.verdict = v /\ d.failed = c.failed /\ d.cuts = c.cuts /\ d.kept = c.kept
  BY DEF Settled, Queued
<1> HIDE DEF d
<1>3. QED
  BY <1>1, <1>2 DEF Sound, d

(* A provider that fails is blamed, and the next is asked, or the reading  *)
(* is over with everybody blamed; a second reading that fails is dropped.  *)
LEMMA FailsSound ==
  ASSUME NEW r \in Readers, NEW c \in CallRecords, Sound(r, c), c.at = "asked", NEW e \in Faults
  PROVE  /\ Sound(r, Fails(r, c, e))
         /\ Fails(r, c, e).at = "asked" /\ Gated(r) => Provider(Fails(r, c, e)) # "local"
<1> DEFINE d == Blame(c, e)
<1>0. Walks(r, c) /\ c.link \in 1..Len(Chain) /\ (Kinds[r] = "statement" => c.kept = "none")
  BY DEF Sound, Walks
<1>1. d \in CallRecords
  <2>1. c.failed \cup {Chain[c.link]} \in Blames /\ c.cuts \cup ({e} \cap Cuts) \in CutSets
    BY <1>0, ChainIsOnce DEF CallRecords, Blames, CutSets
  <2>2. (IF e \in Cuts \cup {"timeout"} THEN e ELSE "other") \in Lasts
    BY DEF Cuts, Lasts
  <2>3. QED
    BY <2>1, <2>2 DEF Blame, CallRecords, Provider
<1>2. /\ d.link = c.link /\ d.kept = c.kept /\ d.verdict = "none"
      /\ d.failed = c.failed \cup {Chain[c.link]} /\ d.cuts = c.cuts \cup ({e} \cap Cuts)
      /\ d.last = IF e \in Cuts \cup {"timeout"} THEN e ELSE "other"
  BY <1>0 DEF Blame, CallRecords, Provider, Walks
<1> HIDE DEF d
<1>3. Kinds[r] = "statement" => d.kept = "none"
  BY <1>0, <1>2
<1>4. AllTried(d, c.link + 1)
  BY <1>0, <1>2, ChainIsOnce DEF Walks, AllTried
<1>5. CASE c.step = "correct"
  <2>1. Fails(r, c, e) = Settled(c, "answer")
    BY <1>5 DEF Fails
  <2>2. Justified(r, "answer", c.failed, c.cuts)
    BY DEF Justified
  <2>3. QED
    BY <2>1, <2>2, <1>0, SettledSound
<1>6. CASE c.step # "correct" /\ c.link < Len(Chain)
  <2>1. c.link + 1 \in 1..Len(Chain) /\ c.link + 1 # 1
    BY <1>0, <1>6, ChainIsOnce
  <2>2. Fails(r, c, e) = Opens(r, d, c.link + 1)
    BY <1>6 DEF Fails, d
  <2>3. QED
    BY <2>1, <2>2, <1>1, <1>2, <1>3, <1>4, OpensSound
<1>7. CASE c.step # "correct" /\ ~ c.link < Len(Chain)
  <2>0. c.link = Len(Chain)
    BY <1>0, <1>7, ChainIsOnce
  <2>1. Fails(r, c, e) = Settled(d, Spent(r, d))
    BY <1>7 DEF Fails, d
  <2>2. /\ Spent(r, d) \in {"vendorless", "outage", "slow", "failed"}
        /\ d.kept # "none" => Spent(r, d) = "vendorless"
    BY <1>1 DEF Spent, StatementVerdict, LastError, CallRecords, Kepts
  <2>3. d.kept = "none" => \A k \in DOMAIN Chain : Chain[k] \in d.failed
    BY <1>0, <1>2, <1>4, <2>0, ChainIsOnce DEF AllTried
  <2>4. Spent(r, d) = "outage" => d.cuts # {}
    <3>1. d.last \in Cuts => e \in Cuts /\ e \in d.cuts
      BY <1>2 DEF Cuts
    <3>2. Spent(r, d) = "outage" => d.last \in Cuts \/ "down" \in d.cuts
      <4>1. d.kept # "none" => d.kept # "outage"
        BY <1>1 DEF CallRecords, Kepts
      <4>2. QED
        BY <4>1 DEF Spent, StatementVerdict, LastError
    <3>3. QED
      BY <3>1, <3>2
  <2>5. ASSUME Chain = <<"local">>, Gated(r), Spent(r, d) \in {"slow", "failed"}
        PROVE  d.cuts = {}
    <3>1. c.link = 1 /\ Chain[1] = "local" /\ d.kept = "none"
      BY <2>0, <2>2, <2>5
    <3>2. d.failed = {"local"} /\ d.cuts = {e} \cap Cuts
      BY <1>0, <1>2, <3>1 DEF Walks
    <3>3. Kinds[r] \in {"statement", "receipt"}
      BY <2>5, ChainAssumption DEF Gated
    <3>4. SUFFICES ASSUME e \in Cuts PROVE FALSE
      BY <3>2
    <3>5. d.last = e
      BY <1>2, <3>4
    <3>6. StatementVerdict(d) = "outage" /\ LastError(d) = "outage"
      <4>1. d.last \in Cuts /\ d.failed = {"local"} /\ d.last # "timeout"
        BY <3>2, <3>4, <3>5 DEF Cuts
      <4>2. StatementVerdict(d) = "outage"
        BY <4>1 DEF StatementVerdict
      <4>3. LastError(d) = "outage"
        BY <4>1 DEF LastError
      <4>4. QED
        BY <4>2, <4>3
    <3>8. Spent(r, d) = "outage"
      BY <3>1, <3>3, <3>6, <1>2 DEF Spent
    <3>7. QED
      BY <2>5, <3>8
  <2>6. Justified(r, Spent(r, d), d.failed, d.cuts)
    BY <2>2, <2>3, <2>4, <2>5 DEF Justified
  <2>7. QED
    BY <2>1, <2>2, <2>6, <1>1, <1>3, SettledSound
<1>8. QED
  BY <1>5, <1>6, <1>7

(* What a question within a call leaves alone                              *)
SameCall(c, d) ==
  /\ d.at = "asked" /\ d.link = c.link /\ d.kept = c.kept /\ d.verdict = c.verdict
  /\ d.failed = c.failed /\ d.cuts = c.cuts
  /\ d.step = c.step /\ d.batch = c.batch /\ d.checked = c.checked /\ d.calls = c.calls
  /\ d.asked = c.asked + 1

(* Asking the same provider again uses up some of the call's allowance.    *)
LEMMA AgainSound ==
  ASSUME NEW r \in Readers, NEW c \in CallRecords, Sound(r, c), c.at = "asked",
         NEW d \in CallRecords, SameCall(c, d),
         Used(c) \in Nat, Used(d) \in Nat, Used(c) < Used(d),
         Provider(d) = "gemini" => d.tries <= 1 /\ ~d.doubled /\ ~d.corrected
  PROVE  Sound(r, d)
<1>1. Walks(r, c) /\ Works(c) /\ c.asked \in Nat
  BY DEF Sound, CallRecords
<1>2. d.asked <= Used(d)
  BY <1>1 DEF Works, SameCall
<1>3. Walks(r, d)
  BY <1>1 DEF Walks, Stands, AllTried, SameCall
<1>4. QED
  BY <1>2, <1>3 DEF Sound, Works, SameCall

(* What one more question uses                                             *)
LEMMA UsedMore ==
  ASSUME NEW c \in CallRecords, c.at = "asked"
  PROVE  /\ Used(c) \in Nat
         /\ ~c.corrected /\ Provider(c) # "gemini" =>
              LET d == Again([c EXCEPT !.corrected = TRUE])
              IN d \in CallRecords /\ SameCall(c, d) /\ Used(d) = Used(c) + 1
         /\ ~c.doubled /\ Provider(c) # "gemini" =>
              LET d == Again([c EXCEPT !.doubled = TRUE])
              IN d \in CallRecords /\ SameCall(c, d) /\ Used(d) = Used(c) + 1
         /\ c.tries < 2 =>
              LET d == Again([c EXCEPT !.tries = @ + 1])
              IN /\ d \in CallRecords /\ SameCall(c, d) /\ Used(d) = Used(c) + 1
                 /\ d.tries = c.tries + 1 /\ d.doubled = c.doubled /\ d.corrected = c.corrected
<1>0. /\ c.tries \in 0..2 /\ c.rung \in 1..Rungs /\ Rungs \in Nat /\ c.asked \in Nat
      /\ One(c.doubled) \in 0..1 /\ One(c.corrected) \in 0..1 /\ One(TRUE) = 1
      /\ c.asked + 1 \in Nat
  BY ChainAssumption DEF CallRecords, One, Thrice, Ladder
<1>1. Used(c) \in Nat
  BY <1>0 DEF Used
<1>2. ASSUME ~c.corrected, Provider(c) # "gemini"
      PROVE  LET d == Again([c EXCEPT !.corrected = TRUE])
             IN d \in CallRecords /\ SameCall(c, d) /\ Used(d) = Used(c) + 1
  <2> DEFINE d == Again([c EXCEPT !.corrected = TRUE])
  <2>1. /\ d \in CallRecords /\ d.corrected = TRUE /\ d.doubled = c.doubled /\ d.tries = c.tries
        /\ d.link = c.link
    BY <1>0 DEF CallRecords, Again
  <2>s. SameCall(c, d)
    BY <1>0 DEF CallRecords, Again, SameCall
  <2> HIDE DEF d
  <2>2. One(c.corrected) = 0 /\ One(d.corrected) = 1 /\ One(d.doubled) = One(c.doubled)
    BY <2>1, <1>2 DEF One
  <2>3. Used(d) = Used(c) + 1
    BY <2>1, <2>2, <1>0, <1>2 DEF Used, Provider
  <2>4. QED
    BY <2>1, <2>s, <2>3 DEF d
<1>3. ASSUME ~c.doubled, Provider(c) # "gemini"
      PROVE  LET d == Again([c EXCEPT !.doubled = TRUE])
             IN d \in CallRecords /\ SameCall(c, d) /\ Used(d) = Used(c) + 1
  <2> DEFINE d == Again([c EXCEPT !.doubled = TRUE])
  <2>1. /\ d \in CallRecords /\ d.doubled = TRUE /\ d.corrected = c.corrected /\ d.tries = c.tries
        /\ d.link = c.link
    BY <1>0 DEF CallRecords, Again
  <2>s. SameCall(c, d)
    BY <1>0 DEF CallRecords, Again, SameCall
  <2> HIDE DEF d
  <2>2. One(c.doubled) = 0 /\ One(d.doubled) = 1 /\ One(d.corrected) = One(c.corrected)
    BY <2>1, <1>3 DEF One
  <2>3. Used(d) = Used(c) + 1
    BY <2>1, <2>2, <1>0, <1>3 DEF Used, Provider
  <2>4. QED
    BY <2>1, <2>s, <2>3 DEF d
<1>4. ASSUME c.tries < 2
      PROVE  LET d == Again([c EXCEPT !.tries = @ + 1])
             IN /\ d \in CallRecords /\ SameCall(c, d) /\ Used(d) = Used(c) + 1
                /\ d.tries = c.tries + 1 /\ d.doubled = c.doubled /\ d.corrected = c.corrected
  <2> DEFINE d == Again([c EXCEPT !.tries = @ + 1])
  <2>0. c.tries + 1 \in Thrice
    BY <1>0, <1>4 DEF Thrice
  <2>1. /\ d \in CallRecords /\ d.doubled = c.doubled /\ d.corrected = c.corrected
        /\ d.tries = c.tries + 1 /\ d.link = c.link /\ d.rung = c.rung
    BY <1>0, <2>0 DEF CallRecords, Again
  <2>s. SameCall(c, d)
    BY <1>0 DEF CallRecords, Again, SameCall
  <2> HIDE DEF d
  <2>3. Used(d) = Used(c) + 1
    BY <2>1, <1>0, <1>4 DEF Used, Provider
  <2>4. QED
    BY <2>1, <2>s, <2>3 DEF d
<1>5. QED
  BY <1>1, <1>2, <1>3, <1>4

(* A lower rung of the ladder makes room for two more requests, or is a    *)
(* statement begun again.                                                  *)
LEMMA RungSound ==
  ASSUME NEW r \in Readers, NEW c \in CallRecords, Sound(r, c), c.at = "asked",
         Provider(c) = "gemini", c.rung < Rungs, Kinds[r] = "statement" => c.step # "correct"
  PROVE  /\ Sound(r, NextRung(r, c)) /\ NextRung(r, c).link = c.link
<1> DEFINE d == [c EXCEPT !.rung = @ + 1, !.tries = 0]
<1>0. /\ c.rung + 1 \in 1..Rungs /\ 0 \in 0..2 /\ c.asked + 1 \in Nat /\ c.link \in 1..Len(Chain)
      /\ c.rung \in 1..Rungs /\ Rungs \in Nat /\ c.tries \in 0..2 /\ Walks(r, c) /\ Works(c)
      /\ Batches[r] \in Nat \ {0} /\ c.asked \in Nat
  BY ChainAssumption DEF CallRecords, Sound, Walks, Thrice, Ladder
<1>l. c.rung + 1 \in Ladder
  BY <1>0 DEF Ladder
<1>t. d \in CallRecords
  BY <1>l, Values DEF CallRecords
<1>1. /\ d.at = "asked" /\ d.link = c.link /\ d.rung = c.rung + 1 /\ d.tries = 0
      /\ d.asked = c.asked /\ d.kept = c.kept /\ d.verdict = c.verdict /\ d.failed = c.failed
      /\ d.cuts = c.cuts /\ d.doubled = c.doubled /\ d.corrected = c.corrected
      /\ d.step = c.step /\ d.batch = c.batch /\ d.checked = c.checked /\ d.calls = c.calls
  BY <1>0 DEF CallRecords
<1>2. NextRung(r, c) = IF Kinds[r] = "statement" THEN Calls(r, [d EXCEPT !.batch = 1, !.calls = 0])
                       ELSE Again(d)
  BY DEF NextRung
<1> HIDE DEF d
<1>3. CASE Kinds[r] = "statement"
  <2> DEFINE e == [d EXCEPT !.batch = 1, !.calls = 0]
  <2>t. e \in CallRecords
    <3>1. \A b \in Pages, n \in Nat : [d EXCEPT !.batch = b, !.calls = n] \in CallRecords
      BY <1>t DEF CallRecords
    <3>2. QED
      BY <3>1, Values
  <2>1. /\ e.link = c.link /\ e.step = c.step /\ e.batch = 1 /\ e.calls = 0
        /\ e.checked = c.checked /\ e.failed = c.failed /\ e.cuts = c.cuts /\ e.kept = c.kept
        /\ e.verdict = c.verdict
    BY <1>t, <1>1 DEF CallRecords
  <2> HIDE DEF e
  <2>2. Placed(r, c.step, 1, c.checked, 1)
    BY <1>0, <1>3 DEF Walks, Stands, Placed, Spoken
  <2>3. e.calls + 1 = 1
    BY <2>1
  <2>4. AllTried(e, e.link) /\ c.verdict = "none" /\ (c.link = 1 => c.failed = {} /\ c.cuts = {})
        /\ (Kinds[r] = "statement" => e.kept = "none")
    BY <1>0, <2>1 DEF AllTried, Walks, Sound
  <2>5. Sound(r, Calls(r, e))
    BY <1>0, <2>t, <2>1, <2>2, <2>3, <2>4, CallsSound
  <2>6. Calls(r, e).link = c.link
    BY <1>0, <2>t, <2>1, CallsIs DEF Fresh
  <2>7. NextRung(r, c) = Calls(r, e)
    BY <1>2, <1>3 DEF e
  <2>8. QED
    BY <2>5, <2>6, <2>7
<1>4. CASE Kinds[r] # "statement"
  <2> DEFINE a == Again(d)
  <2>1. /\ a \in CallRecords /\ SameCall(c, a) /\ a.rung = c.rung + 1 /\ a.tries = 0
        /\ a.doubled = c.doubled /\ a.corrected = c.corrected
    BY <1>0, <1>t, <1>1 DEF Again, CallRecords, SameCall
  <2> HIDE DEF a
  <2>2. c.tries <= 1 /\ ~c.doubled /\ ~c.corrected
    BY <1>0 DEF Works
  <2>3. Provider(a) = "gemini"
    BY <2>1 DEF Provider, SameCall
  <2>4. Used(c) = 2 * (c.rung - 1) + 1 + c.tries /\ Used(a) = 2 * c.rung + 1
    BY <1>0, <2>1, <2>3 DEF Used
  <2>5. Used(c) \in Nat /\ Used(a) \in Nat /\ Used(c) < Used(a)
    <3>1. c.rung \in Int /\ c.rung >= 1 /\ c.tries \in Int /\ c.tries >= 0
      BY <1>0
    <3>2. QED
      BY ONLY <3>1, <2>2, <2>4
  <2>6. Sound(r, a)
    BY <2>1, <2>2, <2>3, <2>5, AgainSound
  <2>7. QED
    BY <1>2, <1>4, <2>1, <2>6 DEF a, SameCall
<1>5. QED
  BY <1>3, <1>4

-----------------------------------------------------------------------------
(* What one step of a reader leads to: a sound state of it, in which it is *)
(* inside, and at the local server only if it was.                         *)
Follows(r, d) ==
  /\ Sound(r, d)
  /\ d.at = "asked" /\ Gated(r) /\ Provider(d) = "local" => Provider(call[r]) = "local"

(* A further call of the pages to the same provider                        *)
LEMMA CallFollows ==
  ASSUME NEW r \in Readers, call \in [Readers -> CallRecords], Sound(r, call[r]),
         call[r].at = "asked", NEW e \in CallRecords,
         e.link = call[r].link, e.verdict = call[r].verdict, e.kept = call[r].kept,
         e.failed = call[r].failed, e.cuts = call[r].cuts,
         Placed(r, e.step, e.batch, e.checked, e.calls + 1)
  PROVE  Calls(r, e) \in CallRecords /\ Follows(r, Calls(r, e))
<1>1. /\ call[r].link \in 1..Len(Chain) /\ AllTried(call[r], call[r].link)
      /\ call[r].verdict = "none"
      /\ call[r].link = 1 => call[r].failed = {} /\ call[r].cuts = {}
      /\ Kinds[r] = "statement" => call[r].kept = "none"
  BY DEF Sound, Walks
<1>2. AllTried(e, e.link)
  BY <1>1 DEF AllTried
<1>3. Sound(r, Calls(r, e))
  BY <1>1, <1>2, CallsSound
<1>4. Calls(r, e) \in CallRecords /\ Calls(r, e).link = call[r].link
  BY <1>1, CallsIs DEF Fresh
<1>5. QED
  BY <1>3, <1>4 DEF Follows, Provider

LEMMA PagesFollow ==
  ASSUME NEW r \in Readers, call \in [Readers -> CallRecords], Sound(r, call[r]),
         NextBatch(r) \/ Sharpens(r) \/ Verifies(r) \/ Rebalances(r)
  PROVE  \E d \in CallRecords : Follows(r, d) /\ call' = [call EXCEPT ![r] = d]
<1> DEFINE c == call[r]
<1>0. c \in CallRecords /\ c.at = "asked" /\ Walks(r, c)
  BY DEF NextBatch, Sharpens, Verifies, Rebalances, Last, Asked, Sound
<1>1. /\ c.batch \in Nat \ {0} /\ c.batch <= Batches[r] /\ c.checked \in Nat /\ c.calls \in Nat
      /\ c.checked <= VerifyCalls /\ c.calls <= Spoken(r, c.step, c.batch, c.checked)
      /\ c.step \in (IF Kinds[r] = "statement" THEN {"read", "correct"} ELSE {"read", "sharpen", "verify"})
      /\ c.step \in {"sharpen", "verify"} => Batches[r] > 1
      /\ c.step = "verify" => c.batch = Batches[r]
      /\ Batches[r] \in Nat \ {0} /\ VerifyCalls \in Nat
  BY <1>0, ChainAssumption DEF Walks, Stands, Placed
<1>2. Parts(r, c) \in {1, Batches[r]} /\ (Kinds[r] # "statement" => Parts(r, c) = Batches[r])
  BY DEF Parts
<1>3. CASE NextBatch(r)
  <2> DEFINE e == [c EXCEPT !.batch = @ + 1, !.step = IF @ = "sharpen" THEN "read" ELSE @]
  <2>1. Becomes(r, Calls(r, e)) /\ c.batch < Parts(r, c)
    BY <1>3 DEF NextBatch
  <2>t. e \in CallRecords
    <3>1. c.batch + 1 \in Pages
      BY <1>1 DEF Pages
    <3>2. QED
      BY <1>0, <3>1, Values DEF CallRecords
  <2>2. /\ e.link = c.link /\ e.verdict = c.verdict /\ e.kept = c.kept
        /\ e.failed = c.failed /\ e.cuts = c.cuts /\ e.batch = c.batch + 1 /\ e.checked = c.checked
        /\ e.calls = c.calls /\ e.step = IF c.step = "sharpen" THEN "read" ELSE c.step
    BY <1>0, <1>1 DEF CallRecords
  <2> HIDE DEF e
  <2>3. c.batch + 1 <= Batches[r] /\ c.step # "verify"
    BY <1>1, <1>2, <2>1
  <2>4. Placed(r, e.step, e.batch, e.checked, e.calls + 1)
    <3>1. CASE Kinds[r] = "statement"
      BY <1>1, <2>2, <2>3, <3>1 DEF Placed, Spoken
    <3>2. CASE Kinds[r] # "statement"
      BY <1>1, <2>2, <2>3, <3>2 DEF Placed, Spoken
    <3>3. QED
      BY <3>1, <3>2
  <2>5. QED
    BY <1>0, <2>1, <2>2, <2>4, <2>t, CallFollows DEF Becomes
<1>4. CASE Sharpens(r)
  <2> DEFINE e == [c EXCEPT !.step = "sharpen"]
  <2>1. Becomes(r, Calls(r, e)) /\ Kinds[r] = "receipt" /\ Batches[r] > 1 /\ c.step = "read"
    BY <1>4 DEF Sharpens
  <2>t. e \in CallRecords
    BY <1>0, <1>1, Values DEF CallRecords
  <2>2. /\ e.link = c.link /\ e.verdict = c.verdict /\ e.kept = c.kept
        /\ e.failed = c.failed /\ e.cuts = c.cuts /\ e.batch = c.batch /\ e.checked = c.checked
        /\ e.calls = c.calls /\ e.step = "sharpen"
    BY <1>0 DEF CallRecords
  <2> HIDE DEF e
  <2>3. Placed(r, e.step, e.batch, e.checked, e.calls + 1)
    BY <1>1, <2>1, <2>2 DEF Placed, Spoken
  <2>4. QED
    BY <1>0, <2>1, <2>2, <2>3, <2>t, CallFollows DEF Becomes
<1>5. CASE Verifies(r)
  <2> DEFINE e == [c EXCEPT !.step = "verify", !.checked = @ + 1]
  <2>1. /\ Becomes(r, Calls(r, e)) /\ Kinds[r] = "receipt" /\ Batches[r] > 1
        /\ c.checked < VerifyCalls /\ c.batch = Batches[r]
    BY <1>2, <1>5 DEF Verifies, Last
  <2>t. e \in CallRecords
    <3>1. \A n \in Nat : [c EXCEPT !.step = "verify", !.checked = n] \in CallRecords
      BY <1>0, Values DEF CallRecords
    <3>2. e = [c EXCEPT !.step = "verify", !.checked = c.checked + 1] /\ c.checked + 1 \in Nat
      BY <1>0, <1>1 DEF CallRecords
    <3>3. QED
      BY <3>1, <3>2
  <2>2. /\ e.link = c.link /\ e.verdict = c.verdict /\ e.kept = c.kept
        /\ e.failed = c.failed /\ e.cuts = c.cuts /\ e.batch = c.batch /\ e.checked = c.checked + 1
        /\ e.calls = c.calls /\ e.step = "verify"
    BY <1>0, <1>1 DEF CallRecords
  <2> HIDE DEF e
  <2>3. Placed(r, e.step, e.batch, e.checked, e.calls + 1)
    BY <1>1, <2>1, <2>2 DEF Placed, Spoken
  <2>4. QED
    BY <1>0, <2>1, <2>2, <2>3, <2>t, CallFollows DEF Becomes
<1>6. CASE Rebalances(r)
  <2> DEFINE e == [c EXCEPT !.step = "correct", !.batch = 1, !.rung = 1]
  <2>1. Becomes(r, Calls(r, e)) /\ Kinds[r] = "statement" /\ c.step = "read"
    BY <1>6 DEF Rebalances
  <2>t. e \in CallRecords
    BY <1>0, Values DEF CallRecords
  <2>2. /\ e.link = c.link /\ e.verdict = c.verdict /\ e.kept = c.kept
        /\ e.failed = c.failed /\ e.cuts = c.cuts /\ e.batch = 1 /\ e.checked = c.checked
        /\ e.calls = c.calls /\ e.step = "correct"
    BY <1>0 DEF CallRecords
  <2> HIDE DEF e
  <2>3. Placed(r, e.step, e.batch, e.checked, e.calls + 1)
    BY <1>1, <2>1, <2>2 DEF Placed, Spoken
  <2>4. QED
    BY <1>0, <2>1, <2>2, <2>3, <2>t, CallFollows DEF Becomes
<1>7. QED
  BY <1>3, <1>4, <1>5, <1>6

LEMMA AnswersFollow ==
  ASSUME NEW r \in Readers, call \in [Readers -> CallRecords], Sound(r, call[r]),
         Answers(r) \/ Vendorless(r) \/ Amountless(r) \/ Truncated(r)
  PROVE  \E d \in CallRecords : Follows(r, d) /\ call' = [call EXCEPT ![r] = d]
<1> DEFINE c == call[r]
<1>0. /\ c \in CallRecords /\ c.at = "asked" /\ Walks(r, c) /\ Works(c) /\ c.link \in 1..Len(Chain)
      /\ c.verdict = "none"
  BY DEF Answers, Vendorless, Amountless, Truncated, Last, Asked, Sound, Walks
<1>j. \A v \in {"answer", "weak", "vendorless"} : Justified(r, v, c.failed, c.cuts)
  BY DEF Justified
<1>1. CASE Answers(r)
  <2>1. Sound(r, Settled(c, "answer")) /\ Settled(c, "answer").at = "over"
    BY <1>0, <1>j, SettledSound DEF Sound
  <2>2. QED
    BY <1>1, <2>1 DEF Answers, Becomes, Follows, Sound
<1>2. CASE Vendorless(r)
  <2> DEFINE k == [c EXCEPT !.kept = "vendorless"]
  <2>1. /\ k \in CallRecords /\ k.kept = "vendorless" /\ k.link = c.link /\ k.failed = c.failed
        /\ k.cuts = c.cuts /\ k.verdict = c.verdict /\ Kinds[r] # "statement"
    BY <1>0, <1>2 DEF CallRecords, Vendorless, Kepts
  <2>2. Becomes(r, IF c.link < Len(Chain) THEN Opens(r, k, c.link + 1) ELSE Settled(k, "vendorless"))
    BY <1>2, <2>1 DEF Vendorless
  <2> HIDE DEF k
  <2>3. CASE c.link < Len(Chain)
    <3>1. c.link + 1 \in 1..Len(Chain) /\ c.link + 1 # 1
      BY <1>0, <2>3, ChainIsOnce
    <3>2. AllTried(k, c.link + 1)
      BY <2>1 DEF AllTried
    <3>3. /\ Sound(r, Opens(r, k, c.link + 1))
          /\ Opens(r, k, c.link + 1).at = "asked" /\ Gated(r)
               => Provider(Opens(r, k, c.link + 1)) # "local"
      BY <3>1, <3>2, <2>1, <1>0, OpensSound
    <3>4. QED
      BY <2>2, <2>3, <3>3 DEF Becomes, Follows, Sound
  <2>4. CASE ~ c.link < Len(Chain)
    <3>1. Sound(r, Settled(k, "vendorless")) /\ Settled(k, "vendorless").at = "over"
      BY <1>0, <1>j, <2>1, SettledSound
    <3>2. QED
      BY <2>2, <2>4, <3>1 DEF Becomes, Follows, Sound
  <2>5. QED
    BY <2>3, <2>4
<1>3. CASE Amountless(r)
  <2>1. CASE Chat(c) /\ ~c.corrected
    <3> DEFINE d == Again([c EXCEPT !.corrected = TRUE])
    <3>1. Used(c) \in Nat /\ d \in CallRecords /\ SameCall(c, d) /\ Used(d) = Used(c) + 1
      BY <1>0, <2>1, UsedMore DEF Chat
    <3>3. call' = [call EXCEPT ![r] = d]
      BY <1>3, <2>1 DEF Amountless, Becomes
    <3> HIDE DEF d
    <3>4. Provider(d) = Provider(c) /\ Provider(d) # "gemini"
      BY <2>1, <3>1 DEF Provider, Chat, SameCall
    <3>5. Sound(r, d)
      BY <1>0, <3>1, <3>4, AgainSound
    <3>6. QED
      BY <3>1, <3>3, <3>4, <3>5 DEF Follows
  <2>2. CASE ~(Chat(c) /\ ~c.corrected)
    <3>1. Sound(r, Settled(c, "weak")) /\ Settled(c, "weak").at = "over"
      BY <1>0, <1>j, SettledSound DEF Sound
    <3>2. QED
      BY <1>3, <2>2, <3>1 DEF Amountless, Becomes, Follows, Sound
  <2>3. QED
    BY <2>1, <2>2
<1>4. CASE Truncated(r)
  <2> DEFINE d == Again([c EXCEPT !.doubled = TRUE])
  <2>0. Provider(c) = "local" /\ ~c.doubled
    BY <1>4 DEF Truncated
  <2>1. Used(c) \in Nat /\ d \in CallRecords /\ SameCall(c, d) /\ Used(d) = Used(c) + 1
    BY <1>0, <2>0, UsedMore
  <2>3. call' = [call EXCEPT ![r] = d]
    BY <1>4 DEF Truncated, Becomes
  <2> HIDE DEF d
  <2>4. Provider(d) = "local"
    BY <2>0, <2>1 DEF Provider, SameCall
  <2>5. Sound(r, d)
    BY <1>0, <2>1, <2>4, AgainSound
  <2>6. QED
    BY <2>0, <2>1, <2>3, <2>5 DEF Follows
<1>5. QED
  BY <1>1, <1>2, <1>3, <1>4

LEMMA FailuresFollow ==
  ASSUME NEW r \in Readers, call \in [Readers -> CallRecords], Sound(r, call[r]),
         Garbage(r) \/ \E e \in Faults \ {"garbage"} : Raises(r, e)
  PROVE  \E d \in CallRecords : Follows(r, d) /\ call' = [call EXCEPT ![r] = d]
<1> DEFINE c == call[r]
<1>0. c \in CallRecords /\ c.at = "asked" /\ Works(c)
  BY DEF Garbage, Raises, Asked, Sound
<1>a. \A e \in Faults : /\ Fails(r, c, e) \in CallRecords
                        /\ Follows(r, Fails(r, c, e))
  BY <1>0, FailsSound DEF Follows, Sound
<1>b. Provider(c) = "gemini" /\ c.rung < Rungs /\ (Kinds[r] = "statement" => c.step # "correct") =>
        NextRung(r, c) \in CallRecords /\ Follows(r, NextRung(r, c))
  BY <1>0, RungSound DEF Follows, Sound, Provider
<1>c. "garbage" \in Faults
  BY DEF Faults
<1>1. CASE Garbage(r)
  <2>1. CASE Corrects(r, c)
    <3> DEFINE d == Again([c EXCEPT !.corrected = TRUE])
    <3>0. ~c.corrected /\ Provider(c) # "gemini"
      BY <2>1 DEF Corrects, Chat
    <3>1. Used(c) \in Nat /\ d \in CallRecords /\ SameCall(c, d) /\ Used(d) = Used(c) + 1
      BY <1>0, <3>0, UsedMore
    <3>3. call' = [call EXCEPT ![r] = d]
      <4>1. Becomes(r, CASE Corrects(r, c) -> d
                         [] Provider(c) = "gemini" /\ Kinds[r] = "receipt" /\ c.rung < Rungs ->
                              NextRung(r, c)
                         [] OTHER -> Fails(r, c, "garbage"))
        BY <1>1 DEF Garbage
      <4> HIDE DEF d
      <4>2. ~(Provider(c) = "gemini" /\ Kinds[r] = "receipt")
        BY <3>0
      <4>3. QED
        BY <4>1, <4>2, <2>1 DEF Becomes
    <3> HIDE DEF d
    <3>4. Provider(d) = Provider(c)
      BY <3>1 DEF Provider, SameCall
    <3>5. Sound(r, d)
      BY <1>0, <3>0, <3>1, <3>4, AgainSound
    <3>6. QED
      BY <3>1, <3>3, <3>4, <3>5 DEF Follows
  <2>2. CASE ~Corrects(r, c)
    <3>1. \/ /\ Provider(c) = "gemini" /\ c.rung < Rungs /\ Kinds[r] = "receipt"
             /\ Becomes(r, NextRung(r, c))
          \/ Becomes(r, Fails(r, c, "garbage"))
      BY <1>1, <2>2 DEF Garbage
    <3>2. QED
      BY <3>1, <1>a, <1>b, <1>c DEF Becomes
  <2>3. QED
    BY <2>1, <2>2
<1>2. ASSUME NEW e \in Faults \ {"garbage"}, Raises(r, e)
      PROVE  \E d \in CallRecords : Follows(r, d) /\ call' = [call EXCEPT ![r] = d]
  <2>1. CASE Retries(r, c, e)
    <3> DEFINE d == Again([c EXCEPT !.tries = @ + 1])
    <3>0. /\ c.tries < 2 /\ ~c.doubled /\ ~c.corrected
          /\ Provider(c) = "gemini" => c.tries = 0
      BY <2>1 DEF Retries, Chat
    <3>1. /\ Used(c) \in Nat /\ d \in CallRecords /\ SameCall(c, d) /\ Used(d) = Used(c) + 1
          /\ d.tries = c.tries + 1 /\ d.doubled = c.doubled /\ d.corrected = c.corrected
      BY <1>0, <3>0, UsedMore
    <3>3. call' = [call EXCEPT ![r] = d]
      <4>1. Becomes(r, CASE Retries(r, c, e) -> d
                         [] ~Retries(r, c, e) /\ StepsDown(r, c, e) -> NextRung(r, c)
                         [] OTHER -> Fails(r, c, e))
        BY <1>2 DEF Raises
      <4> HIDE DEF d
      <4>2. QED
        BY <4>1, <2>1 DEF Becomes
    <3> HIDE DEF d
    <3>4. Provider(d) = Provider(c)
      BY <3>1 DEF Provider, SameCall
    <3>5. Sound(r, d)
      BY <1>0, <3>0, <3>1, <3>4, AgainSound
    <3>6. QED
      BY <3>1, <3>3, <3>4, <3>5 DEF Follows
  <2>2. CASE ~Retries(r, c, e)
    <3>1. \/ /\ Provider(c) = "gemini" /\ c.rung < Rungs /\ c.step # "correct"
             /\ Becomes(r, NextRung(r, c))
          \/ Becomes(r, Fails(r, c, e))
      BY <1>2, <2>2 DEF Raises, StepsDown
    <3>2. QED
      BY <3>1, <1>a, <1>b DEF Becomes
  <2>3. QED
    BY <2>1, <2>2
<1>3. QED
  BY <1>1, <1>2

-----------------------------------------------------------------------------
(* The slots                                                               *)

(* A step that takes no slot leaves the counts within their limits.        *)
LEMMA FewerInside ==
  ASSUME ChainInv, Inside' \subseteq Inside, AtServer' \subseteq AtServer
  PROVE  IsFiniteSet(Inside)' /\ ServerIsGated'
<1>1. IsFiniteSet(Inside) /\ IsFiniteSet(AtServer)
  <2>1. AtServer \subseteq Inside
    BY DEF AtServer, Inside
  <2>2. QED
    BY <2>1, FS_Subset DEF ChainInv
<1>2. /\ IsFiniteSet(Inside') /\ IsFiniteSet(AtServer')
      /\ Cardinality(Inside') <= Cardinality(Inside)
      /\ Cardinality(AtServer') <= Cardinality(AtServer)
  BY <1>1, FS_Subset
<1>3. /\ Cardinality(Inside) \in Nat /\ Cardinality(AtServer) \in Nat
      /\ Cardinality(Inside') \in Nat /\ Cardinality(AtServer') \in Nat
  BY <1>1, <1>2, FS_CardinalityType
<1>4. Cardinality(AtServer) <= LocalSlots /\ Cardinality(Inside) <= DocumentSlots
  BY DEF ChainInv, ServerIsGated
<1>5. QED
  BY <1>2, <1>3, <1>4, ChainAssumption DEF ServerIsGated

LEMMA EnterKeeps ==
  ASSUME ChainInv, NEW r \in Readers, Enter(r)
  PROVE  ChainInv'
<1> DEFINE d == Opens(r, call[r], 1)
<1>1. /\ call[r] = Queued /\ call[r] \in CallRecords /\ Queued.verdict = "none" /\ Queued.kept = "none"
      /\ Queued.failed = {} /\ Queued.cuts = {}
  BY DEF Enter, ChainInv, Sound, Queued
<1>2. 1 \in 1..Len(Chain) /\ AllTried(call[r], 1)
  BY ChainIsOnce DEF AllTried
<1>3. /\ Sound(r, d) /\ d.at \in {"gate", "asked"}
      /\ d.at = "asked" /\ Gated(r) => Provider(d) # "local"
  BY <1>1, <1>2, OpensSound
<1>4. call' = [call EXCEPT ![r] = d] /\ d \in CallRecords /\ (Gated(r) => Cardinality(Inside) < DocumentSlots)
  BY <1>3 DEF Enter, Becomes, Sound
<1> HIDE DEF d
<1>5. /\ call' \in [Readers -> CallRecords] /\ \A s \in Readers : Sound(s, call'[s])
  BY <1>3, <1>4 DEF ChainInv
<1>6. AtServer' \subseteq AtServer /\ (~Gated(r) => Inside' \subseteq Inside)
  BY <1>3, <1>4 DEF AtServer, Inside, ChainInv, Gated, Provider
<1>7. CASE ~Gated(r)
  BY <1>5, <1>6, <1>7, FewerInside DEF ChainInv
<1>8. CASE Gated(r)
  <2>1. Inside' = Inside \cup {r} /\ r \notin Inside
    BY <1>1, <1>3, <1>4, <1>8 DEF Inside, ChainInv, Gated, Queued
  <2>2. IsFiniteSet(Inside) /\ IsFiniteSet(AtServer)
    <3>1. AtServer \subseteq Inside
      BY DEF AtServer, Inside
    <3>2. QED
      BY <3>1, FS_Subset DEF ChainInv
  <2>3. IsFiniteSet(Inside') /\ Cardinality(Inside') = Cardinality(Inside) + 1
    BY <2>1, <2>2, FS_AddElement
  <2>4. Cardinality(Inside) \in Nat /\ Cardinality(Inside) < DocumentSlots
    BY <1>4, <1>8, <2>2, FS_CardinalityType
  <2>5. Cardinality(Inside') <= DocumentSlots
    BY <2>3, <2>4, ChainAssumption
  <2>6. Cardinality(AtServer') <= Cardinality(AtServer) /\ Cardinality(AtServer') \in Nat
        /\ Cardinality(AtServer) \in Nat
    BY <1>6, <2>2, FS_Subset, FS_CardinalityType
  <2>7. Cardinality(AtServer') <= LocalSlots
    BY <2>6, ChainAssumption DEF ChainInv, ServerIsGated
  <2>8. QED
    BY <1>5, <2>3, <2>5, <2>7 DEF ChainInv, ServerIsGated
<1>9. QED
  BY <1>7, <1>8

LEMMA PassKeeps ==
  ASSUME ChainInv, NEW r \in Readers, Pass(r)
  PROVE  ChainInv'
<1> DEFINE c == call[r]
           d == Again([c EXCEPT !.at = "asked"])
<1>1. c \in CallRecords /\ Walks(r, c) /\ Waits(c) /\ c.at = "gate" /\ c.asked = 0
  BY DEF Pass, ChainInv, Sound, Waits
<1>2. /\ d \in CallRecords /\ d.at = "asked" /\ d.link = c.link /\ d.asked = 1
      /\ d.kept = c.kept /\ d.failed = c.failed /\ d.cuts = c.cuts /\ d.verdict = c.verdict
      /\ d.rung = c.rung /\ d.tries = c.tries /\ d.doubled = c.doubled /\ d.corrected = c.corrected
      /\ d.step = c.step /\ d.batch = c.batch /\ d.checked = c.checked /\ d.calls = c.calls
  <2>1. c.asked + 1 = 1 /\ 1 \in Nat
    BY <1>1
  <2>2. QED
    BY <1>1, <2>1, Values DEF Again, CallRecords
<1>3. call' = [call EXCEPT ![r] = d] /\ Cardinality(AtServer) < LocalSlots
  BY DEF Pass, Becomes
<1> HIDE DEF d
<1>4. Used(d) \in Nat /\ Used(d) >= 1
  <2>1. d.rung \in 1..Rungs /\ Rungs \in Nat /\ d.tries = 0 /\ One(d.doubled) = 0 /\ One(d.corrected) = 0
    BY <1>1, <1>2, ChainAssumption DEF Waits, One, CallRecords, Ladder
  <2>2. QED
    BY <2>1 DEF Used
<1>6. Sound(r, d)
  <2>1. Walks(r, d)
    BY <1>1, <1>2 DEF Walks, Stands, AllTried
  <2>2. Works(d)
    BY <1>1, <1>2, <1>4 DEF Works, Waits
  <2>3. QED
    BY <2>1, <2>2, <1>2 DEF Sound, ChainInv
<1>7. call' \in [Readers -> CallRecords] /\ \A s \in Readers : Sound(s, call'[s])
  BY <1>2, <1>3, <1>6 DEF ChainInv
<1>8. Inside' = Inside /\ AtServer' \subseteq AtServer \cup {r} /\ r \notin AtServer
  BY <1>1, <1>2, <1>3 DEF Inside, AtServer, ChainInv, Gated, Provider
<1>9. IsFiniteSet(Inside) /\ IsFiniteSet(AtServer)
  <2>1. AtServer \subseteq Inside
    BY DEF AtServer, Inside
  <2>2. QED
    BY <2>1, FS_Subset DEF ChainInv
<1>10. IsFiniteSet(AtServer \cup {r}) /\ Cardinality(AtServer \cup {r}) = Cardinality(AtServer) + 1
  BY <1>8, <1>9, FS_AddElement
<1>11. /\ Cardinality(AtServer') <= Cardinality(AtServer \cup {r})
       /\ Cardinality(AtServer) \in Nat /\ Cardinality(AtServer') \in Nat
  BY <1>8, <1>9, <1>10, FS_Subset, FS_CardinalityType
<1>12. Cardinality(AtServer') <= LocalSlots
  BY <1>3, <1>10, <1>11, ChainAssumption
<1>13. QED
  BY <1>7, <1>8, <1>12 DEF ChainInv, ServerIsGated

LEMMA ReadsKeep ==
  ASSUME ChainInv, NEW r \in Readers, Reads(r)
  PROVE  ChainInv'
<1>1. call \in [Readers -> CallRecords] /\ Sound(r, call[r])
  BY DEF ChainInv
<1>2. /\ \/ NextBatch(r) \/ Sharpens(r) \/ Verifies(r) \/ Rebalances(r)
         \/ Answers(r) \/ Vendorless(r) \/ Amountless(r) \/ Truncated(r)
         \/ Garbage(r) \/ \E e \in Faults \ {"garbage"} : Raises(r, e)
      /\ call[r].at = "asked"
  BY DEF Reads, TimesOut, Faults, Answers, NextBatch, Sharpens, Verifies, Rebalances, Vendorless,
         Amountless, Truncated, Garbage, Raises, Last, Asked
<1>3. PICK d \in CallRecords : Follows(r, d) /\ call' = [call EXCEPT ![r] = d]
  BY <1>1, <1>2, PagesFollow, AnswersFollow, FailuresFollow
<1>4. call' \in [Readers -> CallRecords] /\ \A s \in Readers : Sound(s, call'[s])
  BY <1>1, <1>3 DEF ChainInv, Follows
<1>5. Inside' \subseteq Inside /\ AtServer' \subseteq AtServer
  BY <1>1, <1>2, <1>3 DEF Inside, AtServer, Follows, Gated, Provider
<1>6. QED
  BY <1>4, <1>5, FewerInside DEF ChainInv

LEMMA NextDocumentKeeps ==
  ASSUME ChainInv, NEW r \in Readers, NextDocument(r)
  PROVE  ChainInv'
<1>1. Queued \in CallRecords /\ Queued.at = "queued" /\ Queued.kept = "none"
  BY QueuedIs DEF Queued
<1>2. call \in [Readers -> CallRecords] /\ call' = [call EXCEPT ![r] = Queued]
  BY DEF ChainInv, NextDocument, Becomes
<1>3. Sound(r, Queued)
  BY <1>1 DEF Sound
<1>4. call' \in [Readers -> CallRecords] /\ \A s \in Readers : Sound(s, call'[s])
  BY <1>1, <1>2, <1>3 DEF ChainInv
<1>5. Inside' \subseteq Inside /\ AtServer' \subseteq AtServer
  BY <1>1, <1>2 DEF Inside, AtServer, Gated, Provider
<1>6. QED
  BY <1>4, <1>5, FewerInside DEF ChainInv

LEMMA InitSound == ChainInit => ChainInv
<1> SUFFICES ASSUME ChainInit PROVE ChainInv
  OBVIOUS
<1>1. Queued \in CallRecords /\ Queued.at = "queued" /\ Queued.kept = "none"
  BY QueuedIs DEF Queued
<1>2. call \in [Readers -> CallRecords] /\ \A r \in Readers : Sound(r, call[r])
  BY <1>1 DEF ChainInit, Sound
<1>3. Inside = {} /\ AtServer = {}
  BY <1>1 DEF ChainInit, Inside, AtServer
<1>4. QED
  BY <1>2, <1>3, FS_EmptySet, ChainAssumption DEF ChainInv, ServerIsGated

LEMMA NextSound == ChainInv /\ [ChainNext]_call => ChainInv'
<1> SUFFICES ASSUME ChainInv, [ChainNext]_call PROVE ChainInv'
  OBVIOUS
<1>1. ASSUME NEW r \in Readers, Enter(r) \/ Pass(r) \/ Reads(r) \/ NextDocument(r) PROVE ChainInv'
  BY <1>1, EnterKeeps, PassKeeps, ReadsKeep, NextDocumentKeeps
<1>2. CASE UNCHANGED call
  BY <1>2 DEF ChainInv, Inside, AtServer, ServerIsGated
<1>3. QED
  BY <1>1, <1>2 DEF ChainNext

-----------------------------------------------------------------------------
(* The theorems                                                            *)

LEMMA InvBoundsLoad == ChainInv => LoadIsBounded
<1> SUFFICES ASSUME ChainInv PROVE LoadIsBounded
  OBVIOUS
<1>1. CallTypeOK
  BY DEF ChainInv, CallRecords, Providers, Ats, Links, Ladder, Thrice, Steps, Pages, Blames, CutSets,
         Lasts, Kepts, Verdicts, CallTypeOK
<1>2. ASSUME NEW r \in Readers, call[r].at \in {"gate", "asked"}
      PROVE  /\ call[r].calls <= CallsPerProvider(r)
             /\ call[r].asked <= IF Provider(call[r]) = "gemini" THEN 2 * Rungs ELSE 5
  <2> DEFINE c == call[r]
  <2>1. c \in CallRecords /\ Sound(r, c) /\ Walks(r, c)
    BY <1>2 DEF ChainInv, Sound
  <2>2. c.calls <= CallsPerProvider(r)
    BY <2>1, PlacedIsAllowed DEF Walks, Stands
  <2>3. CASE c.at = "gate"
    BY <2>1, <2>2, <2>3, ChainAssumption DEF Sound, Waits
  <2>4. CASE c.at = "asked"
    BY <2>1, <2>2, <2>4, UsedIsAllowed DEF Sound
  <2>5. QED
    BY <1>2, <2>3, <2>4
<1>3. RequestsAddUp
  BY <1>2 DEF RequestsAddUp
<1>4. QED
  BY <1>1, <1>3 DEF LoadIsBounded, ChainInv

LEMMA InvTriesAll == ChainInv => EveryProviderHadItsTurn
<1> SUFFICES ASSUME ChainInv, NEW r \in Readers
             PROVE  Justified(r, call[r].verdict, call[r].failed, call[r].cuts)
  BY DEF EveryProviderHadItsTurn, Justified
<1>1. Sound(r, call[r]) /\ call[r] \in CallRecords
  BY DEF ChainInv
<1>2. call[r].at # "over" => call[r].verdict = "none"
  BY <1>1 DEF Sound, CallRecords, Queued, Walks, Ats
<1>3. QED
  BY <1>1, <1>2 DEF Sound, Justified

LEMMA ChainInvariant == ChainSpec => []ChainInv
<1>1. ChainInit => ChainInv
  BY InitSound
<1>2. ChainInv /\ [ChainNext]_call => ChainInv'
  BY NextSound
<1>3. QED
  BY <1>1, <1>2, PTL DEF ChainSpec

(* However many documents are read and whatever the providers answer, a    *)
(* provider is put no more calls for one document than its pages, their    *)
(* re-readings and one second reading need, each call a bounded number of  *)
(* requests, and neither semaphore is ever overdrawn (extraction.py,       *)
(* llm_statement_parser.py, llm_sync.py).                                  *)
THEOREM LoadBounded == ChainSpec => []LoadIsBounded
BY ChainInvariant, InvBoundsLoad, PTL

(* No document fails or is parked before every configured provider failed  *)
(* on it, none is parked as an outage unless a connection was cut, and a   *)
(* document that only the local endpoint could read is always parked when  *)
(* that connection is cut (extraction.py, transactions.py:481-503).        *)
THEOREM EveryProviderTried == ChainSpec => []EveryProviderHadItsTurn
BY ChainInvariant, InvTriesAll, PTL

-----------------------------------------------------------------------------
(* StatementReading. Its operators go through a list line by line; what     *)
(* they make of n lines is proved by induction on n, from the least number  *)
(* of which it fails.                                                       *)
LEMMA AllUpTo ==
  ASSUME NEW N \in Nat, NEW S \in SUBSET Nat, 0 \in S, \A n \in S : n < N => n + 1 \in S
  PROVE  \A n \in 0..N : n \in S
<1> DEFINE Bad == {n \in 0..N : n \notin S}
<1>1. SUFFICES ASSUME Bad # {}  PROVE FALSE
  OBVIOUS
<1>2. \E n \in Bad : \A m \in Bad : ~ (<<m, n>> \in OpToRel(<, Nat))
  <2>1. Bad \in SUBSET Nat
    OBVIOUS
  <2> HIDE DEF Bad
  <2> QED  BY <1>1, <2>1, NatLessThanWellFounded, WFMin
<1>3. \A m, n \in Nat : <<m, n>> \in OpToRel(<, Nat) <=> m < n
  BY DEF OpToRel
<1>4. PICK n \in Bad : \A m \in Bad : ~ (<<m, n>> \in OpToRel(<, Nat))
  BY <1>2
<1>5. n \in Nat /\ n <= N /\ n \notin S
  OBVIOUS
<1>6. n # 0
  BY <1>5
<1>7. n - 1 \in Nat /\ n - 1 < n /\ n - 1 < N /\ (n - 1) + 1 = n
  BY <1>5, <1>6
<1>8. n - 1 \notin Bad
  BY <1>3, <1>4, <1>5, <1>7
<1>9. n - 1 \in S
  BY <1>7, <1>8
<1> QED  BY <1>5, <1>7, <1>9

(* A value that each of N lines takes further exists, line by line.         *)
StepsOf(N, S) == [S \X (1..N) -> S]
RunsOf(N, S, a, F) ==
  {g \in [0..N -> S] : g[0] = a /\ \A n \in 1..N : g[n] = F[<<g[n - 1], n>>]}

LEMMA RunExists ==
  ASSUME NEW N \in Nat, NEW S, NEW a \in S, NEW F \in StepsOf(N, S)
  PROVE  \E g : g \in RunsOf(N, S, a, F)
<1> USE DEF StepsOf
<1> DEFINE Good(g, k) == g[0] = a /\ \A n \in 1..k : g[n] = F[<<g[n - 1], n>>]
           T == {k \in Nat : k <= N => \E g \in [0..k -> S] : Good(g, k)}
<1>1. 0 \in T
  <2>1. [n \in 0..0 |-> a] \in [0..0 -> S] /\ Good([n \in 0..0 |-> a], 0)
    OBVIOUS
  <2> QED  BY <2>1
<1>2. ASSUME NEW k \in T, k < N  PROVE k + 1 \in T
  <2>1. PICK g \in [0..k -> S] : Good(g, k)
    BY <1>2
  <2>2. k \in Nat /\ k + 1 \in 1..N
    BY <1>2
  <2> DEFINE h == [n \in 0..(k + 1) |-> IF n = k + 1 THEN F[<<g[k], k + 1>>] ELSE g[n]]
  <2>3. F[<<g[k], k + 1>>] \in S
    BY <2>1, <2>2
  <2>4. h \in [0..(k + 1) -> S]
    BY <2>1, <2>2, <2>3
  <2>5. h[0] = a
    BY <2>1, <2>2
  <2>6. ASSUME NEW n \in 1..(k + 1)  PROVE h[n] = F[<<h[n - 1], n>>]
    <3>1. CASE n = k + 1
      <4>1. h[n] = F[<<g[k], k + 1>>] /\ n - 1 = k /\ k \in 0..(k + 1) /\ k # k + 1
        BY <2>2, <3>1
      <4>2. h[n - 1] = g[k]
        BY <4>1
      <4> QED  BY <3>1, <4>1, <4>2
    <3>2. CASE n # k + 1
      <4>1. n \in 1..k /\ n - 1 \in 0..k /\ h[n] = g[n] /\ h[n - 1] = g[n - 1]
        BY <2>2, <3>2
      <4> QED  BY <2>1, <4>1
    <3> QED  BY <3>1, <3>2
  <2>7. Good(h, k + 1)
    BY <2>5, <2>6
  <2>8. \E g1 \in [0..(k + 1) -> S] : Good(g1, k + 1)
    <3> HIDE DEF Good, h
    <3> QED  BY <2>4, <2>7
  <2> HIDE DEF Good
  <2> QED  BY <2>2, <2>8
<1>3. N \in T
  <2>1. T \in SUBSET Nat
    OBVIOUS
  <2> HIDE DEF T
  <2>2. N \in 0..N
    OBVIOUS
  <2> QED  BY <1>1, <1>2, <2>1, <2>2, AllUpTo
<1> QED  BY <1>3 DEF RunsOf

(* Whatever obeys the rule is such a run.                                   *)
LEMMA RunIsTyped ==
  ASSUME NEW N \in Nat, NEW S, NEW a \in S, NEW F \in StepsOf(N, S), NEW f,
         f = [n \in 0..N |-> f[n]], f[0] = a,
         \A n \in 1..N : f[n - 1] \in S => f[n] = F[<<f[n - 1], n>>]
  PROVE  f \in RunsOf(N, S, a, F)
<1> DEFINE T == {n \in 0..N : f[n] \in S}
<1>1. 0 \in T /\ T \in SUBSET Nat
  OBVIOUS
<1>2. ASSUME NEW n \in T, n < N  PROVE n + 1 \in T
  <2>1. n + 1 \in 1..N /\ (n + 1) - 1 = n /\ f[n] \in S
    BY <1>2
  <2>2. F[<<f[n], n + 1>>] \in S
    BY <2>1 DEF StepsOf
  <2>3. f[(n + 1) - 1] \in S => f[n + 1] = F[<<f[(n + 1) - 1], n + 1>>]
    BY <2>1
  <2>4. f[n + 1] \in S /\ n + 1 \in 0..N
    BY <2>1, <2>2, <2>3
  <2> QED  BY <2>4
<1>3. \A n \in 0..N : n \in T
  <2> HIDE DEF T
  <2> QED  BY <1>1, <1>2, AllUpTo
<1>4. \A n \in 1..N : n - 1 \in 0..N
  OBVIOUS
<1>5. \A n \in 1..N : f[n] = F[<<f[n - 1], n>>]
  BY <1>3, <1>4
<1>6. f \in [0..N -> S]
  BY <1>3
<1> QED  BY <1>5, <1>6 DEF RunsOf

-----------------------------------------------------------------------------
(* A list's sum                                                             *)
LEMMA MovesRun ==
  ASSUME NEW X, \A x \in X : x.cents \in Int, NEW r \in Seq(X)
  PROVE  \E g \in [0..Len(r) -> Int] :
            /\ g[0] = 0 /\ \A n \in 1..Len(r) : g[n] = g[n - 1] + r[n].cents
            /\ Moves(r) = g[Len(r)]
<1> DEFINE Def(g) == [n \in 0..Len(r) |-> IF n = 0 THEN 0 ELSE g[n - 1] + r[n].cents]
           f == CHOOSE g : g = Def(g)
           F == [p \in Int \X (1..Len(r)) |-> p[1] + r[p[2]].cents]
<1>1. Len(r) \in Nat /\ 0 \in Int /\ \A n \in 1..Len(r) : r[n].cents \in Int
  OBVIOUS
<1>2. F \in StepsOf(Len(r), Int)
  BY <1>1 DEF StepsOf
<1>3. \A v \in Int, n \in 1..Len(r) : F[<<v, n>>] = v + r[n].cents
  OBVIOUS
<1>4. \E g : g = Def(g)
  <2> HIDE DEF F
  <2>1. PICK g : g \in RunsOf(Len(r), Int, 0, F)
    BY <1>1, <1>2, RunExists
  <2>2. g \in [0..Len(r) -> Int] /\ g[0] = 0 /\ \A n \in 1..Len(r) : g[n] = F[<<g[n - 1], n>>]
    BY <2>1 DEF RunsOf
  <2>3. \A n \in 1..Len(r) : g[n - 1] \in Int
    BY <1>1, <2>2
  <2>4. \A n \in 1..Len(r) : g[n] = g[n - 1] + r[n].cents
    BY <1>3, <2>2, <2>3
  <2>5. \A n \in 0..Len(r) : g[n] = IF n = 0 THEN 0 ELSE g[n - 1] + r[n].cents
    BY <1>1, <2>2, <2>4
  <2> QED  BY <2>2, <2>5
<1>5. f = Def(f)
  <2> HIDE DEF Def
  <2> QED  BY <1>4
<1>6. Moves(r) = f[Len(r)]
  BY DEF Moves
<1> HIDE DEF f
<1>7. f = [n \in 0..Len(r) |-> f[n]] /\ f[0] = 0 /\ \A n \in 1..Len(r) : f[n] = f[n - 1] + r[n].cents
  <2>1. \A n \in 0..Len(r) : f[n] = IF n = 0 THEN 0 ELSE f[n - 1] + r[n].cents
    BY <1>5
  <2>2. 0 \in 0..Len(r) /\ \A n \in 1..Len(r) : n \in 0..Len(r) /\ n # 0
    BY <1>1
  <2>3. f = [n \in 0..Len(r) |-> f[n]]
    BY <1>5
  <2> QED  BY <2>1, <2>2, <2>3
<1>8. f \in RunsOf(Len(r), Int, 0, F)
  <2> HIDE DEF F
  <2>1. \A n \in 1..Len(r) : f[n - 1] \in Int => f[n] = F[<<f[n - 1], n>>]
    BY <1>3, <1>7
  <2> QED  BY <1>1, <1>2, <1>7, <2>1, RunIsTyped
<1> QED  BY <1>6, <1>7, <1>8 DEF RunsOf

LEMMA MovesAppend ==
  ASSUME NEW X, \A x \in X : x.cents \in Int, NEW r \in Seq(X), NEW x \in X
  PROVE  Moves(r) \in Int /\ Moves(Append(r, x)) = Moves(r) + x.cents
<1>1. Len(r) \in Nat /\ Append(r, x) \in Seq(X) /\ Len(Append(r, x)) = Len(r) + 1
  OBVIOUS
<1>2. Append(r, x)[Len(r) + 1] = x /\ \A n \in 1..Len(r) : Append(r, x)[n] = r[n]
  OBVIOUS
<1>3. PICK g \in [0..Len(r) -> Int] :
        /\ g[0] = 0 /\ \A n \in 1..Len(r) : g[n] = g[n - 1] + r[n].cents
        /\ Moves(r) = g[Len(r)]
  BY MovesRun
<1>4. PICK h \in [0..Len(Append(r, x)) -> Int] :
        /\ h[0] = 0 /\ \A n \in 1..Len(Append(r, x)) : h[n] = h[n - 1] + Append(r, x)[n].cents
        /\ Moves(Append(r, x)) = h[Len(Append(r, x))]
  BY <1>1, MovesRun
<1>5. Len(r) \in {m \in 0..Len(r) : h[m] = g[m]}
  <2> DEFINE S == {m \in 0..Len(r) : h[m] = g[m]}
  <2>1. 0 \in S /\ S \in SUBSET Nat
    BY <1>1, <1>3, <1>4
  <2>2. ASSUME NEW n \in S, n < Len(r)  PROVE n + 1 \in S
    <3>1. n + 1 \in 1..Len(r) /\ n + 1 \in 1..Len(Append(r, x)) /\ (n + 1) - 1 = n
      BY <1>1, <2>2
    <3> QED  BY <1>2, <1>3, <1>4, <2>2, <3>1
  <2> HIDE DEF S
  <2>3. \A n \in 0..Len(r) : n \in S
    BY <1>1, <2>1, <2>2, AllUpTo
  <2>4. Len(r) \in 0..Len(r)
    BY <1>1
  <2> QED  BY <2>3, <2>4 DEF S
<1>6. h[Len(r) + 1] = h[Len(r)] + x.cents
  <2>1. Len(r) + 1 \in 1..Len(Append(r, x)) /\ (Len(r) + 1) - 1 = Len(r)
    BY <1>1
  <2> QED  BY <1>2, <1>4, <2>1
<1>7. g[Len(r)] \in Int
  BY <1>1, <1>3
<1> QED  BY <1>1, <1>3, <1>4, <1>5, <1>6, <1>7

LEMMA MovesEmpty == Moves(<<>>) = 0
<1> DEFINE X == [cents : Int]
<1>1. <<>> \in Seq(X) /\ Len(<<>>) = 0 /\ \A x \in X : x.cents \in Int
  OBVIOUS
<1> HIDE DEF X
<1> QED  BY <1>1, MovesRun

-----------------------------------------------------------------------------
(* The lines of a list that are no summary                                  *)
LEMMA KeepRun ==
  ASSUME NEW X, NEW r \in Seq(X)
  PROVE  \E g \in [0..Len(r) -> Seq(X)] :
            /\ g[0] = <<>>
            /\ \A n \in 1..Len(r) : g[n] = IF r[n].summary THEN g[n - 1] ELSE Append(g[n - 1], r[n])
            /\ WithoutSummaries(r) = g[Len(r)]
<1> DEFINE Step(v, n) == IF r[n].summary THEN v ELSE Append(v, r[n])
           Def(g) == [n \in 0..Len(r) |-> IF n = 0 THEN <<>> ELSE Step(g[n - 1], n)]
           f == CHOOSE g : g = Def(g)
           F == [p \in Seq(X) \X (1..Len(r)) |-> Step(p[1], p[2])]
<1>1. Len(r) \in Nat /\ <<>> \in Seq(X) /\ \A n \in 1..Len(r) : r[n] \in X
  OBVIOUS
<1>2. \A v \in Seq(X), n \in 1..Len(r) : Step(v, n) \in Seq(X)
  BY <1>1
<1>3. F \in StepsOf(Len(r), Seq(X)) /\ \A v \in Seq(X), n \in 1..Len(r) : F[<<v, n>>] = Step(v, n)
  <2> HIDE DEF Step
  <2> QED  BY <1>2 DEF StepsOf
<1>4. WithoutSummaries(r) = f[Len(r)]
  BY DEF WithoutSummaries
<1> HIDE DEF Step
<1>5. \E g : g = Def(g)
  <2> HIDE DEF F
  <2>1. PICK g : g \in RunsOf(Len(r), Seq(X), <<>>, F)
    BY <1>1, <1>3, RunExists
  <2>2. g \in [0..Len(r) -> Seq(X)] /\ g[0] = <<>> /\ \A n \in 1..Len(r) : g[n] = F[<<g[n - 1], n>>]
    BY <2>1 DEF RunsOf
  <2>3. \A n \in 1..Len(r) : g[n - 1] \in Seq(X)
    BY <1>1, <2>2
  <2>4. \A n \in 1..Len(r) : g[n] = Step(g[n - 1], n)
    BY <1>3, <2>2, <2>3
  <2>5. \A n \in 0..Len(r) : g[n] = IF n = 0 THEN <<>> ELSE Step(g[n - 1], n)
    BY <1>1, <2>2, <2>4
  <2> QED  BY <2>2, <2>5
<1>6. f = Def(f)
  <2> HIDE DEF Def
  <2> QED  BY <1>5
<1> HIDE DEF f
<1>7. f = [n \in 0..Len(r) |-> f[n]] /\ f[0] = <<>> /\ \A n \in 1..Len(r) : f[n] = Step(f[n - 1], n)
  <2>1. \A n \in 0..Len(r) : f[n] = IF n = 0 THEN <<>> ELSE Step(f[n - 1], n)
    BY <1>6
  <2>2. 0 \in 0..Len(r) /\ \A n \in 1..Len(r) : n \in 0..Len(r) /\ n # 0
    BY <1>1
  <2>3. f = [n \in 0..Len(r) |-> f[n]]
    BY <1>6
  <2> QED  BY <2>1, <2>2, <2>3
<1>8. f \in RunsOf(Len(r), Seq(X), <<>>, F)
  <2> HIDE DEF F
  <2>1. \A n \in 1..Len(r) : f[n - 1] \in Seq(X) => f[n] = F[<<f[n - 1], n>>]
    BY <1>3, <1>7
  <2> QED  BY <1>1, <1>3, <1>7, <2>1, RunIsTyped
<1>9. f \in [0..Len(r) -> Seq(X)]
  BY <1>8 DEF RunsOf
<1> QED  BY <1>4, <1>7, <1>9 DEF Step

LEMMA KeepAppend ==
  ASSUME NEW X, NEW r \in Seq(X), NEW x \in X
  PROVE  /\ WithoutSummaries(r) \in Seq(X)
         /\ WithoutSummaries(Append(r, x)) =
              IF x.summary THEN WithoutSummaries(r) ELSE Append(WithoutSummaries(r), x)
<1>1. Len(r) \in Nat /\ Append(r, x) \in Seq(X) /\ Len(Append(r, x)) = Len(r) + 1
  OBVIOUS
<1>2. Append(r, x)[Len(r) + 1] = x /\ \A n \in 1..Len(r) : Append(r, x)[n] = r[n]
  OBVIOUS
<1>3. PICK g \in [0..Len(r) -> Seq(X)] :
        /\ g[0] = <<>>
        /\ \A n \in 1..Len(r) : g[n] = IF r[n].summary THEN g[n - 1] ELSE Append(g[n - 1], r[n])
        /\ WithoutSummaries(r) = g[Len(r)]
  BY KeepRun
<1> DEFINE q == Append(r, x)
<1>4. PICK h \in [0..Len(q) -> Seq(X)] :
        /\ h[0] = <<>>
        /\ \A n \in 1..Len(q) : h[n] = IF q[n].summary THEN h[n - 1] ELSE Append(h[n - 1], q[n])
        /\ WithoutSummaries(q) = h[Len(q)]
  BY <1>1, KeepRun
<1>5. Len(r) \in {m \in 0..Len(r) : h[m] = g[m]}
  <2> DEFINE S == {m \in 0..Len(r) : h[m] = g[m]}
  <2>1. 0 \in S /\ S \in SUBSET Nat
    BY <1>1, <1>3, <1>4
  <2>2. ASSUME NEW n \in S, n < Len(r)  PROVE n + 1 \in S
    <3>1. n + 1 \in 1..Len(r) /\ n + 1 \in 1..Len(q) /\ (n + 1) - 1 = n
      BY <1>1, <2>2
    <3>2. q[n + 1] = r[n + 1] /\ h[n] = g[n]
      BY <1>2, <2>2, <3>1
    <3> HIDE DEF q
    <3>3. h[n + 1] = IF q[n + 1].summary THEN h[n] ELSE Append(h[n], q[n + 1])
      BY <1>4, <3>1
    <3>4. g[n + 1] = IF r[n + 1].summary THEN g[n] ELSE Append(g[n], r[n + 1])
      BY <1>3, <3>1
    <3> QED  BY <3>1, <3>2, <3>3, <3>4
  <2> HIDE DEF S
  <2>3. \A n \in 0..Len(r) : n \in S
    BY <1>1, <2>1, <2>2, AllUpTo
  <2>4. Len(r) \in 0..Len(r)
    BY <1>1
  <2> QED  BY <2>3, <2>4 DEF S
<1>6. h[Len(r) + 1] = IF x.summary THEN h[Len(r)] ELSE Append(h[Len(r)], x)
  <2>1. Len(r) + 1 \in 1..Len(q) /\ (Len(r) + 1) - 1 = Len(r) /\ q[Len(r) + 1] = x
    BY <1>1, <1>2
  <2> HIDE DEF q
  <2> QED  BY <1>4, <2>1
<1>7. g[Len(r)] \in Seq(X) /\ Len(q) = Len(r) + 1
  BY <1>1, <1>3
<1> QED  BY <1>3, <1>4, <1>5, <1>6, <1>7

(* A list that loses nothing has no summary.                                *)
LEMMA KeepAll ==
  ASSUME NEW X, NEW r \in Seq(X)
  PROVE  /\ WithoutSummaries(r) \in Seq(X) /\ Len(WithoutSummaries(r)) <= Len(r)
         /\ Len(WithoutSummaries(r)) = Len(r) =>
              WithoutSummaries(r) = r /\ \A i \in 1..Len(r) : ~ r[i].summary
<1>1. Len(r) \in Nat /\ r = [i \in 1..Len(r) |-> r[i]] /\ \A i \in 1..Len(r) : r[i] \in X
  OBVIOUS
<1>2. PICK g \in [0..Len(r) -> Seq(X)] :
        /\ g[0] = <<>>
        /\ \A n \in 1..Len(r) : g[n] = IF r[n].summary THEN g[n - 1] ELSE Append(g[n - 1], r[n])
        /\ WithoutSummaries(r) = g[Len(r)]
  BY KeepRun
<1> DEFINE All(n) == \A i \in 1..n : ~ r[i].summary /\ g[n][i] = r[i]
           S == {n \in 0..Len(r) : Len(g[n]) <= n /\ (Len(g[n]) = n => All(n))}
<1>3. 0 \in S /\ S \in SUBSET Nat
  BY <1>1, <1>2
<1>4. ASSUME NEW n \in S, n < Len(r)  PROVE n + 1 \in S
  <2>1. n + 1 \in 1..Len(r) /\ (n + 1) - 1 = n /\ n \in 0..Len(r) /\ n + 1 \in 0..Len(r) /\ r[n + 1] \in X
    BY <1>1, <1>4
  <2>2. g[n] \in Seq(X) /\ Len(g[n]) \in Nat /\ Len(g[n]) <= n /\ (Len(g[n]) = n => All(n))
    BY <1>2, <2>1
  <2>3. g[n + 1] = IF r[n + 1].summary THEN g[n] ELSE Append(g[n], r[n + 1])
    BY <1>2, <2>1
  <2>4. CASE r[n + 1].summary
    <3>1. Len(g[n + 1]) <= n
      BY <2>2, <2>3, <2>4
    <3>2. Len(g[n + 1]) \in Nat
      BY <2>2, <2>3, <2>4
    <3> QED  BY <2>1, <3>1, <3>2
  <2>5. CASE ~ r[n + 1].summary
    <3>1. /\ Len(g[n + 1]) = Len(g[n]) + 1 /\ g[n + 1][Len(g[n]) + 1] = r[n + 1]
          /\ \A i \in 1..Len(g[n]) : g[n + 1][i] = g[n][i]
      BY <2>1, <2>2, <2>3, <2>5
    <3>2. ASSUME Len(g[n + 1]) = n + 1  PROVE All(n + 1)
      <4>1. Len(g[n]) = n /\ All(n)
        BY <2>1, <2>2, <3>1, <3>2
      <4>2. ASSUME NEW i \in 1..(n + 1)  PROVE ~ r[i].summary /\ g[n + 1][i] = r[i]
        <5>1. CASE i = n + 1
          BY <2>5, <3>1, <4>1, <5>1
        <5>2. CASE i # n + 1
          <6>1. i \in 1..n
            BY <2>1, <5>2
          <6> QED  BY <3>1, <4>1, <6>1
        <5> QED  BY <5>1, <5>2
      <4> QED  BY <4>2
    <3>3. Len(g[n + 1]) <= n + 1
      BY <2>1, <2>2, <3>1
    <3> HIDE DEF All
    <3> QED  BY <2>1, <3>2, <3>3
  <2> QED  BY <2>4, <2>5
<1>5. Len(r) \in S
  <2> HIDE DEF S
  <2>1. \A n \in 0..Len(r) : n \in S
    BY <1>1, <1>3, <1>4, AllUpTo
  <2> QED  BY <1>1, <2>1
<1>6. g[Len(r)] \in Seq(X)
  BY <1>1, <1>2
<1>7. ASSUME Len(g[Len(r)]) = Len(r)
      PROVE  g[Len(r)] = r /\ \A i \in 1..Len(r) : ~ r[i].summary
  <2>1. All(Len(r))
    BY <1>5, <1>7
  <2>2. g[Len(r)] = [i \in 1..Len(g[Len(r)]) |-> g[Len(r)][i]]
    BY <1>6
  <2>3. \A i \in 1..Len(r) : ~ r[i].summary /\ g[Len(r)][i] = r[i]
    BY <2>1
  <2>4. g[Len(r)] = r
    BY <1>1, <1>7, <2>2, <2>3
  <2> QED  BY <2>3, <2>4
<1>8. Len(g[Len(r)]) <= Len(r)
  BY <1>5
<1> QED  BY <1>2, <1>6, <1>7, <1>8

-----------------------------------------------------------------------------
(* What was printed, up to line n                                           *)
Row == [day : Int, cents : Int, says : STRING, balance : Int, summary : BOOLEAN]
RealTo(s, n) == WithoutSummaries(SubSeq(s.lines, 1, n))

LEMMA PrintedIsTyped ==
  ASSUME NEW s \in Statement
  PROVE  /\ s.lines \in Seq(Line) /\ Len(s.lines) \in Nat /\ DOMAIN s.lines = 1..Len(s.lines)
         /\ s.opening \in Int /\ s.card \in BOOLEAN /\ s.balances \in BOOLEAN /\ s.paged \in BOOLEAN
         /\ \A i \in 1..Len(s.lines) :
              /\ s.lines[i] \in Line /\ s.lines[i].day \in Int /\ s.lines[i].cents \in Int
              /\ s.lines[i].says \in STRING /\ s.lines[i].summary \in BOOLEAN
<1>1. s.lines \in Seq(Line) /\ s.opening \in Int /\ s.card \in BOOLEAN /\ s.balances \in BOOLEAN /\ s.paged \in BOOLEAN
  BY DEF Statement
<1>2. Len(s.lines) \in Nat /\ DOMAIN s.lines = 1..Len(s.lines) /\ \A i \in 1..Len(s.lines) : s.lines[i] \in Line
  BY <1>1
<1>3. \A l \in Line : l.day \in Int /\ l.cents \in Int /\ l.says \in STRING /\ l.summary \in BOOLEAN
  BY DEF Line
<1> QED  BY <1>1, <1>2, <1>3

LEMMA RealSteps ==
  ASSUME NEW s \in Statement
  PROVE  /\ RealTo(s, 0) = <<>> /\ RealTo(s, Len(s.lines)) = Real(s)
         /\ \A n \in 0..Len(s.lines) : RealTo(s, n) \in Seq(Line)
         /\ \A n \in 1..Len(s.lines) :
              RealTo(s, n) = IF s.lines[n].summary THEN RealTo(s, n - 1)
                             ELSE Append(RealTo(s, n - 1), s.lines[n])
<1>1. s.lines \in Seq(Line) /\ Len(s.lines) \in Nat
  BY PrintedIsTyped
<1>2. \A n \in 0..Len(s.lines) :
        SubSeq(s.lines, 1, n) \in Seq(Line) /\ Len(SubSeq(s.lines, 1, n)) = n
  BY <1>1
<1>3. ASSUME NEW n \in 1..Len(s.lines)
      PROVE  SubSeq(s.lines, 1, n) = Append(SubSeq(s.lines, 1, n - 1), s.lines[n])
  <2>1. n - 1 \in 0..Len(s.lines) /\ s.lines[n] \in Line
    BY <1>1
  <2> DEFINE a == SubSeq(s.lines, 1, n)
             b == SubSeq(s.lines, 1, n - 1)
  <2>2. /\ a \in Seq(Line) /\ Len(a) = n /\ \A i \in 1..n : a[i] = s.lines[i]
        /\ b \in Seq(Line) /\ Len(b) = n - 1 /\ \A i \in 1..(n - 1) : b[i] = s.lines[i]
    BY <1>1, <2>1
  <2> HIDE DEF a, b
  <2>3. Append(b, s.lines[n]) \in Seq(Line) /\ Len(Append(b, s.lines[n])) = n
    BY <2>1, <2>2
  <2>4. \A i \in 1..n : Append(b, s.lines[n])[i] = s.lines[i]
    BY <2>1, <2>2
  <2>5. a = [i \in 1..n |-> a[i]] /\ Append(b, s.lines[n]) = [i \in 1..n |-> Append(b, s.lines[n])[i]]
    BY <2>2, <2>3
  <2>6. a = Append(b, s.lines[n])
    BY <2>2, <2>4, <2>5
  <2> QED  BY <2>6 DEF a, b
<1>4. SubSeq(s.lines, 1, 0) = <<>>
  BY <1>1
<1>5. SubSeq(s.lines, 1, Len(s.lines)) = s.lines
  BY <1>1
<1>6. WithoutSummaries(<<>>) = <<>>
  <2>1. <<>> \in Seq(Line) /\ Len(<<>>) = 0
    OBVIOUS
  <2> DEFINE e == <<>>
  <2>2. e \in Seq(Line) /\ Len(e) = 0
    BY <2>1
  <2> HIDE DEF e
  <2>3. PICK g : g[0] = <<>> /\ WithoutSummaries(e) = g[Len(e)]
    BY <2>2, KeepRun
  <2> QED  BY <2>2, <2>3 DEF e
<1>7. \A n \in 0..Len(s.lines) : RealTo(s, n) \in Seq(Line)
  BY <1>2, KeepAll DEF RealTo
<1>8. ASSUME NEW n \in 1..Len(s.lines)
      PROVE  RealTo(s, n) = IF s.lines[n].summary THEN RealTo(s, n - 1)
                            ELSE Append(RealTo(s, n - 1), s.lines[n])
  <2>1. n - 1 \in 0..Len(s.lines) /\ s.lines[n] \in Line
    BY <1>1
  <2> QED  BY <1>2, <1>3, <2>1, KeepAppend DEF RealTo
<1> QED  BY <1>4, <1>5, <1>6, <1>7, <1>8 DEF RealTo, Real

LEMMA MovesOfLines ==
  ASSUME NEW r \in Seq(Line)
  PROVE  Moves(r) \in Int /\ \A l \in Line : Moves(Append(r, l)) = Moves(r) + l.cents
<1>1. \A x \in Line : x.cents \in Int
  BY DEF Line
<1>2. Moves(r) \in Int
  <2>1. PICK g \in [0..Len(r) -> Int] : Moves(r) = g[Len(r)]
    BY <1>1, MovesRun
  <2> QED  BY <2>1
<1> QED  BY <1>1, <1>2, MovesAppend

LEMMA MovesOfRows ==
  ASSUME NEW r \in Seq(Row)
  PROVE  Moves(r) \in Int /\ \A l \in Row : Moves(Append(r, l)) = Moves(r) + l.cents
<1>1. \A x \in Row : x.cents \in Int
  BY DEF Row
<1>2. Moves(r) \in Int
  <2>1. PICK g \in [0..Len(r) -> Int] : Moves(r) = g[Len(r)]
    BY <1>1, MovesRun
  <2> QED  BY <2>1
<1> QED  BY <1>1, <1>2, MovesAppend

LEMMA BalanceIsTyped ==
  ASSUME NEW s \in Statement, NEW n \in 0..Len(s.lines)
  PROVE  BalanceAfter(s, n) \in Int
<1>1. Moves(RealTo(s, n)) \in Int
  BY RealSteps, MovesOfLines
<1> QED  BY <1>1, PrintedIsTyped DEF BalanceAfter, Balance, RealTo

LEMMA ExactIsTyped ==
  ASSUME NEW s \in Statement, NEW i \in 1..Len(s.lines)
  PROVE  /\ Exact(s, i) \in Row
         /\ Exact(s, i).day = s.lines[i].day /\ Exact(s, i).cents = s.lines[i].cents
         /\ Exact(s, i).says = s.lines[i].says /\ Exact(s, i).summary = s.lines[i].summary
<1>1. BalanceAfter(s, i) \in Int
  BY BalanceIsTyped, PrintedIsTyped
<1> HIDE DEF BalanceAfter
<1>2. (IF s.balances THEN BalanceAfter(s, i) ELSE 0) \in Int
  BY <1>1
<1> QED  BY <1>2, PrintedIsTyped DEF Exact, Row

LEMMA MisreadIsTyped ==
  ASSUME NEW r \in Row, NEW slip
  PROVE  /\ Misread(r, slip) \in Row
         /\ Misread(r, slip).says = r.says /\ Misread(r, slip).summary = r.summary
         /\ slip = "undated" => Misread(r, slip).day = 0
         /\ slip = "late" => Misread(r, slip).day = r.day + 60
         /\ slip \notin {"undated", "late", "misdated"} => Misread(r, slip).day = r.day
         /\ slip = "flipped" => Misread(r, slip).cents = -r.cents
         /\ slip = "cents" => Misread(r, slip).cents = r.cents + 1
         /\ slip = "coins" => Misread(r, slip).cents = r.cents + 4
         /\ slip = "off" => Misread(r, slip).cents = r.cents + 900
         /\ slip \notin {"flipped", "cents", "coins", "off"} => Misread(r, slip).cents = r.cents
         /\ slip \in {"right", "missed", "twice"} => Misread(r, slip) = r
<1>0. r.day \in Int /\ r.cents \in Int
  BY DEF Row
<1>1. CASE slip = "flipped"
  BY <1>0, <1>1 DEF Misread, Row
<1>2. CASE slip = "cents"
  BY <1>0, <1>2 DEF Misread, Row
<1>3. CASE slip = "coins"
  BY <1>0, <1>3 DEF Misread, Row
<1>4. CASE slip = "off"
  BY <1>0, <1>4 DEF Misread, Row
<1>5. CASE slip = "undated"
  BY <1>0, <1>5 DEF Misread, Row
<1>6. CASE slip = "late"
  BY <1>0, <1>6 DEF Misread, Row
<1>7. CASE slip = "misdated"
  <2>1. (IF r.day = 28 THEN 1 ELSE r.day + 1) \in Int
    BY <1>0
  <2> QED  BY <1>7, <2>1 DEF Misread, Row
<1>8. CASE slip \notin {"flipped", "cents", "coins", "off", "undated", "late", "misdated"}
  <2>1. Misread(r, slip) = r
    BY <1>8 DEF Misread
  <2> QED  BY <1>8, <2>1
<1> QED  BY <1>1, <1>2, <1>3, <1>4, <1>5, <1>6, <1>7, <1>8

-----------------------------------------------------------------------------
(* A reading, line by line                                                  *)
As(s, n, slip) == Misread(Exact(s, n), slip)

LEMMA AsIsTyped ==
  ASSUME NEW s \in Statement, NEW n \in 1..Len(s.lines), NEW slip
  PROVE  As(s, n, slip) \in Row
BY ExactIsTyped, MisreadIsTyped DEF As

LEMMA ReadLineIs ==
  ASSUME NEW s, NEW v, NEW n, NEW slip
  PROVE  /\ slip = "missed" => ReadLine(s, v, n, slip) = v
         /\ slip = "twice" => ReadLine(s, v, n, slip) = Deduped(s, Deduped(s, v, As(s, n, slip)), As(s, n, slip))
         /\ slip \notin {"missed", "twice"} => ReadLine(s, v, n, slip) = Deduped(s, v, As(s, n, slip))
<1> HIDE DEF Misread, Exact, Deduped
<1>1. CASE slip = "missed"
  BY <1>1 DEF ReadLine
<1>2. CASE slip = "twice"
  BY <1>2 DEF ReadLine, As
<1>3. CASE slip \notin {"missed", "twice"}
  BY <1>3 DEF ReadLine, As
<1> QED  BY <1>1, <1>2, <1>3

LEMMA DedupedGrows ==
  ASSUME NEW s, NEW v \in Seq(Row), NEW r \in Row
  PROVE  /\ Deduped(s, v, r) \in Seq(Row)
         /\ Len(v) <= Len(Deduped(s, v, r)) /\ \A j \in 1..Len(v) : Deduped(s, v, r)[j] = v[j]
<1>1. Append(v, r) \in Seq(Row) /\ Len(v) \in Nat /\ Len(Append(v, r)) = Len(v) + 1
  OBVIOUS
<1>2. \A j \in 1..Len(v) : Append(v, r)[j] = v[j]
  OBVIOUS
<1>3. Deduped(s, v, r) = v \/ Deduped(s, v, r) = Append(v, r)
  BY DEF Deduped
<1> QED  BY <1>1, <1>2, <1>3

LEMMA ReadLineGrows ==
  ASSUME NEW s \in Statement, NEW v \in Seq(Row), NEW n \in 1..Len(s.lines), NEW slip
  PROVE  /\ ReadLine(s, v, n, slip) \in Seq(Row)
         /\ Len(v) <= Len(ReadLine(s, v, n, slip))
         /\ \A j \in 1..Len(v) : ReadLine(s, v, n, slip)[j] = v[j]
<1> DEFINE r == As(s, n, slip)
           w == Deduped(s, v, r)
<1>1. r \in Row
  BY AsIsTyped
<1> HIDE DEF r
<1>2. w \in Seq(Row) /\ Len(v) <= Len(w) /\ \A j \in 1..Len(v) : w[j] = v[j]
  BY <1>1, DedupedGrows
<1> HIDE DEF w
<1>3. /\ Deduped(s, w, r) \in Seq(Row) /\ Len(w) <= Len(Deduped(s, w, r))
      /\ \A j \in 1..Len(w) : Deduped(s, w, r)[j] = w[j]
  BY <1>1, <1>2, DedupedGrows
<1>4. Len(v) \in Nat /\ Len(w) \in Nat /\ Len(Deduped(s, w, r)) \in Nat
  BY <1>2, <1>3
<1>5. Len(v) <= Len(Deduped(s, w, r)) /\ \A j \in 1..Len(v) : Deduped(s, w, r)[j] = v[j]
  BY <1>2, <1>3, <1>4
<1>6. ReadLine(s, v, n, slip) \in {v, w, Deduped(s, w, r)}
  BY ReadLineIs DEF w, r
<1> QED  BY <1>2, <1>3, <1>4, <1>5, <1>6

ReadsBy(g, s, f) ==
  /\ g \in [0..Len(s.lines) -> Seq(Row)] /\ g[0] = <<>>
  /\ \A n \in 1..Len(s.lines) : g[n] = ReadLine(s, g[n - 1], n, f[n])
  /\ RowsRead(s, f) = g[Len(s.lines)]

LEMMA ReadRun ==
  ASSUME NEW s \in Statement, NEW f
  PROVE  \E g : ReadsBy(g, s, f)
<1> DEFINE N == Len(s.lines)
           Def(g) == [n \in 0..N |-> IF n = 0 THEN <<>> ELSE ReadLine(s, g[n - 1], n, f[n])]
           h == CHOOSE g : g = Def(g)
           F == [p \in Seq(Row) \X (1..N) |-> ReadLine(s, p[1], p[2], f[p[2]])]
<1>1. N \in Nat /\ <<>> \in Seq(Row)
  BY PrintedIsTyped
<1>2. RowsRead(s, f) = h[N]
  BY DEF RowsRead
<1> HIDE DEF N, h
<1>3. /\ F \in StepsOf(N, Seq(Row))
      /\ \A v \in Seq(Row), n \in 1..N : F[<<v, n>>] = ReadLine(s, v, n, f[n])
  BY ReadLineGrows DEF StepsOf, N
<1>4. \E g : g = Def(g)
  <2> HIDE DEF F
  <2>1. PICK g : g \in RunsOf(N, Seq(Row), <<>>, F)
    BY <1>1, <1>3, RunExists
  <2>2. g \in [0..N -> Seq(Row)] /\ g[0] = <<>> /\ \A n \in 1..N : g[n] = F[<<g[n - 1], n>>]
    BY <2>1 DEF RunsOf
  <2>3. \A n \in 1..N : g[n - 1] \in Seq(Row)
    BY <1>1, <2>2
  <2>4. \A n \in 1..N : g[n] = ReadLine(s, g[n - 1], n, f[n])
    BY <1>3, <2>2, <2>3
  <2>5. \A n \in 0..N : g[n] = IF n = 0 THEN <<>> ELSE ReadLine(s, g[n - 1], n, f[n])
    BY <1>1, <2>2, <2>4
  <2> QED  BY <2>2, <2>5
<1>5. h = Def(h)
  <2> HIDE DEF Def
  <2> QED  BY <1>4 DEF h
<1>6. h = [n \in 0..N |-> h[n]] /\ h[0] = <<>> /\ \A n \in 1..N : h[n] = ReadLine(s, h[n - 1], n, f[n])
  <2>1. \A n \in 0..N : h[n] = IF n = 0 THEN <<>> ELSE ReadLine(s, h[n - 1], n, f[n])
    BY <1>5
  <2>2. 0 \in 0..N /\ \A n \in 1..N : n \in 0..N /\ n # 0
    BY <1>1
  <2>3. h = [n \in 0..N |-> h[n]]
    BY <1>5
  <2> QED  BY <2>1, <2>2, <2>3
<1>7. h \in RunsOf(N, Seq(Row), <<>>, F)
  <2> HIDE DEF F
  <2>1. \A n \in 1..N : h[n - 1] \in Seq(Row) => h[n] = F[<<h[n - 1], n>>]
    BY <1>3, <1>6
  <2> QED  BY <1>1, <1>3, <1>6, <2>1, RunIsTyped
<1>8. h \in [0..N -> Seq(Row)]
  BY <1>7 DEF RunsOf
<1>9. ReadsBy(h, s, f)
  BY <1>2, <1>6, <1>8 DEF ReadsBy, N
<1> QED  BY <1>9

(* A row that was read stays.                                               *)
LEMMA RowsStay ==
  ASSUME NEW s \in Statement, NEW f, NEW g, ReadsBy(g, s, f), NEW n \in 0..Len(s.lines)
  PROVE  \A m \in n..Len(s.lines) :
            Len(g[n]) <= Len(g[m]) /\ \A j \in 1..Len(g[n]) : g[m][j] = g[n][j]
<1> DEFINE N == Len(s.lines)
           Stays(m) == Len(g[n]) <= Len(g[m]) /\ \A j \in 1..Len(g[n]) : g[m][j] = g[n][j]
           S == {m \in Nat : m \in n..N => Stays(m)}
<1>1. N \in Nat /\ n \in Nat /\ \A m \in 0..N : g[m] \in Seq(Row) /\ Len(g[m]) \in Nat
  BY PrintedIsTyped DEF ReadsBy
<1>2. 0 \in S
  BY <1>1
<1>3. ASSUME NEW m \in S, m < N  PROVE m + 1 \in S
  <2>1. CASE m + 1 <= n
    <3>1. m + 1 \in n..N => m + 1 = n
      BY <1>1, <1>3, <2>1
    <3>2. Stays(n)
      BY <1>1
    <3> HIDE DEF Stays
    <3> QED  BY <3>1, <3>2
  <2>2. CASE n <= m
    <3>1. m \in n..N /\ m + 1 \in 1..N /\ (m + 1) - 1 = m /\ m \in 0..N /\ m + 1 \in 0..N
      BY <1>1, <1>3, <2>2
    <3>2. Stays(m)
      BY <1>3, <3>1
    <3>3. g[m + 1] = ReadLine(s, g[m], m + 1, f[m + 1])
      BY <3>1 DEF ReadsBy
    <3>4. Len(g[m]) <= Len(g[m + 1]) /\ \A j \in 1..Len(g[m]) : g[m + 1][j] = g[m][j]
      BY <1>1, <3>1, <3>3, ReadLineGrows
    <3>5. Stays(m + 1)
      BY <1>1, <3>1, <3>2, <3>4
    <3> HIDE DEF Stays
    <3> QED  BY <3>1, <3>5
  <2> QED  BY <1>1, <1>3, <2>1, <2>2
<1>4. S \in SUBSET Nat
  OBVIOUS
<1> HIDE DEF S
<1>5. \A m \in 0..N : m \in S
  BY <1>1, <1>2, <1>3, <1>4, AllUpTo
<1>6. \A m \in n..N : m \in 0..N /\ m \in Nat
  BY <1>1
<1> QED  BY <1>5, <1>6 DEF S

-----------------------------------------------------------------------------
(* A reading whose rows are told apart                                      *)
Told(s, f) ==
  s.paged =>
    \A i, j \in 1..Len(s.lines) :
      i # j /\ f[i] # "missed" /\ f[j] # "missed" => ~ Same(As(s, i, f[i]), As(s, j, f[j]))

Adds(s, f, v, w, n) ==
  LET r == As(s, n, f[n])
  IN /\ f[n] = "missed" => w = v
     /\ f[n] = "twice" => w = IF s.paged THEN Append(v, r) ELSE Append(Append(v, r), r)
     /\ f[n] \notin {"missed", "twice"} => w = Append(v, r)
Traced(s, f, v, n) ==
  \A j \in 1..Len(v) : \E i \in 1..n : f[i] # "missed" /\ v[j] = As(s, i, f[i])

LEMMA LineAdds ==
  ASSUME NEW s \in Statement, NEW f, Told(s, f),
         NEW n \in 1..Len(s.lines), NEW v \in Seq(Row), Traced(s, f, v, n - 1)
  PROVE  Adds(s, f, v, ReadLine(s, v, n, f[n]), n)
<1> DEFINE r == As(s, n, f[n])
<1>1. r \in Row
  BY AsIsTyped
<1>2. Append(v, r) \in Seq(Row) /\ DOMAIN Append(v, r) = 1..(Len(v) + 1) /\ DOMAIN v = 1..Len(v)
      /\ Append(v, r)[Len(v) + 1] = r /\ Len(v) \in Nat
  BY <1>1
<1> HIDE DEF r
<1>3. ASSUME s.paged, f[n] # "missed", NEW j \in DOMAIN v  PROVE ~ Same(v[j], r)
  <2>1. PICK i \in 1..(n - 1) : f[i] # "missed" /\ v[j] = As(s, i, f[i])
    BY <1>2, <1>3 DEF Traced
  <2>2. i \in 1..Len(s.lines) /\ i # n
    BY PrintedIsTyped
  <2> QED  BY <1>3, <2>1, <2>2 DEF Told, r
<1>4. f[n] # "missed" => Deduped(s, v, r) = Append(v, r)
  BY <1>3 DEF Deduped, Seen
<1>5. Deduped(s, Append(v, r), r) = IF s.paged THEN Append(v, r) ELSE Append(Append(v, r), r)
  <2>1. Len(v) + 1 \in DOMAIN Append(v, r) /\ Same(r, r)
    BY <1>2 DEF Same
  <2>2. Seen(Append(v, r), r)
    BY <1>2, <2>1 DEF Seen
  <2> QED  BY <2>2 DEF Deduped
<1> DEFINE w == ReadLine(s, v, n, f[n])
<1>6. /\ f[n] = "missed" => w = v
      /\ f[n] = "twice" => w = IF s.paged THEN Append(v, r) ELSE Append(Append(v, r), r)
      /\ f[n] \notin {"missed", "twice"} => w = Append(v, r)
  <2>1. /\ f[n] = "missed" => w = v
        /\ f[n] = "twice" => w = Deduped(s, Deduped(s, v, r), r)
        /\ f[n] \notin {"missed", "twice"} => w = Deduped(s, v, r)
    BY ReadLineIs DEF r
  <2> HIDE DEF w
  <2> QED  BY <1>4, <1>5, <2>1
<1> HIDE DEF w
<1>7. Adds(s, f, v, w, n)
  BY <1>6 DEF Adds, r
<1> QED  BY <1>7 DEF w

LEMMA TraceGoesOn ==
  ASSUME NEW s \in Statement, NEW f,
         NEW n \in 1..Len(s.lines), NEW v \in Seq(Row), NEW w, Traced(s, f, v, n - 1), Adds(s, f, v, w, n)
  PROVE  Traced(s, f, w, n)
<1> DEFINE r == As(s, n, f[n])
           a == Append(v, r)
           b == Append(a, r)
<1>1. r \in Row
  BY AsIsTyped
<1> HIDE DEF r
<1>2. a \in Seq(Row) /\ Len(v) \in Nat /\ Len(a) = Len(v) + 1
      /\ \A j \in 1..Len(a) : a[j] = r \/ (j \in 1..Len(v) /\ a[j] = v[j])
  BY <1>1
<1>3. Len(b) = Len(a) + 1 /\ \A j \in 1..Len(b) : b[j] = r \/ (j \in 1..Len(a) /\ b[j] = a[j])
  BY <1>1, <1>2
<1>4. Traced(s, f, v, n)
  <2>1. \A i \in 1..(n - 1) : i \in 1..n
    BY PrintedIsTyped
  <2> QED  BY <2>1 DEF Traced
<1>5. n \in 1..n
  BY PrintedIsTyped
<1> HIDE DEF a, b
<1>6. CASE f[n] = "missed"
  BY <1>4, <1>6 DEF Adds
<1>7. CASE f[n] # "missed"
  <2>1. r = As(s, n, f[n])
    BY DEF r
  <2>2. Traced(s, f, a, n)
    BY <1>2, <1>4, <1>5, <1>7, <2>1 DEF Traced
  <2>3. Traced(s, f, b, n)
    BY <1>3, <1>5, <1>7, <2>1, <2>2 DEF Traced
  <2>4. w \in {a, b}
    BY <1>7 DEF Adds, a, b, r
  <2> QED  BY <2>2, <2>3, <2>4
<1> QED  BY <1>6, <1>7

LEMMA EachLineAdds ==
  ASSUME NEW s \in Statement, NEW f, NEW g, ReadsBy(g, s, f), Told(s, f)
  PROVE  \A n \in 1..Len(s.lines) : Adds(s, f, g[n - 1], g[n], n)
<1> DEFINE N == Len(s.lines)
           S == {n \in 0..N : Traced(s, f, g[n], n)}
<1>1. N \in Nat
  BY PrintedIsTyped
<1>2. 0 \in S /\ S \in SUBSET Nat
  BY <1>1 DEF Traced, ReadsBy
<1>3. ASSUME NEW n \in 1..N, n - 1 \in S  PROVE n \in S /\ Adds(s, f, g[n - 1], g[n], n)
  <2>1. g[n - 1] \in Seq(Row) /\ g[n] = ReadLine(s, g[n - 1], n, f[n]) /\ Traced(s, f, g[n - 1], n - 1)
    BY <1>1, <1>3 DEF ReadsBy
  <2>2. Adds(s, f, g[n - 1], g[n], n)
    BY <2>1, LineAdds
  <2>3. Traced(s, f, g[n], n)
    BY <2>1, <2>2, TraceGoesOn
  <2> QED  BY <1>1, <2>2, <2>3
<1> HIDE DEF S
<1>4. ASSUME NEW n \in S, n < N  PROVE n + 1 \in S
  <2>1. n + 1 \in 1..N /\ (n + 1) - 1 = n
    BY <1>1, <1>2, <1>4
  <2> QED  BY <1>3, <2>1
<1>5. \A n \in 0..N : n \in S
  BY <1>1, <1>2, <1>4, AllUpTo
<1>6. \A n \in 1..N : n - 1 \in 0..N
  BY <1>1
<1> QED  BY <1>3, <1>5, <1>6

-----------------------------------------------------------------------------
(* A reading of at most one slip, at line k; one that is told apart         *)
OneSlip(s, f, k) == \A n \in 1..Len(s.lines) : n # k => f[n] = "right"

(* A row read right is the line's; a wrong day of the period leaves the     *)
(* money alone, and one outside it shows.                                   *)
LEMMA RightIsExact ==
  ASSUME NEW s \in Statement, NEW n \in 1..Len(s.lines), NEW slip
  PROVE  /\ As(s, n, slip).says = s.lines[n].says /\ As(s, n, slip).summary = s.lines[n].summary
         /\ slip \in {"right", "misdated"} => As(s, n, slip).cents = s.lines[n].cents
         /\ slip \notin {"undated", "late", "misdated"} => As(s, n, slip).day = s.lines[n].day
         /\ slip \in {"undated", "late"} /\ s.lines[n].day \in Period => As(s, n, slip).day \notin Period
<1> DEFINE e == Exact(s, n)
           r == Misread(e, slip)
           l == s.lines[n]
<1>1. e \in Row /\ e.day = l.day /\ e.cents = l.cents /\ e.says = l.says /\ e.summary = l.summary
  BY ExactIsTyped
<1> HIDE DEF e, l
<1>2. r.says = l.says /\ r.summary = l.summary
  BY <1>1, MisreadIsTyped
<1>3. slip \in {"right", "misdated"} => r.cents = l.cents
  BY <1>1, MisreadIsTyped
<1>4. slip \notin {"undated", "late", "misdated"} => r.day = l.day
  BY <1>1, MisreadIsTyped
<1>5. slip \in {"undated", "late"} => r.day = 0 \/ r.day = l.day + 60
  BY <1>1, MisreadIsTyped
<1>6. 0 \notin Period /\ \A d \in Period : d + 60 \notin Period
  BY DEF Period
<1> HIDE DEF r
<1>7. slip \in {"undated", "late"} /\ l.day \in Period => r.day \notin Period
  BY <1>5, <1>6
<1> QED  BY <1>2, <1>3, <1>4, <1>7 DEF As, e, r, l

LEMMA RightLinesDiffer ==
  ASSUME NEW s \in Statement, Distinct(s), s.paged,
         NEW i \in 1..Len(s.lines), NEW j \in 1..Len(s.lines), i # j
  PROVE  ~ Same(As(s, i, "right"), As(s, j, "right"))
<1>1. s.lines[i].day # s.lines[j].day \/ s.lines[i].says # s.lines[j].says
  BY PrintedIsTyped DEF Distinct
<1>2. /\ As(s, i, "right").says = s.lines[i].says /\ As(s, i, "right").day = s.lines[i].day
      /\ As(s, j, "right").says = s.lines[j].says /\ As(s, j, "right").day = s.lines[j].day
  BY RightIsExact
<1> QED  BY <1>1, <1>2 DEF Same

LEMMA OneSlipIsTold ==
  ASSUME NEW s \in Statement, NEW f, NEW k, Distinct(s), OneSlip(s, f, k),
         k \in 1..Len(s.lines) => /\ \A i \in 1..Len(s.lines) : s.lines[i].day \in Period
                                  /\ f[k] # "misdated"
  PROVE  Told(s, f)
<1> DEFINE N == Len(s.lines)
           r(i) == As(s, i, f[i])
<1>1. SUFFICES ASSUME s.paged, NEW i \in 1..N, NEW j \in 1..N, i # j, Same(r(i), r(j))  PROVE FALSE
  BY DEF Told
<1>2. r(i).day = r(j).day /\ r(i).says = r(j).says
  BY <1>1 DEF Same
<1>3. s.lines[i].says = s.lines[j].says
  <2>1. r(i).says = s.lines[i].says /\ r(j).says = s.lines[j].says
    BY RightIsExact
  <2> HIDE DEF r
  <2> QED  BY <1>2, <2>1
<1>4. s.lines[i].day # s.lines[j].day
  BY <1>1, <1>3, PrintedIsTyped DEF Distinct
<1>5. ASSUME NEW m \in 1..N
      PROVE  r(m).day = s.lines[m].day \/ (m = k /\ r(m).day \notin Period)
  <2>1. CASE m # k
    <3>1. f[m] = "right"
      BY <2>1 DEF OneSlip
    <3> QED  BY <3>1, RightIsExact
  <2>2. CASE m = k
    <3>1. f[m] # "misdated" /\ s.lines[m].day \in Period
      BY <2>2
    <3> QED  BY <2>2, <3>1, RightIsExact
  <2> QED  BY <2>1, <2>2
<1>6. k \in 1..N => s.lines[i].day \in Period /\ s.lines[j].day \in Period
  OBVIOUS
<1> HIDE DEF r
<1> QED  BY <1>1, <1>2, <1>4, <1>5, <1>6

-----------------------------------------------------------------------------
(* What at most one slip does to the rows, their number and their sum       *)
LEMMA MovesOfNone == WithoutSummaries(<<>>) = <<>> /\ Moves(<<>>) = 0
<1>1. <<>> \in Seq(Line) /\ Len(<<>>) = 0
  OBVIOUS
<1> QED  BY <1>1, KeepRun, MovesEmpty

(* No slip: the rows that are no summary are as many as the real lines, and *)
(* add up to the same.                                                      *)
LEMMA FlawlessAddsUp ==
  ASSUME NEW s \in Statement, NEW f, Distinct(s), \A n \in 1..Len(s.lines) : f[n] = "right"
  PROVE  /\ RowsRead(s, f) \in Seq(Row)
         /\ Len(WithoutSummaries(RowsRead(s, f))) = Len(Real(s))
         /\ Moves(WithoutSummaries(RowsRead(s, f))) = Moves(Real(s))
<1> DEFINE N == Len(s.lines)
<1>1. N \in Nat
  BY PrintedIsTyped
<1>2. PICK g : ReadsBy(g, s, f)
  BY ReadRun
<1> DEFINE Same2(a, b) == Len(WithoutSummaries(a)) = Len(b) /\ Moves(WithoutSummaries(a)) = Moves(b)
           S == {n \in 0..N : Same2(g[n], RealTo(s, n))}
<1>3. Told(s, f)
  <2>1. OneSlip(s, f, 0) /\ 0 \notin 1..N
    BY <1>1 DEF OneSlip
  <2> QED  BY <2>1, OneSlipIsTold
<1>4. \A n \in 1..N : Adds(s, f, g[n - 1], g[n], n)
  BY <1>2, <1>3, EachLineAdds
<1>5. \A n \in 0..N : g[n] \in Seq(Row)
  BY <1>2 DEF ReadsBy
<1>6. 0 \in S /\ S \in SUBSET Nat
  <2>1. g[0] = <<>> /\ RealTo(s, 0) = <<>>
    BY <1>2, RealSteps DEF ReadsBy
  <2> QED  BY <1>1, <2>1, MovesOfNone
<1>7. ASSUME NEW n \in 1..N, Same2(g[n - 1], RealTo(s, n - 1))  PROVE Same2(g[n], RealTo(s, n))
  <2> DEFINE r == As(s, n, "right")
             l == s.lines[n]
             a == WithoutSummaries(g[n - 1])
             b == RealTo(s, n - 1)
  <2>1. n - 1 \in 0..N /\ g[n - 1] \in Seq(Row) /\ l \in Line /\ b \in Seq(Line)
    BY <1>1, <1>5, PrintedIsTyped, RealSteps
  <2>2. r \in Row /\ r.cents = l.cents /\ r.summary = l.summary
    BY AsIsTyped, RightIsExact
  <2>3. g[n] = Append(g[n - 1], r)
    BY <1>4 DEF Adds
  <2>4. RealTo(s, n) = IF l.summary THEN b ELSE Append(b, l)
    BY RealSteps
  <2>5. a \in Seq(Row) /\ WithoutSummaries(g[n]) = IF r.summary THEN a ELSE Append(a, r)
    <3> HIDE DEF r
    <3> QED  BY <2>1, <2>2, <2>3, KeepAppend
  <2>6. Len(a) = Len(b) /\ Moves(a) = Moves(b)
    BY <1>7
  <2> HIDE DEF r, l, a, b
  <2>7. CASE l.summary
    BY <2>2, <2>4, <2>5, <2>6, <2>7
  <2>8. CASE ~ l.summary
    <3>1. WithoutSummaries(g[n]) = Append(a, r) /\ RealTo(s, n) = Append(b, l)
      BY <2>2, <2>4, <2>5, <2>8
    <3>2. Len(Append(a, r)) = Len(a) + 1 /\ Len(Append(b, l)) = Len(b) + 1
      BY <2>1, <2>2, <2>5
    <3>3. Moves(Append(a, r)) = Moves(a) + r.cents /\ Moves(Append(b, l)) = Moves(b) + l.cents
      BY <2>1, <2>2, <2>5, MovesOfRows, MovesOfLines
    <3> QED  BY <2>2, <2>6, <3>1, <3>2, <3>3
  <2> QED  BY <2>7, <2>8
<1> HIDE DEF Same2
<1>8. ASSUME NEW n \in S, n < N  PROVE n + 1 \in S
  <2>1. n + 1 \in 1..N /\ (n + 1) - 1 = n /\ n + 1 \in 0..N /\ Same2(g[n], RealTo(s, n))
    BY <1>1, <1>8
  <2>2. Same2(g[n + 1], RealTo(s, n + 1))
    BY <1>7, <2>1
  <2> QED  BY <2>1, <2>2
<1> HIDE DEF S
<1>9. \A n \in 0..N : n \in S
  BY <1>1, <1>6, <1>8, AllUpTo
<1>10. Same2(g[N], RealTo(s, N))
  BY <1>1, <1>9 DEF S
<1>11. g[N] = RowsRead(s, f) /\ RealTo(s, N) = Real(s) /\ g[N] \in Seq(Row)
  <2>1. RowsRead(s, f) = g[N] /\ N \in 0..N
    BY <1>1, <1>2 DEF ReadsBy
  <2> QED  BY <1>5, <2>1, RealSteps
<1> QED  BY <1>10, <1>11 DEF Same2

(* What was read is among the rows.                                         *)
LEMMA ReadIsThere ==
  ASSUME NEW s \in Statement, NEW f, NEW g, ReadsBy(g, s, f), Told(s, f),
         NEW n \in 1..Len(s.lines), f[n] # "missed"
  PROVE  /\ \E j \in 1..Len(RowsRead(s, f)) : RowsRead(s, f)[j] = As(s, n, f[n])
         /\ f[n] = "twice" /\ ~ s.paged =>
              \E i, j \in 1..Len(RowsRead(s, f)) : i < j /\ RowsRead(s, f)[i] = RowsRead(s, f)[j]
<1> DEFINE N == Len(s.lines)
           r == As(s, n, f[n])
           v == g[n - 1]
           a == Append(v, r)
           b == Append(a, r)
<1>1. N \in Nat /\ n \in 0..N /\ n - 1 \in 0..N /\ N \in n..N
  BY PrintedIsTyped
<1>2. v \in Seq(Row) /\ g[n] \in Seq(Row) /\ g[N] \in Seq(Row) /\ g[N] = RowsRead(s, f)
  <2>1. g \in [0..N -> Seq(Row)] /\ RowsRead(s, f) = g[N]
    BY DEF ReadsBy
  <2>2. N \in 0..N
    BY <1>1
  <2> QED  BY <1>1, <2>1, <2>2
<1>3. r \in Row
  BY AsIsTyped
<1>4. /\ f[n] = "twice" => g[n] = IF s.paged THEN a ELSE b
      /\ f[n] # "twice" => g[n] = a
  BY EachLineAdds DEF Adds
<1>5. Len(g[n]) <= Len(g[N]) /\ \A j \in 1..Len(g[n]) : g[N][j] = g[n][j]
  BY <1>1, RowsStay
<1> HIDE DEF r, v
<1>6. /\ Len(v) \in Nat /\ a \in Seq(Row) /\ Len(a) = Len(v) + 1 /\ a[Len(v) + 1] = r
      /\ Len(b) = Len(v) + 2 /\ b[Len(v) + 1] = r /\ b[Len(v) + 2] = r
  BY <1>2, <1>3
<1> HIDE DEF a, b
<1>7. Len(g[n]) \in Nat /\ Len(g[N]) \in Nat
  BY <1>2
<1>8. Len(v) + 1 \in 1..Len(g[n]) /\ g[n][Len(v) + 1] = r
  BY <1>4, <1>6
<1>9. Len(v) + 1 \in 1..Len(g[N]) /\ g[N][Len(v) + 1] = r
  BY <1>5, <1>6, <1>7, <1>8
<1>10. ASSUME f[n] = "twice", ~ s.paged
       PROVE  Len(v) + 2 \in 1..Len(g[N]) /\ g[N][Len(v) + 2] = r /\ Len(v) + 1 < Len(v) + 2
  <2>1. Len(v) + 2 \in 1..Len(g[n]) /\ g[n][Len(v) + 2] = r
    BY <1>4, <1>6, <1>10
  <2> QED  BY <1>5, <1>6, <1>7, <2>1
<1> QED  BY <1>2, <1>9, <1>10 DEF r

Plainly(s, f) == \A n \in 1..Len(s.lines) : f[n] = "twice" => s.paged
(* What line n adds to the rows and what to the truth                       *)
RowCents(s, f, n) == IF f[n] = "missed" THEN 0 ELSE As(s, n, f[n]).cents
TrueCents(s, n) == IF s.lines[n].summary THEN 0 ELSE s.lines[n].cents

LEMMA LineAddsCents ==
  ASSUME NEW s \in Statement, NEW f, NEW g, ReadsBy(g, s, f), Told(s, f), Plainly(s, f),
         NEW n \in 1..Len(s.lines)
  PROVE  /\ g[n] = IF f[n] = "missed" THEN g[n - 1] ELSE Append(g[n - 1], As(s, n, f[n]))
         /\ g[n - 1] \in Seq(Row) /\ g[n] \in Seq(Row)
         /\ Moves(g[n - 1]) \in Int /\ Moves(g[n]) = Moves(g[n - 1]) + RowCents(s, f, n)
         /\ Moves(RealTo(s, n - 1)) \in Int
         /\ Moves(RealTo(s, n)) = Moves(RealTo(s, n - 1)) + TrueCents(s, n)
         /\ RowCents(s, f, n) \in Int /\ TrueCents(s, n) \in Int
<1> DEFINE N == Len(s.lines)
           r == As(s, n, f[n])
           v == g[n - 1]
           w == g[n]
           b == RealTo(s, n - 1)
           l == s.lines[n]
<1>1. N \in Nat /\ n \in 0..N /\ n - 1 \in 0..N /\ l \in Line /\ l.cents \in Int
  BY PrintedIsTyped
<1>2. v \in Seq(Row) /\ w \in Seq(Row)
  <2>1. g \in [0..N -> Seq(Row)]
    BY DEF ReadsBy
  <2> QED  BY <1>1, <2>1
<1>3. r \in Row /\ r.cents \in Int
  <2>1. r \in Row
    BY AsIsTyped
  <2> HIDE DEF r
  <2> QED  BY <2>1 DEF Row
<1>4. w = IF f[n] = "missed" THEN v ELSE Append(v, r)
  <2>1. f[n] = "twice" => s.paged
    BY DEF Plainly
  <2>2. Adds(s, f, v, w, n)
    BY EachLineAdds
  <2> HIDE DEF v, w
  <2> QED  BY <2>1, <2>2 DEF Adds
<1>5. b \in Seq(Line) /\ RealTo(s, n) = IF l.summary THEN b ELSE Append(b, l)
  BY <1>1, RealSteps
<1> HIDE DEF v, w, b
<1>6. Moves(v) \in Int /\ Moves(w) = Moves(v) + RowCents(s, f, n) /\ RowCents(s, f, n) \in Int
  <2> HIDE DEF r
  <2>1. Moves(v) \in Int /\ Moves(Append(v, r)) = Moves(v) + r.cents
    BY <1>2, <1>3, MovesOfRows
  <2>2. RowCents(s, f, n) = IF f[n] = "missed" THEN 0 ELSE r.cents
    BY DEF RowCents, r
  <2> QED  BY <1>3, <1>4, <2>1, <2>2
<1>7. Moves(b) \in Int /\ Moves(RealTo(s, n)) = Moves(b) + TrueCents(s, n) /\ TrueCents(s, n) \in Int
  <2>1. TrueCents(s, n) = IF l.summary THEN 0 ELSE l.cents
    BY DEF TrueCents
  <2> HIDE DEF l
  <2>2. Moves(b) \in Int /\ Moves(Append(b, l)) = Moves(b) + l.cents
    BY <1>1, <1>5, MovesOfLines
  <2> QED  BY <1>1, <1>5, <2>1, <2>2
<1> QED  BY <1>2, <1>4, <1>6, <1>7 DEF v, w, b, r

(* Line k alone may be off in number or money: the sum is off by what that  *)
(* line is off.                                                             *)
MoneySlip(s, f, k) == \A n \in 1..Len(s.lines) : n # k => f[n] \in {"right", "misdated"}

LEMMA SlipMoves ==
  ASSUME NEW s \in Statement, NEW f, NEW k, Told(s, f), MoneySlip(s, f, k), Plainly(s, f),
         \A n \in 1..Len(s.lines) : n # k => ~ s.lines[n].summary
  PROVE  /\ k \notin 1..Len(s.lines) => Moves(RowsRead(s, f)) = Moves(Real(s))
         /\ k \in 1..Len(s.lines) =>
              Moves(RowsRead(s, f)) = Moves(Real(s)) + RowCents(s, f, k) - TrueCents(s, k)
<1> DEFINE N == Len(s.lines)
           delta == RowCents(s, f, k) - TrueCents(s, k)
<1>1. N \in Nat
  BY PrintedIsTyped
<1>2. PICK g : ReadsBy(g, s, f)
  BY ReadRun
<1> DEFINE By(n) == Moves(g[n]) = Moves(RealTo(s, n)) + (IF k \in 1..n THEN delta ELSE 0)
           S == {n \in 0..N : By(n)}
<1>3. 0 \in S /\ S \in SUBSET Nat
  <2>1. g[0] = <<>> /\ RealTo(s, 0) = <<>> /\ k \notin 1..0
    BY <1>2, RealSteps DEF ReadsBy
  <2> HIDE DEF delta
  <2> QED  BY <1>1, <2>1, MovesOfNone
<1>4. ASSUME NEW n \in 1..N, By(n - 1)  PROVE By(n)
  <2>1. /\ Moves(g[n - 1]) \in Int /\ Moves(g[n]) = Moves(g[n - 1]) + RowCents(s, f, n)
        /\ Moves(RealTo(s, n - 1)) \in Int
        /\ Moves(RealTo(s, n)) = Moves(RealTo(s, n - 1)) + TrueCents(s, n)
        /\ RowCents(s, f, n) \in Int /\ TrueCents(s, n) \in Int
    BY <1>2, LineAddsCents
  <2>2. CASE n = k
    <3>1. k \notin 1..(n - 1) /\ k \in 1..n /\ delta \in Int /\ delta = RowCents(s, f, n) - TrueCents(s, n)
      BY <1>1, <2>1, <2>2
    <3> HIDE DEF delta
    <3> QED  BY <1>4, <2>1, <3>1
  <2>3. CASE n # k
    <3>1. f[n] \in {"right", "misdated"} /\ ~ s.lines[n].summary
      BY <2>3 DEF MoneySlip
    <3>2. RowCents(s, f, n) = TrueCents(s, n)
      BY <3>1, RightIsExact DEF RowCents, TrueCents
    <3>3. k \in 1..n <=> k \in 1..(n - 1)
      BY <1>1, <2>3
    <3>4. k \in 1..(n - 1) => delta \in Int
      <4>1. k \in 1..(n - 1) => k \in 1..N
        BY <1>1
      <4> QED  BY <1>2, <4>1, LineAddsCents
    <3> HIDE DEF delta
    <3> QED  BY <1>4, <2>1, <3>2, <3>3, <3>4
  <2> QED  BY <2>2, <2>3
<1> HIDE DEF By
<1>5. ASSUME NEW n \in S, n < N  PROVE n + 1 \in S
  <2>1. n + 1 \in 1..N /\ (n + 1) - 1 = n /\ n + 1 \in 0..N /\ By(n)
    BY <1>1, <1>5
  <2>2. By(n + 1)
    BY <1>4, <2>1
  <2> QED  BY <2>1, <2>2
<1> HIDE DEF S
<1>6. \A n \in 0..N : n \in S
  BY <1>1, <1>3, <1>5, AllUpTo
<1>7. By(N)
  BY <1>1, <1>6 DEF S
<1>8. g[N] = RowsRead(s, f) /\ RealTo(s, N) = Real(s)
  BY <1>2, RealSteps DEF ReadsBy
<1>9. Moves(Real(s)) \in Int
  BY <1>1, <1>8, RealSteps, MovesOfLines
<1>10. ASSUME k \in 1..N  PROVE RowCents(s, f, k) \in Int /\ TrueCents(s, k) \in Int
  BY <1>2, <1>10, LineAddsCents
<1> QED  BY <1>7, <1>8, <1>9, <1>10 DEF By

(* A slip that costs no line and little money leaves rows and truth side by *)
(* side.                                                                    *)
Near(r, l) == Magnitude(r.cents - l.cents) <= 2
Harmless(s, f, k) ==
  IF s.lines[k].summary THEN f[k] = "missed"
  ELSE f[k] # "missed" /\ Near(As(s, k, f[k]), s.lines[k])

LEMMA SlipAligned ==
  ASSUME NEW s \in Statement, NEW f, NEW k, Told(s, f), MoneySlip(s, f, k), Plainly(s, f),
         \A n \in 1..Len(s.lines) : n # k => ~ s.lines[n].summary,
         k \in 1..Len(s.lines) => Harmless(s, f, k)
  PROVE  /\ Len(RowsRead(s, f)) = Len(Real(s))
         /\ \A j \in 1..Len(Real(s)) : Near(RowsRead(s, f)[j], Real(s)[j])
<1> DEFINE N == Len(s.lines)
<1>1. N \in Nat
  BY PrintedIsTyped
<1>2. PICK g : ReadsBy(g, s, f)
  BY ReadRun
<1> DEFINE Aligned(a, b) == Len(a) = Len(b) /\ \A j \in 1..Len(b) : Near(a[j], b[j])
           S == {n \in 0..N : Aligned(g[n], RealTo(s, n))}
<1>3. 0 \in S /\ S \in SUBSET Nat
  <2>1. g[0] = <<>> /\ RealTo(s, 0) = <<>>
    BY <1>2, RealSteps DEF ReadsBy
  <2> QED  BY <1>1, <2>1
<1>4. ASSUME NEW n \in 1..N, Aligned(g[n - 1], RealTo(s, n - 1))  PROVE Aligned(g[n], RealTo(s, n))
  <2> DEFINE r == As(s, n, f[n])
             l == s.lines[n]
             a == g[n - 1]
             b == RealTo(s, n - 1)
  <2>1. /\ g[n] = IF f[n] = "missed" THEN a ELSE Append(a, r)
        /\ a \in Seq(Row)
    BY <1>2, LineAddsCents
  <2>2. b \in Seq(Line) /\ l \in Line /\ RealTo(s, n) = IF l.summary THEN b ELSE Append(b, l)
    <3>1. n - 1 \in 0..N
      BY <1>1
    <3> QED  BY <3>1, RealSteps, PrintedIsTyped
  <2>3. r \in Row
    BY AsIsTyped
  <2>4. IF l.summary THEN f[n] = "missed" ELSE f[n] # "missed" /\ Near(r, l)
    <3>1. CASE n = k
      BY <3>1 DEF Harmless
    <3>2. CASE n # k
      <4>1. f[n] \in {"right", "misdated"} /\ ~ l.summary
        BY <3>2 DEF MoneySlip
      <4>2. r.cents = l.cents /\ l.cents \in Int
        BY <4>1, RightIsExact, PrintedIsTyped
      <4>3. Near(r, l)
        <5> HIDE DEF r, l
        <5> QED  BY <4>2 DEF Near, Magnitude
      <4> QED  BY <4>1, <4>3
    <3> QED  BY <3>1, <3>2
  <2>5. Aligned(a, b)
    BY <1>4
  <2> HIDE DEF r, l, a, b
  <2>6. CASE l.summary
    BY <2>1, <2>2, <2>4, <2>5, <2>6
  <2>7. CASE ~ l.summary
    <3>1. g[n] = Append(a, r) /\ RealTo(s, n) = Append(b, l) /\ Near(r, l)
      BY <2>1, <2>2, <2>4, <2>7
    <3>2. /\ Len(a) \in Nat /\ Len(Append(a, r)) = Len(a) + 1 /\ Append(a, r)[Len(a) + 1] = r
          /\ Len(Append(b, l)) = Len(b) + 1 /\ Append(b, l)[Len(b) + 1] = l
          /\ \A j \in 1..Len(a) : Append(a, r)[j] = a[j]
          /\ \A j \in 1..Len(b) : Append(b, l)[j] = b[j]
      BY <2>1, <2>2, <2>3
    <3>3. ASSUME NEW j \in 1..(Len(b) + 1)  PROVE Near(Append(a, r)[j], Append(b, l)[j])
      <4>1. CASE j = Len(b) + 1
        BY <2>5, <3>1, <3>2, <4>1
      <4>2. CASE j # Len(b) + 1
        <5>1. j \in 1..Len(b)
          BY <2>5, <3>2, <4>2
        <5> QED  BY <2>5, <3>2, <5>1
      <4> QED  BY <4>1, <4>2
    <3> QED  BY <2>5, <3>1, <3>2, <3>3
  <2> QED  BY <2>6, <2>7
<1> HIDE DEF Aligned
<1>5. ASSUME NEW n \in S, n < N  PROVE n + 1 \in S
  <2>1. n + 1 \in 1..N /\ (n + 1) - 1 = n /\ n + 1 \in 0..N /\ Aligned(g[n], RealTo(s, n))
    BY <1>1, <1>5
  <2>2. Aligned(g[n + 1], RealTo(s, n + 1))
    BY <1>4, <2>1
  <2> QED  BY <2>1, <2>2
<1> HIDE DEF S
<1>6. \A n \in 0..N : n \in S
  BY <1>1, <1>3, <1>5, AllUpTo
<1>7. Aligned(g[N], RealTo(s, N))
  BY <1>1, <1>6 DEF S
<1>8. g[N] = RowsRead(s, f) /\ RealTo(s, N) = Real(s)
  BY <1>2, RealSteps DEF ReadsBy
<1> QED  BY <1>7, <1>8 DEF Aligned

-----------------------------------------------------------------------------
(* The validator                                                            *)
LEMMA DifferenceIs ==
  ASSUME NEW s \in Statement, NEW rows \in Seq(Row)
  PROVE  /\ Moves(rows) \in Int /\ Moves(Real(s)) \in Int /\ Difference(s, rows) \in Nat
         /\ Difference(s, rows) = Magnitude(Moves(rows) - Moves(Real(s)))
<1> DEFINE m == Moves(rows)
           t == Moves(Real(s))
<1>1. m \in Int
  BY MovesOfRows
<1>2. t \in Int
  <2>1. Len(s.lines) \in 0..Len(s.lines)
    BY PrintedIsTyped
  <2>2. Real(s) \in Seq(Line)
    BY <2>1, RealSteps
  <2> QED  BY <2>2, MovesOfLines
<1>3. s.opening \in Int
  BY PrintedIsTyped
<1>4. Balance(s, rows) = s.opening + (IF s.card THEN -m ELSE m)
      /\ Closing(s) = s.opening + (IF s.card THEN -t ELSE t)
  BY DEF Balance, Closing
<1>5. Difference(s, rows) = Magnitude(Balance(s, rows) - Closing(s))
  BY DEF Difference
<1> HIDE DEF m, t
<1>6. Difference(s, rows) = Magnitude(m - t)
  BY <1>1, <1>2, <1>3, <1>4, <1>5 DEF Magnitude
<1>7. Magnitude(m - t) \in Nat
  BY <1>1, <1>2 DEF Magnitude
<1> QED  BY <1>1, <1>2, <1>6, <1>7 DEF m, t

LEMMA HighIsUnflagged ==
  ASSUME NEW flags, NEW d, Tier(flags, d) = "HIGH"
  PROVE  flags = {} /\ d <= 2
<1>1. flags \cap {"balance_out_of_tolerance", "low_row_count"} = {}
  BY DEF Tier
<1>2. flags = {} /\ d <= 2
  BY <1>1 DEF Tier
<1> QED  BY <1>2

LEMMA Unflagged ==
  ASSUME NEW s, NEW read, Flags(s, read) = {}
  PROVE  LET rows == WithoutSummaries(read)
         IN /\ ~ (Len(rows) < Len(read))
            /\ \A i \in DOMAIN rows : rows[i].day \in Period
            /\ \A i, j \in DOMAIN rows : i < j => ~ Same(rows[i], rows[j])
<1> DEFINE rows == WithoutSummaries(read)
<1>1. "skip_phrase_dropped" \notin Flags(s, read)
  OBVIOUS
<1>2. "date_out_of_period" \notin Flags(s, read)
  OBVIOUS
<1>3. "duplicate_suspected" \notin Flags(s, read)
  OBVIOUS
<1>4. ~ (Len(rows) < Len(read))
  BY <1>1 DEF Flags
<1>5. \A i \in DOMAIN rows : rows[i].day \in Period
  BY <1>2 DEF Flags
<1>6. \A i, j \in DOMAIN rows : i < j => ~ Same(rows[i], rows[j])
  BY <1>3 DEF Flags
<1> QED  BY <1>4, <1>5, <1>6

RightEnough(s, f) ==
  /\ Len(Graded(s, f).rows) = Len(Real(s))
  /\ \A j \in 1..Len(Real(s)) :
       Near(Graded(s, f).rows[j], Real(s)[j]) /\ Graded(s, f).rows[j].day \in Period

(* What is HIGH, told apart and off at one line at most, is right.          *)
LEMMA HighIsRight ==
  ASSUME NEW s \in Statement, Legible(s), NEW f, NEW k, Told(s, f), MoneySlip(s, f, k),
         Graded(s, f).tier = "HIGH"
  PROVE  RightEnough(s, f)
<1> DEFINE N == Len(s.lines)
           read == RowsRead(s, f)
           rows == WithoutSummaries(read)
<1>1. N \in Nat /\ DOMAIN s.lines = 1..N
  BY PrintedIsTyped
<1>2. \A i \in 1..N : Magnitude(s.lines[i].cents) > 2
  BY <1>1 DEF Legible
<1>4. PICK g : ReadsBy(g, s, f)
  BY ReadRun
<1>5. read \in Seq(Row)
  <2>1. N \in 0..N /\ g \in [0..N -> Seq(Row)] /\ RowsRead(s, f) = g[N]
    BY <1>1, <1>4 DEF ReadsBy
  <2> QED  BY <2>1
<1>6. Graded(s, f).rows = rows /\ Tier(Flags(s, read), Difference(s, rows)) = "HIGH"
  BY DEF Graded
<1>7. Flags(s, read) = {} /\ Difference(s, rows) <= 2
  BY <1>6, HighIsUnflagged
<1>8. /\ ~ (Len(rows) < Len(read)) /\ \A i \in DOMAIN rows : rows[i].day \in Period
      /\ \A i, j \in DOMAIN rows : i < j => ~ Same(rows[i], rows[j])
  BY <1>7, Unflagged
<1> HIDE DEF read
<1>9. rows = read /\ \A i \in 1..Len(read) : ~ read[i].summary
  <2>1. rows \in Seq(Row) /\ Len(rows) <= Len(read)
    BY <1>5, KeepAll
  <2>2. Len(rows) = Len(read)
    BY <1>5, <1>8, <2>1
  <2> QED  BY <1>5, <2>2, KeepAll
<1>10. DOMAIN read = 1..Len(read) /\ Len(read) \in Nat
  BY <1>5
<1>11. ASSUME NEW n \in 1..N, f[n] # "missed"  PROVE ~ As(s, n, f[n]).summary
  <2>1. PICK j \in 1..Len(read) : read[j] = As(s, n, f[n])
    BY <1>4, <1>11, ReadIsThere DEF read
  <2> QED  BY <1>9, <1>10, <2>1
<1>12. ASSUME NEW n \in 1..N, f[n] # "missed"  PROVE ~ s.lines[n].summary
  <2>1. As(s, n, f[n]).summary = s.lines[n].summary
    BY RightIsExact
  <2> QED  BY <1>11, <1>12, <2>1
<1>13. \A n \in 1..N : n # k => ~ s.lines[n].summary
  BY <1>12 DEF MoneySlip
<1>14. Plainly(s, f)
  <2>1. SUFFICES ASSUME NEW n \in 1..N, f[n] = "twice", ~ s.paged  PROVE FALSE
    BY DEF Plainly
  <2>2. PICK i, j \in 1..Len(read) : i < j /\ read[i] = read[j]
    BY <1>4, <2>1, ReadIsThere DEF read
  <2>3. Same(read[i], read[j])
    BY <2>2 DEF Same
  <2> QED  BY <1>8, <1>9, <1>10, <2>2, <2>3
<1>15. Magnitude(Moves(read) - Moves(Real(s))) <= 2 /\ Moves(Real(s)) \in Int /\ Moves(read) \in Int
  BY <1>5, <1>7, <1>9, DifferenceIs
<1>16. k \in 1..N => Harmless(s, f, k)
  <2>1. SUFFICES ASSUME k \in 1..N  PROVE Harmless(s, f, k)
    OBVIOUS
  <2> DEFINE c == s.lines[k].cents
             r == As(s, k, f[k])
  <2>2. c \in Int /\ Magnitude(c) > 2
    BY <1>2, <2>1, PrintedIsTyped
  <2>4. Moves(read) = Moves(Real(s)) + RowCents(s, f, k) - TrueCents(s, k)
    BY <1>13, <1>14, <2>1, SlipMoves DEF read
  <2>5. CASE f[k] = "missed"
    <3>1. RowCents(s, f, k) = 0
      BY <2>5 DEF RowCents
    <3>2. CASE s.lines[k].summary
      BY <2>5, <3>2 DEF Harmless
    <3>3. CASE ~ s.lines[k].summary
      <4>1. TrueCents(s, k) = c
        BY <3>3 DEF TrueCents
      <4> HIDE DEF c
      <4>2. Magnitude(-c) <= 2
        BY <1>15, <2>2, <2>4, <3>1, <4>1 DEF Magnitude
      <4> QED  BY <2>2, <4>2 DEF Magnitude
    <3> QED  BY <3>2, <3>3
  <2>6. CASE f[k] # "missed"
    <3>1. ~ s.lines[k].summary
      BY <1>12, <2>1, <2>6
    <3>2. RowCents(s, f, k) = r.cents /\ TrueCents(s, k) = c
      BY <2>6, <3>1 DEF RowCents, TrueCents
    <3>3. r.cents \in Int
      <4>1. r \in Row
        BY <2>1, AsIsTyped
      <4> HIDE DEF r
      <4> QED  BY <4>1 DEF Row
    <3>4. Magnitude(r.cents - c) <= 2
      <4> HIDE DEF c, r
      <4> QED  BY <1>15, <2>2, <2>4, <3>2, <3>3 DEF Magnitude
    <3> QED  BY <2>6, <3>1, <3>4 DEF Harmless, Near
  <2> QED  BY <2>5, <2>6
<1>17. Len(read) = Len(Real(s)) /\ \A j \in 1..Len(Real(s)) : Near(read[j], Real(s)[j])
  BY <1>13, <1>14, <1>16, SlipAligned DEF read
<1>18. \A j \in 1..Len(Real(s)) : read[j].day \in Period
  BY <1>8, <1>9, <1>10, <1>17
<1> QED  BY <1>6, <1>9, <1>17, <1>18 DEF read, RightEnough

(* A wrong day that makes two rows of a paged reading one costs the later   *)
(* of the two lines: as if that line were missed, the rest told apart.      *)
LEMMA OneDaySlip ==
  ASSUME NEW s \in Statement, Distinct(s), NEW f, NEW k, OneSlip(s, f, k), f[k] = "misdated",
         ~ Told(s, f)
  PROVE  \E h, i : /\ Told(s, h) /\ \A n \in 1..Len(s.lines) : n # i => h[n] \in {"right", "misdated"}
                   /\ RowsRead(s, h) = RowsRead(s, f)
<1> DEFINE N == Len(s.lines)
           r(i) == As(s, i, f[i])
<1>1. N \in Nat /\ s.paged
  BY PrintedIsTyped DEF Told
<1>2. \A n \in 1..N : f[n] \in {"right", "misdated"} /\ f[n] \notin {"missed", "twice"}
  BY DEF OneSlip
<1>3. PICK lo, hi \in 1..N : lo < hi /\ Same(r(lo), r(hi))
  <2>1. PICK i, j \in 1..N : i # j /\ Same(r(i), r(j))
    BY DEF Told
  <2>2. Same(r(j), r(i))
    BY <2>1 DEF Same
  <2>3. i < j \/ j < i
    BY <1>1, <2>1
  <2> HIDE DEF r
  <2> QED  BY <2>1, <2>2, <2>3
<1>4. ASSUME NEW i \in 1..N, NEW j \in 1..N, i # j, Same(r(i), r(j))  PROVE i = k \/ j = k
  <2>1. SUFFICES ASSUME i # k, j # k  PROVE FALSE
    OBVIOUS
  <2>2. f[i] = "right" /\ f[j] = "right"
    BY <2>1 DEF OneSlip
  <2> QED  BY <1>1, <1>4, <2>2, RightLinesDiffer
<1> DEFINE h == [n \in 1..N |-> IF n = hi THEN "missed" ELSE f[n]]
<1>5. h[hi] = "missed" /\ \A n \in 1..N : n # hi => h[n] = f[n]
  OBVIOUS
<1> HIDE DEF h
<1>6. Told(s, h)
  <2>1. SUFFICES ASSUME NEW i \in 1..N, NEW j \in 1..N, i # j, h[i] # "missed", h[j] # "missed",
                        Same(As(s, i, h[i]), As(s, j, h[j]))
                 PROVE  FALSE
    BY DEF Told
  <2>2. i # hi /\ j # hi /\ h[i] = f[i] /\ h[j] = f[j]
    BY <1>5, <2>1
  <2>3. Same(r(i), r(j)) /\ Same(r(j), r(i))
    BY <2>1, <2>2 DEF Same
  <2>4. i = k \/ j = k
    BY <1>4, <2>1, <2>3
  <2>5. lo = k
    BY <1>1, <1>3, <1>4, <2>2, <2>4
  <2>6. Same(r(hi), r(i)) \/ Same(r(hi), r(j))
    BY <1>3, <2>4, <2>5 DEF Same
  <2>7. Same(r(hi), r(i)) /\ Same(r(hi), r(j))
    BY <2>3, <2>6 DEF Same
  <2>8. hi # k
    BY <1>1, <1>3, <2>5
  <2>9. i = k /\ j = k
    BY <1>4, <2>2, <2>7, <2>8
  <2> QED  BY <2>1, <2>9
<1>7. RowsRead(s, h) = RowsRead(s, f)
  <2>1. PICK a : ReadsBy(a, s, f)
    BY ReadRun
  <2>2. PICK b : ReadsBy(b, s, h)
    BY ReadRun
  <2> DEFINE S == {n \in 0..N : a[n] = b[n]}
  <2>3. 0 \in S /\ S \in SUBSET Nat
    BY <1>1, <2>1, <2>2 DEF ReadsBy
  <2>4. ASSUME NEW n \in 1..N, a[n - 1] = b[n - 1]  PROVE a[n] = b[n]
    <3>1. a[n] = ReadLine(s, b[n - 1], n, f[n]) /\ b[n] = ReadLine(s, b[n - 1], n, h[n])
      BY <2>1, <2>2, <2>4 DEF ReadsBy
    <3>2. CASE n # hi
      BY <1>5, <3>1, <3>2
    <3>3. CASE n = hi
      <4> DEFINE v == b[n - 1]
                 u == b[lo - 1]
                 x == As(s, lo, h[lo])
      <4>1. lo \in 0..N /\ lo - 1 \in 0..N /\ n - 1 \in lo..N /\ n - 1 \in 0..N /\ lo # hi
        BY <1>1, <1>3, <3>3
      <4>2. h[lo] = f[lo] /\ h[lo] \notin {"missed", "twice"}
        BY <1>2, <1>5, <4>1
      <4>3. b[lo] = Append(u, x)
        <5>1. Adds(s, h, u, b[lo], lo)
          BY <1>6, <2>2, EachLineAdds
        <5> HIDE DEF u
        <5> QED  BY <4>2, <5>1 DEF Adds
      <4>4. u \in Seq(Row) /\ v \in Seq(Row) /\ x \in Row
        BY <2>2, <4>1, AsIsTyped DEF ReadsBy
      <4>5. Len(b[lo]) <= Len(v) /\ \A j \in 1..Len(b[lo]) : v[j] = b[lo][j]
        BY <2>2, <4>1, RowsStay
      <4> HIDE DEF u, v, x
      <4>6. Len(u) \in Nat /\ Len(b[lo]) = Len(u) + 1 /\ b[lo][Len(u) + 1] = x
        BY <4>3, <4>4
      <4>7. Len(u) + 1 \in DOMAIN v /\ v[Len(u) + 1] = x
        BY <4>4, <4>5, <4>6
      <4>8. Same(x, r(hi))
        BY <1>3, <4>2 DEF x
      <4>9. Seen(v, r(hi))
        BY <4>7, <4>8 DEF Seen
      <4>10. Deduped(s, v, r(hi)) = v
        BY <1>1, <4>9 DEF Deduped
      <4>11. a[n] = Deduped(s, v, r(hi))
        BY <1>2, <3>1, <3>3, ReadLineIs DEF v
      <4>12. b[n] = v
        BY <1>5, <3>1, <3>3, ReadLineIs DEF v
      <4> QED  BY <4>10, <4>11, <4>12
    <3> QED  BY <3>2, <3>3
  <2>5. ASSUME NEW n \in S, n < N  PROVE n + 1 \in S
    <3>1. n + 1 \in 1..N /\ (n + 1) - 1 = n /\ n + 1 \in 0..N /\ a[n] = b[n]
      BY <1>1, <2>5
    <3> QED  BY <2>4, <3>1
  <2> HIDE DEF S
  <2>6. N \in S
    <3>1. \A n \in 0..N : n \in S
      BY <1>1, <2>3, <2>5, AllUpTo
    <3> QED  BY <1>1, <3>1
  <2> QED  BY <2>1, <2>2, <2>6 DEF ReadsBy, S
<1>8. \A n \in 1..N : n # hi => h[n] \in {"right", "misdated"}
  BY <1>2, <1>5
<1> QED  BY <1>6, <1>7, <1>8

LEMMA OneSlipIsRight ==
  ASSUME NEW s \in Statement, Legible(s), NEW f, NEW k, OneSlip(s, f, k), Graded(s, f).tier = "HIGH"
  PROVE  RightEnough(s, f)
<1>1. Distinct(s) /\ \A i \in 1..Len(s.lines) : s.lines[i].day \in Period
  BY PrintedIsTyped DEF Legible
<1>2. CASE Told(s, f)
  BY <1>2, HighIsRight DEF OneSlip, MoneySlip
<1>3. CASE ~ Told(s, f)
  <2>1. f[k] = "misdated"
    BY <1>1, <1>3, OneSlipIsTold
  <2>2. PICK h, i : /\ Told(s, h) /\ \A n \in 1..Len(s.lines) : n # i => h[n] \in {"right", "misdated"}
                    /\ RowsRead(s, h) = RowsRead(s, f)
    BY <1>1, <1>3, <2>1, OneDaySlip
  <2>3. Graded(s, h).tier = Graded(s, f).tier /\ Graded(s, h).rows = Graded(s, f).rows
    BY <2>2 DEF Graded
  <2>4. MoneySlip(s, h, i)
    BY <2>2 DEF MoneySlip
  <2>5. RightEnough(s, h)
    BY <2>2, <2>3, <2>4, HighIsRight
  <2> QED  BY <2>3, <2>5 DEF RightEnough
<1> QED  BY <1>2, <1>3

(* A flawless reading adds up.                                              *)
LEMMA FlawlessIsNotLow ==
  ASSUME NEW s \in Statement, Distinct(s), NEW f, \A n \in 1..Len(s.lines) : f[n] = "right",
         Graded(s, f).tier = "LOW"
  PROVE  Len(Real(s)) < IF s.card THEN 1 ELSE 3
<1> DEFINE read == RowsRead(s, f)
           rows == WithoutSummaries(read)
           flags == Flags(s, read)
           d == Difference(s, rows)
<1>1. read \in Seq(Row) /\ Len(rows) = Len(Real(s)) /\ Moves(rows) = Moves(Real(s))
  BY FlawlessAddsUp
<1>2. Tier(flags, d) = "LOW"
  BY DEF Graded
<1>3. rows \in Seq(Row)
  BY <1>1, KeepAll
<1>4. d = 0
  <2> HIDE DEF rows
  <2> QED  BY <1>1, <1>3, DifferenceIs DEF Magnitude
<1>5. "balance_out_of_tolerance" \notin flags
  <2>1. ~ (d > 5)
    <3> HIDE DEF d
    <3> QED  BY <1>4
  <2> QED  BY <2>1 DEF Flags
<1>6. "low_row_count" \in flags
  <2> HIDE DEF flags, d
  <2> QED  BY <1>2, <1>5 DEF Tier
<1>7. Len(rows) < IF s.card THEN 1 ELSE 3
  BY <1>6 DEF Flags
<1> QED  BY <1>1, <1>7

-----------------------------------------------------------------------------
(* The regex parser                                                         *)
LegacyState == [rows : Seq([day : Int, says : STRING, cents : Int]), balance : Int]
LegacyFirst(s) == [rows |-> <<>>, balance |-> s.opening]
LegacyNext(s, matched, v, n) ==
  IF n \in matched /\ ~ s.lines[n].summary THEN LegacyLine(s, v, n) ELSE v

LEMMA LegacyLineIs ==
  ASSUME NEW s \in Statement, NEW v \in LegacyState, NEW n \in 1..Len(s.lines)
  PROVE  /\ LegacyLine(s, v, n) \in LegacyState
         /\ LegacyLine(s, v, n).balance = BalanceAfter(s, n)
         /\ LegacyLine(s, v, n).rows = Append(v.rows, LegacyRow(s, n, v.balance))
         /\ LegacyRow(s, n, v.balance).cents =
              IF BalanceAfter(s, n) > v.balance THEN Magnitude(s.lines[n].cents) ELSE -Magnitude(s.lines[n].cents)
         /\ v.rows \in Seq([day : Int, says : STRING, cents : Int])
         /\ LegacyRow(s, n, v.balance) \in [day : Int, says : STRING, cents : Int]
<1> DEFINE R == [day : Int, says : STRING, cents : Int]
           x == LegacyRow(s, n, v.balance)
<1>1. BalanceAfter(s, n) \in Int /\ s.lines[n].day \in Int /\ s.lines[n].says \in STRING /\ s.lines[n].cents \in Int
  BY BalanceIsTyped, PrintedIsTyped
<1>2. v.rows \in Seq(R) /\ v.balance \in Int
  BY DEF LegacyState
<1>3. Magnitude(s.lines[n].cents) \in Int /\ -Magnitude(s.lines[n].cents) \in Int
  BY <1>1 DEF Magnitude
<1>4. x \in R /\ x.cents = IF BalanceAfter(s, n) > v.balance THEN Magnitude(s.lines[n].cents) ELSE -Magnitude(s.lines[n].cents)
  <2> HIDE DEF BalanceAfter, Magnitude
  <2> QED  BY <1>1, <1>3 DEF LegacyRow
<1> HIDE DEF R, x
<1>5. Append(v.rows, x) \in Seq(R)
  BY <1>2, <1>4
<1>6. LegacyLine(s, v, n) = [rows |-> Append(v.rows, x), balance |-> BalanceAfter(s, n)]
  BY DEF LegacyLine, x
<1>7. LegacyLine(s, v, n) \in [rows : Seq(R), balance : Int]
  BY <1>1, <1>5, <1>6
<1> QED  BY <1>2, <1>4, <1>6, <1>7 DEF LegacyState, R, x

LEMMA LegacyRun ==
  ASSUME NEW s \in Statement, NEW matched
  PROVE  \E g \in [0..Len(s.lines) -> LegacyState] :
            /\ g[0] = LegacyFirst(s)
            /\ \A n \in 1..Len(s.lines) : g[n] = LegacyNext(s, matched, g[n - 1], n)
            /\ LegacyRows(s, matched) = g[Len(s.lines)].rows
<1> DEFINE N == Len(s.lines)
           Def(g) == [n \in 0..N |-> IF n = 0 THEN LegacyFirst(s) ELSE LegacyNext(s, matched, g[n - 1], n)]
           h == CHOOSE g : g = Def(g)
           F == [p \in LegacyState \X (1..N) |-> LegacyNext(s, matched, p[1], p[2])]
<1>1. N \in Nat /\ LegacyFirst(s) \in LegacyState
  BY PrintedIsTyped DEF LegacyFirst, LegacyState
<1>2. LegacyRows(s, matched) = h[N].rows
  BY DEF LegacyRows, LegacyFirst, LegacyNext
<1> HIDE DEF N, h
<1>3. /\ F \in StepsOf(N, LegacyState)
      /\ \A v \in LegacyState, n \in 1..N : F[<<v, n>>] = LegacyNext(s, matched, v, n)
  <2>1. \A v \in LegacyState, n \in 1..N : LegacyNext(s, matched, v, n) \in LegacyState
    BY LegacyLineIs DEF LegacyNext, N
  <2> QED  BY <2>1 DEF StepsOf
<1>4. \E g : g = Def(g)
  <2> HIDE DEF F
  <2>1. PICK g : g \in RunsOf(N, LegacyState, LegacyFirst(s), F)
    BY <1>1, <1>3, RunExists
  <2>2. /\ g \in [0..N -> LegacyState] /\ g[0] = LegacyFirst(s)
        /\ \A n \in 1..N : g[n] = F[<<g[n - 1], n>>]
    BY <2>1 DEF RunsOf
  <2>3. \A n \in 1..N : g[n - 1] \in LegacyState
    BY <1>1, <2>2
  <2>4. \A n \in 1..N : g[n] = LegacyNext(s, matched, g[n - 1], n)
    BY <1>3, <2>2, <2>3
  <2>5. \A n \in 0..N : g[n] = IF n = 0 THEN LegacyFirst(s) ELSE LegacyNext(s, matched, g[n - 1], n)
    BY <1>1, <2>2, <2>4
  <2> QED  BY <2>2, <2>5
<1>5. h = Def(h)
  <2> HIDE DEF Def
  <2> QED  BY <1>4 DEF h
<1>6. /\ h = [n \in 0..N |-> h[n]] /\ h[0] = LegacyFirst(s)
      /\ \A n \in 1..N : h[n] = LegacyNext(s, matched, h[n - 1], n)
  <2>1. \A n \in 0..N : h[n] = IF n = 0 THEN LegacyFirst(s) ELSE LegacyNext(s, matched, h[n - 1], n)
    BY <1>5
  <2>2. 0 \in 0..N /\ \A n \in 1..N : n \in 0..N /\ n # 0
    BY <1>1
  <2>3. h = [n \in 0..N |-> h[n]]
    BY <1>5
  <2> QED  BY <2>1, <2>2, <2>3
<1>7. h \in RunsOf(N, LegacyState, LegacyFirst(s), F)
  <2> HIDE DEF F
  <2>1. \A n \in 1..N : h[n - 1] \in LegacyState => h[n] = F[<<h[n - 1], n>>]
    BY <1>3, <1>6
  <2> QED  BY <1>1, <1>3, <1>6, <2>1, RunIsTyped
<1>8. h \in [0..N -> LegacyState]
  BY <1>7 DEF RunsOf
<1> QED  BY <1>2, <1>6, <1>8 DEF N

(* Line by line, the balance before is the printed one as long as no line   *)
(* was left out.                                                            *)
LEMMA LegacyReadsRight ==
  ASSUME NEW s \in Statement, ~ s.card, NEW matched
  PROVE  /\ LegacyRows(s, matched) \in Seq([day : Int, says : STRING, cents : Int])
         /\ Len(LegacyRows(s, matched)) = Len(Real(s)) =>
              \A j \in 1..Len(Real(s)) : LegacyRows(s, matched)[j].cents = Real(s)[j].cents
<1> DEFINE N == Len(s.lines)
           R == [day : Int, says : STRING, cents : Int]
<1>1. N \in Nat
  BY PrintedIsTyped
<1>2. PICK g \in [0..N -> LegacyState] :
        /\ g[0] = LegacyFirst(s)
        /\ \A n \in 1..N : g[n] = LegacyNext(s, matched, g[n - 1], n)
        /\ LegacyRows(s, matched) = g[N].rows
  BY LegacyRun
<1> DEFINE Right(v, b, n) ==
             /\ Len(v.rows) <= Len(b)
             /\ Len(v.rows) = Len(b) =>
                  v.balance = BalanceAfter(s, n) /\ \A j \in 1..Len(b) : v.rows[j].cents = b[j].cents
           S == {n \in 0..N : Right(g[n], RealTo(s, n), n)}
<1>3. \A n \in 0..N : BalanceAfter(s, n) = s.opening + Moves(RealTo(s, n))
  BY DEF BalanceAfter, Balance, RealTo
<1>4. 0 \in S /\ S \in SUBSET Nat
  <2>1. g[0].rows = <<>> /\ g[0].balance = s.opening /\ RealTo(s, 0) = <<>>
    BY <1>2, RealSteps DEF LegacyFirst
  <2>2. BalanceAfter(s, 0) = s.opening
    BY <1>1, <1>3, <2>1, MovesOfNone, PrintedIsTyped
  <2> QED  BY <1>1, <2>1, <2>2
<1>5. ASSUME NEW n \in 1..N, Right(g[n - 1], RealTo(s, n - 1), n - 1)
      PROVE  Right(g[n], RealTo(s, n), n)
  <2> DEFINE v == g[n - 1]
             w == g[n]
             b == RealTo(s, n - 1)
             l == s.lines[n]
             x == LegacyRow(s, n, v.balance)
             c == l.cents
  <2>1. n - 1 \in 0..N /\ n \in 0..N
    BY <1>1
  <2>2. v \in LegacyState /\ w = LegacyNext(s, matched, v, n) /\ v.rows \in Seq(R) /\ v.balance \in Int
    BY <1>2, <2>1 DEF LegacyState
  <2>3. b \in Seq(Line) /\ l \in Line /\ c \in Int /\ RealTo(s, n) = IF l.summary THEN b ELSE Append(b, l)
    BY <2>1, RealSteps, PrintedIsTyped
  <2>4. Right(v, b, n - 1)
    BY <1>5
  <2>5. BalanceAfter(s, n - 1) = s.opening + Moves(b) /\ BalanceAfter(s, n) = s.opening + Moves(RealTo(s, n))
    BY <1>3, <2>1
  <2>6. Moves(b) \in Int /\ Moves(Append(b, l)) = Moves(b) + c /\ s.opening \in Int
    BY <2>3, MovesOfLines, PrintedIsTyped
  <2>7. CASE l.summary
    <3>1. w = v
      BY <2>2, <2>7 DEF LegacyNext
    <3>2. RealTo(s, n) = b
      BY <2>3, <2>7
    <3>3. BalanceAfter(s, n) = BalanceAfter(s, n - 1)
      BY <2>5, <3>2
    <3>4. Right(w, RealTo(s, n), n)
      <4> HIDE DEF v, w, b, l
      <4> QED  BY <2>4, <3>1, <3>2, <3>3
    <3> HIDE DEF Right
    <3> QED  BY <3>4
  <2>8. CASE ~ l.summary /\ n \notin matched
    <3>1. w = v
      BY <2>2, <2>8 DEF LegacyNext
    <3>2. RealTo(s, n) = Append(b, l)
      BY <2>3, <2>8
    <3> HIDE DEF v, w, b, l
    <3>3. Len(Append(b, l)) = Len(b) + 1 /\ Len(v.rows) \in Nat /\ Len(b) \in Nat
      BY <2>2, <2>3
    <3>4. Len(w.rows) < Len(RealTo(s, n))
      BY <2>4, <3>1, <3>2, <3>3
    <3>5. Len(w.rows) \in Nat /\ Len(RealTo(s, n)) \in Nat
      BY <3>1, <3>2, <3>3
    <3>6. Right(w, RealTo(s, n), n)
      BY <3>4, <3>5
    <3> HIDE DEF Right
    <3> QED  BY <3>6 DEF w
  <2>9. CASE ~ l.summary /\ n \in matched
    <3>1. w = LegacyLine(s, v, n)
      BY <2>2, <2>9 DEF LegacyNext
    <3>2. RealTo(s, n) = Append(b, l)
      BY <2>3, <2>9
    <3>3. /\ w.balance = BalanceAfter(s, n) /\ w.rows = Append(v.rows, x) /\ x \in R
          /\ x.cents = IF BalanceAfter(s, n) > v.balance THEN Magnitude(c) ELSE -Magnitude(c)
      <4>1. /\ LegacyLine(s, v, n).balance = BalanceAfter(s, n)
            /\ LegacyLine(s, v, n).rows = Append(v.rows, x) /\ x \in R
            /\ x.cents = IF BalanceAfter(s, n) > v.balance THEN Magnitude(c) ELSE -Magnitude(c)
        <5> HIDE DEF v
        <5> QED  BY <2>2, LegacyLineIs
      <4> HIDE DEF v, w, x, c, R
      <4> QED  BY <3>1, <4>1
    <3> HIDE DEF v, w, b, l, x, c, R
    <3>4. /\ Len(v.rows) \in Nat /\ Len(b) \in Nat
          /\ Len(Append(v.rows, x)) = Len(v.rows) + 1 /\ Append(v.rows, x)[Len(v.rows) + 1] = x
          /\ Len(Append(b, l)) = Len(b) + 1 /\ Append(b, l)[Len(b) + 1] = l
          /\ \A j \in 1..Len(v.rows) : Append(v.rows, x)[j] = v.rows[j]
          /\ \A j \in 1..Len(b) : Append(b, l)[j] = b[j]
      BY <2>2, <2>3, <3>3
    <3>5. Len(w.rows) <= Len(RealTo(s, n))
      BY <2>4, <3>2, <3>3, <3>4
    <3>6. ASSUME Len(w.rows) = Len(RealTo(s, n)), NEW j \in 1..Len(RealTo(s, n))
          PROVE  w.rows[j].cents = RealTo(s, n)[j].cents
      <4>1. Len(v.rows) = Len(b)
        BY <3>2, <3>3, <3>4, <3>6
      <4>2. v.balance = BalanceAfter(s, n - 1) /\ \A i \in 1..Len(b) : v.rows[i].cents = b[i].cents
        BY <2>4, <4>1
      <4>3. BalanceAfter(s, n) = v.balance + c
        <5>1. Moves(RealTo(s, n)) = Moves(b) + c
          BY <2>6, <3>2
        <5>2. v.balance = s.opening + Moves(b)
          BY <2>5, <4>2
        <5> QED  BY <2>5, <2>6, <5>1, <5>2, <2>3
      <4>4. x.cents = c
        BY <2>2, <2>3, <3>3, <4>3 DEF Magnitude
      <4>5. CASE j = Len(b) + 1
        BY <3>2, <3>3, <3>4, <4>1, <4>4, <4>5 DEF c
      <4>6. CASE j # Len(b) + 1
        <5>1. j \in 1..Len(b)
          BY <3>2, <3>4, <4>6
        <5> QED  BY <3>2, <3>3, <3>4, <4>1, <4>2, <5>1
      <4> QED  BY <4>5, <4>6
    <3>7. w.balance = BalanceAfter(s, n)
      BY <3>3
    <3>8. Right(w, RealTo(s, n), n)
      BY <3>5, <3>6, <3>7
    <3> HIDE DEF Right
    <3> QED  BY <3>8 DEF w
  <2> QED  BY <2>7, <2>8, <2>9
<1> HIDE DEF Right
<1>6. ASSUME NEW n \in S, n < N  PROVE n + 1 \in S
  <2>1. n + 1 \in 1..N /\ (n + 1) - 1 = n /\ n + 1 \in 0..N /\ Right(g[n], RealTo(s, n), n)
    BY <1>1, <1>6
  <2>2. Right(g[n + 1], RealTo(s, n + 1), n + 1)
    BY <1>5, <2>1
  <2> QED  BY <2>1, <2>2
<1> HIDE DEF S
<1>7. \A n \in 0..N : n \in S
  BY <1>1, <1>4, <1>6, AllUpTo
<1>8. N \in 0..N /\ Right(g[N], RealTo(s, N), N)
  BY <1>1, <1>7 DEF S
<1>9. RealTo(s, N) = Real(s) /\ g[N].rows \in Seq(R)
  BY <1>2, <1>8, RealSteps DEF LegacyState
<1> QED  BY <1>2, <1>8, <1>9 DEF Right

-----------------------------------------------------------------------------
(* What is kept is a graded reading of the statement; what is imported is   *)
(* that reading, or the regex parser's that is no shorter.                  *)
LEMMA GradedIsTyped ==
  ASSUME NEW s \in Statement, NEW f
  PROVE  /\ Graded(s, f).rows \in Seq(Row) /\ Graded(s, f).difference \in Nat
         /\ Graded(s, f).tier \in {"LOW", "MEDIUM", "HIGH"}
         /\ Graded(s, f).tier = "HIGH" => Dated(Graded(s, f).rows)
<1> DEFINE read == RowsRead(s, f)
           rows == WithoutSummaries(read)
<1>1. read \in Seq(Row)
  <2>1. PICK g : ReadsBy(g, s, f)
    BY ReadRun
  <2>2. Len(s.lines) \in 0..Len(s.lines)
    BY PrintedIsTyped
  <2> QED  BY <2>1, <2>2 DEF ReadsBy
<1>2. rows \in Seq(Row)
  BY <1>1, KeepAll
<1>3. Difference(s, rows) \in Nat
  BY <1>2, DifferenceIs
<1>4. Tier(Flags(s, read), Difference(s, rows)) \in {"LOW", "MEDIUM", "HIGH"}
  BY DEF Tier
<1>5. ASSUME Tier(Flags(s, read), Difference(s, rows)) = "HIGH"  PROVE Dated(rows)
  <2>1. Flags(s, read) = {}
    BY <1>5, HighIsUnflagged
  <2>2. \A i \in DOMAIN rows : rows[i].day \in Period
    BY <2>1, Unflagged
  <2>3. 0 \notin Period
    BY DEF Period
  <2> HIDE DEF rows
  <2> QED  BY <2>2, <2>3 DEF Dated
<1> HIDE DEF read, rows
<1>6. /\ Graded(s, f).rows = rows /\ Graded(s, f).difference = Difference(s, rows)
      /\ Graded(s, f).tier = Tier(Flags(s, read), Difference(s, rows))
  BY DEF Graded, read, rows
<1> QED  BY <1>2, <1>3, <1>4, <1>5, <1>6

LEMMA SlipsAreCounted ==
  ASSUME NEW s \in Statement, NEW f \in Readings(s)
  PROVE  /\ \A n \in 1..Len(s.lines) : f[n] \in Slips \cup {"right"}
         /\ Graded(s, f).slips = 0 => \A n \in 1..Len(s.lines) : f[n] = "right"
         /\ Graded(s, f).slips <= 1 => \E k : OneSlip(s, f, k)
<1> DEFINE Z == {i \in DOMAIN f : f[i] # "right"}
<1>1. f \in [1..Len(s.lines) -> Slips \cup {"right"}] /\ Len(s.lines) \in Nat
  BY PrintedIsTyped DEF Readings
<1>2. DOMAIN f = 1..Len(s.lines)
  BY <1>1
<1>3. Graded(s, f).slips = Cardinality(Z)
  BY DEF Graded
<1>4. IsFiniteSet(Z)
  <2>1. IsFiniteSet(1..Len(s.lines))
    BY <1>1, FS_Interval
  <2>2. Z \subseteq 1..Len(s.lines)
    BY <1>2
  <2> HIDE DEF Z
  <2> QED  BY <2>1, <2>2, FS_Subset
<1>5. Cardinality(Z) = 0 => Z = {}
  BY <1>4, FS_EmptySet
<1>6. ASSUME Cardinality(Z) <= 1, NEW i \in Z, NEW j \in Z  PROVE i = j
  <2> HIDE DEF Z
  <2>1. SUFFICES ASSUME i # j  PROVE FALSE
    OBVIOUS
  <2>2. IsFiniteSet({i}) /\ Cardinality({i}) = 1
    BY FS_Singleton
  <2>3. IsFiniteSet({i} \cup {j}) /\ Cardinality({i} \cup {j}) = 2
    BY <2>1, <2>2, FS_AddElement
  <2>4. {i} \cup {j} \subseteq Z
    OBVIOUS
  <2>5. Cardinality({i} \cup {j}) <= Cardinality(Z)
    BY <1>4, <2>4, FS_Subset
  <2>6. Cardinality(Z) \in Nat
    BY <1>4, FS_CardinalityType
  <2> QED  BY <1>6, <2>3, <2>5, <2>6
<1>7. ASSUME Cardinality(Z) <= 1  PROVE \E k : OneSlip(s, f, k)
  <2>1. CASE Z = {}
    BY <1>2, <2>1 DEF OneSlip
  <2>2. CASE Z # {}
    <3>1. PICK k : k \in Z
      BY <2>2
    <3>2. \A n \in Z : n = k
      BY <1>6, <1>7, <3>1
    <3>3. OneSlip(s, f, k)
      BY <1>2, <3>2 DEF OneSlip
    <3> QED  BY <3>3
  <2> QED  BY <2>1, <2>2
<1> QED  BY <1>1, <1>2, <1>3, <1>5, <1>7

ByModel == imported.by = "model" /\ imported.rows = kept.rows
ByRegex ==
  /\ imported.by = "regex" /\ Len(imported.rows) >= Len(kept.rows)
  /\ \E matched \in SUBSET (DOMAIN printed.lines) : imported.rows = LegacyRows(printed, matched)

ReadInv ==
  /\ ReadingTypeOK
  /\ at = "printed" => kept = NothingKept /\ asked = 0
  /\ at # "printed" => \E f \in Readings(printed) : kept = Graded(printed, f)
  /\ CorrectionNeverWorsens /\ HighIsImported
  /\ at # "imported" => imported = NotImported
  /\ at = "imported" => ByModel \/ ByRegex

LEMMA ReadInvFirst == ReadingInit => ReadInv
BY DEF ReadingInit, ReadInv, ReadingTypeOK, NothingKept, NotImported, CorrectionNeverWorsens, HighIsImported

LEMMA ReadStep ==
  ASSUME ReadInv, NEW f, Read(f)  PROVE ReadInv'
<1>1. printed \in Statement /\ printed' = printed
  BY StatementsAssumption DEF ReadInv, ReadingTypeOK, Read
<1>2. /\ at = "printed" /\ at' = "graded" /\ f \in Readings(printed) /\ kept' = Graded(printed, f)
      /\ asked' = asked /\ imported' = imported
  BY DEF Read
<1>3. asked = 0 /\ imported = NotImported
  BY <1>2 DEF ReadInv
<1>4. kept'.difference \in Nat /\ kept'.tier \in {"LOW", "MEDIUM", "HIGH"}
  BY <1>1, <1>2, GradedIsTyped
<1>5. ReadingTypeOK'
  BY <1>1, <1>2, <1>3, <1>4 DEF ReadInv, ReadingTypeOK, NotImported
<1>6. \E h \in Readings(printed') : kept' = Graded(printed', h)
  BY <1>1, <1>2
<1> QED  BY <1>2, <1>3, <1>5, <1>6 DEF ReadInv, CorrectionNeverWorsens, HighIsImported

LEMMA CorrectStep ==
  ASSUME ReadInv, NEW f, Correct(f)  PROVE ReadInv'
<1>1. printed \in Statement /\ printed' = printed
  BY StatementsAssumption DEF ReadInv, ReadingTypeOK, Correct
<1>2. /\ at = "graded" /\ at' = at /\ asked = 0 /\ asked' = kept.difference /\ imported' = imported
  BY DEF Correct
<1>3. PICK h \in Readings(printed) : kept = Graded(printed, h)
  BY <1>2 DEF ReadInv
<1>4. kept.difference \in Nat
  BY DEF ReadInv, ReadingTypeOK
<1>5. CASE kept' = kept
  BY <1>1, <1>2, <1>3, <1>4, <1>5 DEF ReadInv, ReadingTypeOK, CorrectionNeverWorsens, HighIsImported
<1>6. CASE f \in Readings(printed) /\ Improves(Graded(printed, f)) /\ kept' = Graded(printed, f)
  <2>1. kept'.difference \in Nat /\ kept'.tier \in {"LOW", "MEDIUM", "HIGH"}
    BY <1>1, <1>6, GradedIsTyped
  <2>2. kept'.difference < kept.difference
    BY <1>6 DEF Improves
  <2>3. \E q \in Readings(printed') : kept' = Graded(printed', q)
    BY <1>1, <1>6
  <2>4. ReadingTypeOK'
    BY <1>1, <1>2, <1>4, <2>1 DEF ReadInv, ReadingTypeOK
  <2>5. CorrectionNeverWorsens'
    BY <1>2, <1>4, <2>1, <2>2 DEF CorrectionNeverWorsens
  <2> QED  BY <1>2, <2>3, <2>4, <2>5 DEF ReadInv, HighIsImported
<1> QED  BY <1>5, <1>6 DEF Correct

(* The kept reading may be imported, or refused if it was flagged.          *)
LEMMA ImportsStep ==
  ASSUME ReadInv, at = "graded", NEW rows, NEW by, Imports(rows, by),
         \/ by = "model" /\ rows = kept.rows
         \/ /\ by = "regex" /\ Len(rows) >= Len(kept.rows) /\ kept.tier # "HIGH"
            /\ \E matched \in SUBSET (DOMAIN printed.lines) : rows = LegacyRows(printed, matched)
  PROVE  ReadInv'
<1>1. printed \in Statement /\ printed' = printed /\ kept' = kept /\ asked' = asked
  BY StatementsAssumption DEF ReadInv, ReadingTypeOK, Imports
<1>2. PICK h \in Readings(printed) : kept = Graded(printed, h)
  BY DEF ReadInv
<1>3. \E q \in Readings(printed') : kept' = Graded(printed', q)
  BY <1>1, <1>2
<1>4. CorrectionNeverWorsens'
  BY <1>1 DEF ReadInv, CorrectionNeverWorsens
<1>5. CASE Dated(rows)
  <2>1. at' = "imported" /\ imported' = [rows |-> rows, by |-> by]
    BY <1>5 DEF Imports
  <2>2. (ByModel \/ ByRegex)'
    BY <1>1, <2>1 DEF ByModel, ByRegex
  <2>3. ReadingTypeOK'
    BY <1>1, <2>1 DEF ReadInv, ReadingTypeOK
  <2> QED  BY <1>3, <1>4, <2>1, <2>2, <2>3 DEF ReadInv, HighIsImported
<1>6. CASE ~ Dated(rows)
  <2>1. at' = "failed" /\ imported' = imported
    BY <1>6 DEF Imports
  <2>2. kept.tier # "HIGH"
    BY <1>1, <1>2, <1>6, GradedIsTyped
  <2>3. ReadingTypeOK'
    BY <1>1, <2>1 DEF ReadInv, ReadingTypeOK
  <2> QED  BY <1>1, <1>3, <1>4, <2>1, <2>2, <2>3 DEF ReadInv, HighIsImported
<1> QED  BY <1>5, <1>6

LEMMA CompareStep ==
  ASSUME ReadInv, NEW matched, Compare(matched)  PROVE ReadInv'
<1> DEFINE rows == LegacyRows(printed, matched)
<1>1. at = "graded" /\ kept.tier = "LOW" /\ matched \in SUBSET (DOMAIN printed.lines)
  BY DEF Compare, Answered, SecondReader
<1>2. IF Prefers(rows) THEN Imports(rows, "regex") ELSE Imports(kept.rows, "model")
  BY DEF Compare
<1> HIDE DEF rows
<1>3. CASE Prefers(rows)
  <2>1. Len(rows) >= Len(kept.rows)
    BY <1>3 DEF Prefers
  <2>2. \E m \in SUBSET (DOMAIN printed.lines) : rows = LegacyRows(printed, m)
    BY <1>1 DEF rows
  <2> QED  BY <1>1, <1>2, <1>3, <2>1, <2>2, ImportsStep
<1>4. CASE ~ Prefers(rows)
  BY <1>1, <1>2, <1>4, ImportsStep
<1> QED  BY <1>3, <1>4

LEMMA ReadInvNext == ReadInv /\ [ReadingNext]_reading => ReadInv'
<1> SUFFICES ASSUME ReadInv, [ReadingNext]_reading  PROVE ReadInv'
  OBVIOUS
<1>1. ASSUME NEW f, Read(f)  PROVE ReadInv'
  BY <1>1, ReadStep
<1>2. ASSUME NEW f, Correct(f)  PROVE ReadInv'
  BY <1>2, CorrectStep
<1>3. CASE ImportReading
  <2>1. at = "graded" /\ Imports(kept.rows, "model")
    BY <1>3 DEF ImportReading, Answered
  <2> QED  BY <2>1, ImportsStep
<1>4. ASSUME NEW matched, Compare(matched)  PROVE ReadInv'
  BY <1>4, CompareStep
<1>5. CASE UNCHANGED reading
  BY <1>5 DEF reading, ReadInv, ReadingTypeOK, CorrectionNeverWorsens, HighIsImported, ByModel, ByRegex
<1> QED  BY <1>1, <1>2, <1>3, <1>4, <1>5 DEF ReadingNext

LEMMA SeenInvariant == ReadInv => OneSlipIsSeen
<1> SUFFICES ASSUME ReadInv, Legible(printed), kept.tier = "HIGH", kept.slips <= 1  PROVE ~ Off(kept.rows)
  BY DEF OneSlipIsSeen
<1>1. printed \in Statement
  BY StatementsAssumption DEF ReadInv, ReadingTypeOK
<1>2. PICK f \in Readings(printed) : kept = Graded(printed, f)
  BY DEF ReadInv, NothingKept
<1>3. PICK k : OneSlip(printed, f, k)
  BY <1>1, <1>2, SlipsAreCounted
<1>4. RightEnough(printed, f)
  BY <1>1, <1>2, <1>3, OneSlipIsRight
<1>5. /\ Len(kept.rows) = Len(Real(printed))
      /\ \A j \in 1..Len(Real(printed)) :
           Near(kept.rows[j], Real(printed)[j]) /\ kept.rows[j].day \in Period
  BY <1>2, <1>4 DEF RightEnough
<1>6. kept.rows \in Seq(Row)
  BY <1>1, <1>2, GradedIsTyped
<1>7. DOMAIN kept.rows = 1..Len(kept.rows)
  BY <1>6
<1>8. Real(printed) \in Seq(Line)
  <2>1. Len(printed.lines) \in 0..Len(printed.lines)
    BY <1>1, PrintedIsTyped
  <2> QED  BY <1>1, <2>1, RealSteps
<1>9. \A j \in DOMAIN kept.rows :
        kept.rows[j].day \in Period /\ Magnitude(kept.rows[j].cents - Real(printed)[j].cents) <= 2
  BY <1>5, <1>7 DEF Near
<1>10. \A j \in DOMAIN kept.rows : Magnitude(kept.rows[j].cents - Real(printed)[j].cents) \in Int
  <2>1. \A j \in DOMAIN kept.rows : kept.rows[j] \in Row /\ Real(printed)[j] \in Line
    BY <1>5, <1>6, <1>7, <1>8
  <2> QED  BY <2>1 DEF Row, Line, Magnitude
<1> QED  BY <1>5, <1>9, <1>10 DEF Off

LEMMA StandsInvariant == ReadInv => ReadingStands
<1> SUFFICES ASSUME ReadInv  PROVE ReadingStands
  OBVIOUS
<1>1. printed \in Statement
  BY StatementsAssumption DEF ReadInv, ReadingTypeOK
<1>2. NoRowIsTradedAway
  <2> DEFINE Enough == Len(imported.rows) >= Len(kept.rows)
  <2>1. SUFFICES ASSUME at = "imported"  PROVE Enough
    BY DEF NoRowIsTradedAway
  <2>2. CASE ByModel
    <3>1. PICK f \in Readings(printed) : kept = Graded(printed, f)
      BY <2>1 DEF ReadInv
    <3>2. kept.rows \in Seq(Row)
      BY <1>1, <3>1, GradedIsTyped
    <3>3. Len(kept.rows) \in Nat
      BY <3>2
    <3>4. imported.rows = kept.rows
      BY <2>2 DEF ByModel
    <3> QED  BY <3>3, <3>4
  <2>3. CASE ByRegex
    BY <2>3 DEF ByRegex
  <2>4. ByModel \/ ByRegex
    BY <2>1 DEF ReadInv
  <2> HIDE DEF Enough
  <2> QED  BY <2>2, <2>3, <2>4
<1>3. FlawlessIsTrusted
  <2>1. SUFFICES ASSUME at = "graded", kept.slips = 0, kept.tier = "LOW", Distinct(printed)
                 PROVE  Len(Real(printed)) < IF printed.card THEN 1 ELSE 3
    BY DEF FlawlessIsTrusted
  <2>2. PICK f \in Readings(printed) : kept = Graded(printed, f)
    BY <2>1 DEF ReadInv
  <2>3. \A n \in 1..Len(printed.lines) : f[n] = "right"
    BY <1>1, <2>1, <2>2, SlipsAreCounted
  <2> QED  BY <1>1, <2>1, <2>2, <2>3, FlawlessIsNotLow
<1>4. LegacyReadsDirections
  <2>1. SUFFICES ASSUME imported.by = "regex", ~ printed.card, Len(imported.rows) = Len(Real(printed))
                 PROVE  \A i \in DOMAIN imported.rows : imported.rows[i].cents = Real(printed)[i].cents
    BY DEF LegacyReadsDirections
  <2>2. ByRegex
    BY <2>1 DEF ReadInv, ByModel, NotImported
  <2>3. PICK matched : imported.rows = LegacyRows(printed, matched)
    BY <2>2 DEF ByRegex
  <2>4. /\ imported.rows \in Seq([day : Int, says : STRING, cents : Int])
        /\ \A j \in 1..Len(Real(printed)) : imported.rows[j].cents = Real(printed)[j].cents
    BY <1>1, <2>1, <2>3, LegacyReadsRight
  <2>5. DOMAIN imported.rows = 1..Len(imported.rows)
    BY <2>4
  <2> QED  BY <2>1, <2>4, <2>5
<1> QED  BY <1>2, <1>3, <1>4 DEF ReadInv, ReadingStands

(* A statement that is legible is never graded HIGH with a line missing,    *)
(* doubled, dated outside the period or off by more than two cents after a  *)
(* single mistake of the model, whatever the statement and wherever the     *)
(* mistake, a wrong day that makes two rows of a paged reading one among    *)
(* them (validate_statement_extraction, _dedup_rows). That a day inside the *)
(* period is the printed one is not said: nothing checks it.                *)
THEOREM SlipsAreSeen == ReadingSpec => []OneSlipIsSeen
<1>1. ReadingSpec => []ReadInv
  BY ReadInvFirst, ReadInvNext, PTL DEF ReadingSpec
<1> QED  BY <1>1, SeenInvariant, PTL

(* The corrective question never makes things worse, the regex parser takes *)
(* over with no fewer rows and the right directions, a HIGH reading is      *)
(* imported and a flawless one is not distrusted                            *)
(* (parse_statement_with_llm, run_statement_parse_job).                     *)
THEOREM ReadingsStand == ReadingSpec => []ReadingStands
<1>1. ReadingSpec => []ReadInv
  BY ReadInvFirst, ReadInvNext, PTL DEF ReadingSpec
<1> QED  BY <1>1, StandsInvariant, PTL
=============================================================================
