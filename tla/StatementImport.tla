--------------------------- MODULE StatementImport ---------------------------
(***************************************************************************)
(* A bank statement PDF from the drop zone to the ledger: the upload       *)
(* handler (duplicate check, replace-on-re-upload, scan, statements row,   *)
(* job row), the parse the queue runs, the ways a statements row is closed *)
(* without being parsed, and the sweep at startup.                         *)
(*                                                                         *)
(* The queue is the abstract JobLifecycle. The statements row a job was    *)
(* created with carries the job's number. A "half" action is a handler     *)
(* whose next database transaction raises, or never comes because the      *)
(* process dies there (Restart next); a "blind" one has a look swallowed.  *)
(***************************************************************************)
EXTENDS Integers, FiniteSets

CONSTANTS Jobs,      \* processing_jobs rows, in order of creation
          Slots,     \* LOCAL_LLM_MAX_CONCURRENT
          Uploads,   \* upload requests in flight together
          Names,     \* filenames (source_file)
          Bytes,     \* file contents, told apart by their SHA-256
          Charges,   \* import dedup keys (idx_transactions_dedup)
          Content,   \* [Bytes -> SUBSET Charges]: the rows a parse reads
          MaxHalves, \* bound: handlers that stop half way or whose look raises
          MaxRestarts \* bound: restarts of the process

ASSUME JobsAssumption == Jobs \subseteq Nat \ {0} /\ IsFiniteSet(Jobs)
ASSUME ContentAssumption == Content \in [Bytes -> SUBSET Charges]
ASSUME BoundsAssumption == MaxHalves \in Nat /\ MaxRestarts \in Nat

VARIABLES
  phase,   \* JobLifecycle: the queue's view of each job
  job,     \* kind, filename and file_hash columns of each job
  stmt,    \* statements.status
  ledger,  \* transactions: the job that imported each charge, 0 if it is not there
  upload,  \* what each upload request is doing
  clean,   \* no handler has stopped half way since the last sweep
  left     \* what the bounds still allow

vars == <<phase, job, stmt, ledger, upload, clean, left>>

Q == INSTANCE JobLifecycle

NoRow == "none"
InFlight == {"waiting", "active"}                 \* PENDING_STATUSES

Unused == [kind |-> "none"]
File == [name : Names, bytes : Bytes]
Idle == [at |-> "idle"]

TypeOK ==
  /\ Q!TypeOK
  /\ job \in [Jobs -> {Unused} \cup [kind : {"statement", "receipt"}, file : File]]
  /\ stmt \in [Jobs -> {NoRow, "processing", "imported", "failed"}]
  /\ ledger \in [Charges -> Jobs \cup {0}]
  /\ upload \in [Uploads -> {Idle} \cup [at : {"scanning"}, file : File]]
  /\ clean \in BOOLEAN
  /\ left \in [{"halves", "restarts"} -> Nat]

Init ==
  /\ Q!Init
  /\ job = [j \in Jobs |-> Unused]
  /\ stmt = [j \in Jobs |-> NoRow]
  /\ ledger = [c \in Charges |-> 0]
  /\ upload = [u \in Uploads |-> Idle]
  /\ clean = TRUE
  /\ left = [halves |-> MaxHalves, restarts |-> MaxRestarts]

-----------------------------------------------------------------------------
NewJob(j) == job[j] = Unused /\ \A i \in Jobs : i < j => job[i] # Unused

Statements == {j \in Jobs : job[j].kind = "statement"}
RowsOf(n) == {j \in Statements : stmt[j] # NoRow /\ job[j].file.name = n}
RowsWith(b) == {j \in Statements : stmt[j] # NoRow /\ job[j].file.bytes = b}
ChargesOf(n) == {c \in Charges : ledger[c] # 0 /\ job[ledger[c]].file.name = n}

Half == clean' = FALSE /\ left.halves > 0 /\ left' = [left EXCEPT !.halves = @ - 1]
Whole == UNCHANGED <<clean, left>>

Close(S, how) == stmt' = [j \in Jobs |-> IF j \in S /\ stmt[j] # NoRow THEN how ELSE stmt[j]]
DropRows(S) == stmt' = [j \in Jobs |-> IF j \in S THEN NoRow ELSE stmt[j]]
DropCharges(C) == ledger' = [c \in Charges |-> IF c \in C THEN 0 ELSE ledger[c]]

-----------------------------------------------------------------------------
(* POST /upload-statement                                                  *)

(* the two looks of statement_duplicate_response                           *)
Looks == {"queue", "books"}

(* mutant: the queue is not asked                                          *)
NotHeld(f, looks) == "books" \in looks => \A j \in RowsWith(f.bytes) : job[j].file.name = f.name

(* statement_duplicate_response: these bytes are neither in the queue nor  *)
(* held by a statement of another name, as far as the looks that answered  *)
(* can tell: one that raises is taken for "no duplicate"                   *)
NotADuplicate(f, looks) ==
  /\ "queue" \in looks => \A j \in Statements : phase[j] \in InFlight => job[j].file.bytes # f.bytes
  /\ "books" \in looks => \A j \in RowsWith(f.bytes) : job[j].file.name = f.name

(* replace_prior_statement_data runs in one go with the check; the scan    *)
(* that follows is awaited                                                 *)
Replaces(u, f) ==
  /\ DropCharges(ChargesOf(f.name)) /\ DropRows(RowsOf(f.name))
  /\ upload' = [upload EXCEPT ![u] = [at |-> "scanning", file |-> f]]
  /\ UNCHANGED <<phase, job>>

UploadChecks(u, f) ==
  /\ upload[u].at # "scanning" /\ NotADuplicate(f, Looks)
  /\ Replaces(u, f) /\ Whole

(* only the looks in "looks" answered                                      *)
UploadChecksBlind(u, f, looks) ==
  /\ upload[u].at # "scanning" /\ looks # Looks /\ NotADuplicate(f, looks)
  /\ Replaces(u, f)
  /\ left.halves > 0 /\ left' = [left EXCEPT !.halves = @ - 1]
  /\ UNCHANGED clean

(* the prior transactions are gone and the prior statements rows are not;  *)
(* no look need have answered                                              *)
UploadChecksHalf(u, f) ==
  /\ upload[u].at # "scanning"
  /\ DropCharges(ChargesOf(f.name))
  /\ UNCHANGED <<phase, job, stmt, upload>> /\ Half

(* the scan says this is no statement (400), these bytes have a statements *)
(* row by now (409), or the INSERT fails some other way (500)              *)
UploadRefused(u) ==
  /\ upload[u].at = "scanning"
  /\ upload' = [upload EXCEPT ![u] = Idle]
  /\ UNCHANGED <<phase, job, stmt, ledger>> /\ Whole

(* insert_statement_processing under statements_unique_hash                *)
OpensRow(u, j) ==
  /\ upload[u].at = "scanning" /\ NewJob(j)
  /\ RowsWith(upload[u].file.bytes) = {}
  /\ job' = [job EXCEPT ![j] = [kind |-> "statement", file |-> upload[u].file]]
  /\ UNCHANGED ledger

UploadAccepted(u, j) ==
  /\ OpensRow(u, j) /\ Q!Submit(j)
  /\ stmt' = [stmt EXCEPT ![j] = "processing"]
  /\ upload' = [upload EXCEPT ![u] = Idle] /\ Whole

(* the file store is unavailable: the row is closed, no job is queued      *)
UploadUnstored(u, j) ==
  /\ OpensRow(u, j)
  /\ stmt' = [stmt EXCEPT ![j] = "failed"]
  /\ upload' = [upload EXCEPT ![u] = Idle]
  /\ UNCHANGED phase /\ Whole

(* the statements row is there, the job row is not                         *)
UploadHalf(u, j) ==
  /\ OpensRow(u, j)
  /\ stmt' = [stmt EXCEPT ![j] = "processing"]
  /\ upload' = [upload EXCEPT ![u] = Idle]
  /\ UNCHANGED phase /\ Half

-----------------------------------------------------------------------------
(* The queue's side                                                        *)

StartJobs(S) == Q!Start(S) /\ UNCHANGED <<job, stmt, ledger, upload>> /\ Whole

(* a receipt job leaves statements and charges alone                       *)
ReceiptEnds(j) ==
  /\ job[j].kind = "receipt" /\ (Q!Finish(j) \/ Q!Yield(j) \/ Q!GiveUp(j))
  /\ UNCHANGED <<job, stmt, ledger, upload>> /\ Whole

Missing(j) == {c \in Content[job[j].file.bytes] : ledger[c] = 0}

(* mutant: transactions.statement_id without its foreign key               *)
Anything(j) == Missing(j)

(* rows of a statement that was deleted meanwhile break the foreign key    *)
Insertable(j) == IF stmt[j] = NoRow THEN {} ELSE Missing(j)

ImportRows(j, C) == ledger' = [c \in Charges |-> IF c \in C THEN j ELSE ledger[c]]

(* mutant: rows that could not be inserted are skipped                     *)
ImportWhatFits(j) ==
  /\ j \in Statements /\ Q!Finish(j)
  /\ ImportRows(j, Insertable(j)) /\ Close({j}, "imported")
  /\ UNCHANGED <<job, upload>> /\ Whole

(* run_statement_parse_job to its end, and mark_done                       *)
Import(j) ==
  /\ j \in Statements /\ Q!Finish(j)
  /\ Missing(j) = Insertable(j)
  /\ ImportRows(j, Missing(j)) /\ Close({j}, "imported")
  /\ UNCHANGED <<job, upload>> /\ Whole

(* it raised before it wrote anything; the row stays 'processing' while a  *)
(* retry is coming, _announce_final_failure closes it after the last one   *)
ParseFails(j) ==
  /\ j \in Statements
  /\ \/ Q!Yield(j) /\ UNCHANGED stmt
     \/ Q!GiveUp(j) /\ Close({j}, "failed")
  /\ UNCHANGED <<job, ledger, upload>> /\ Whole

(* an insert raised part way, or the write of the outcome was lost: the    *)
(* statement already reads imported and some charges are in                *)
ImportBreaks(j, C) ==
  /\ j \in Statements /\ C \subseteq Insertable(j)
  /\ ImportRows(j, C)
  /\ \/ Q!Yield(j) /\ Close({j}, "imported")
     \/ Q!GiveUp(j) /\ Close({j}, "failed")
  /\ left.halves > 0 /\ left' = [left EXCEPT !.halves = @ - 1]
  /\ UNCHANGED <<job, upload, clean>>

(* the job is failed, its statements row is not told                       *)
ParseFailsHalf(j) ==
  /\ j \in Statements /\ Q!GiveUp(j)
  /\ UNCHANGED <<job, stmt, ledger, upload>> /\ Half

-----------------------------------------------------------------------------
(* The job endpoints                                                       *)

(* mutant: the statements row is not closed                                *)
CancelOnly(j) == Q!Cancel(j) /\ UNCHANGED <<job, stmt, ledger, upload>> /\ Whole

CancelJob(j) ==
  /\ Q!Cancel(j)
  /\ Close({j} \cap Statements, "failed")
  /\ UNCHANGED <<job, ledger, upload>> /\ Whole

CancelHalf(j) ==
  /\ j \in Statements /\ Q!Cancel(j)
  /\ UNCHANGED <<job, stmt, ledger, upload>> /\ Half

RetryJob(j) == Q!Retry(j) /\ UNCHANGED <<job, stmt, ledger, upload>> /\ Whole

(* reroute_job_to_receipt: close the row, delete the job, queue a receipt  *)
Reroute(j, k) ==
  /\ j \in Statements /\ NewJob(k) /\ Q!Swap(j, k)
  /\ Close({j}, "failed")
  /\ job' = [job EXCEPT ![k] = [kind |-> "receipt", file |-> job[j].file]]
  /\ UNCHANGED <<ledger, upload>> /\ Whole

(* only the row was closed, or the receipt job is missing                  *)
RerouteHalf(j) ==
  /\ j \in Statements /\ phase[j] \in {"waiting", "failed"}
  /\ Close({j}, "failed")
  /\ UNCHANGED phase \/ Q!Refile(j)
  /\ UNCHANGED <<job, ledger, upload>> /\ Half

ClearJobs(p) ==
  /\ Q!InPhase(p) # {} /\ Q!Clear(p)
  /\ UNCHANGED <<job, stmt, ledger, upload>> /\ Whole

-----------------------------------------------------------------------------
(* The transactions page                                                   *)

(* delete_source_file: charges and statements rows in one transaction      *)
DeleteSourceFile(n) ==
  /\ ChargesOf(n) # {} \/ RowsOf(n) # {}
  /\ DropCharges(ChargesOf(n)) /\ DropRows(RowsOf(n))
  /\ UNCHANGED <<phase, job, upload>> /\ Whole

(* clear_all_source_files: returns early when there is no transaction      *)
ClearAllSourceFiles ==
  /\ \E c \in Charges : ledger[c] # 0
  /\ DropCharges(Charges) /\ DropRows(Jobs)
  /\ UNCHANGED <<phase, job, upload>> /\ Whole

-----------------------------------------------------------------------------
(* The lifespan's recovery: requeue_running_jobs, then                     *)
(* fail_orphaned_processing_statements. Requests in flight are gone.       *)
Restart ==
  /\ left.restarts > 0 /\ left' = [left EXCEPT !.restarts = @ - 1]
  /\ Q!Interrupt
  /\ stmt' = [j \in Jobs |->
       IF stmt[j] = "processing" /\ phase[j] \notin InFlight THEN "failed" ELSE stmt[j]]
  /\ upload' = [u \in Uploads |-> Idle]
  /\ clean' = TRUE
  /\ UNCHANGED <<job, ledger>>

(* the sweep raised: logged, and the server boots anyway                   *)
RestartUnswept ==
  /\ Q!Interrupt
  /\ upload' = [u \in Uploads |-> Idle]
  /\ UNCHANGED <<job, stmt, ledger>> /\ Half

-----------------------------------------------------------------------------
UploadActs ==
  \E u \in Uploads :
    \/ \E f \in File : \/ UploadChecks(u, f) \/ UploadChecksHalf(u, f)
                       \/ \E looks \in SUBSET Looks : UploadChecksBlind(u, f, looks)
    \/ UploadRefused(u)
    \/ \E j \in Jobs : UploadAccepted(u, j) \/ UploadUnstored(u, j) \/ UploadHalf(u, j)

QueueActs ==
  \/ \E S \in SUBSET Jobs : S # {} /\ StartJobs(S)
  \/ \E j \in Jobs : \/ Import(j) \/ ParseFails(j) \/ ParseFailsHalf(j) \/ ReceiptEnds(j)
                     \/ \E C \in SUBSET Charges : ImportBreaks(j, C)

UserActs ==
  \/ \E j \in Jobs : \/ CancelJob(j) \/ CancelHalf(j) \/ RetryJob(j) \/ RerouteHalf(j)
                     \/ \E k \in Jobs : Reroute(j, k)
  \/ \E p \in Q!Settled : ClearJobs(p)
  \/ \E n \in Names : DeleteSourceFile(n)
  \/ ClearAllSourceFiles

Next == UploadActs \/ QueueActs \/ UserActs \/ Restart \/ RestartUnswept

Spec == Init /\ [][Next]_vars

-----------------------------------------------------------------------------
(* Properties                                                              *)

(* No statement is left in 'processing' with nothing to finish it, unless  *)
(* a handler stopped half way and the server has not been restarted since  *)
(* (close_statement_row, fail_orphaned_processing_statements).             *)
ProcessingHasAJob ==
  /\ TypeOK
  /\ clean => \A j \in Jobs : stmt[j] = "processing" => phase[j] \in InFlight

(* A charge in the books always has its statement behind it: a job whose   *)
(* statement was replaced or deleted while it ran cannot bring back the    *)
(* rows the user got rid of (replace_prior_statement_data).                *)
ChargesHaveTheirStatement ==
  \A c \in Charges : ledger[c] # 0 => stmt[ledger[c]] # NoRow

(* A job reported done has every charge its file holds in the books, its   *)
(* own or an earlier file's.                                               *)
DoneIsImported ==
  [][\A j \in Statements :
       phase[j] = "active" /\ phase'[j] = "done"
         => \A c \in Content[job[j].file.bytes] : ledger'[c] # 0]_vars

(* "an identical file dropped twice while the first copy is still queued   *)
(* must not delete the in-flight statements row"                           *)
(* (statement_duplicate_response), with uploads in flight together. The    *)
(* one exception the code makes: the look in the queue raised, and the     *)
(* file is taken for a new one.                                            *)
IdenticalDropKeepsRow ==
  [][\A j \in Statements, u \in Uploads :
       (phase[j] \in InFlight /\ stmt[j] # NoRow /\ stmt'[j] = NoRow
        /\ upload'[u].at = "scanning" /\ upload[u] # upload'[u])
         => \/ upload'[u].file.bytes # job[j].file.bytes
            \/ \E looks \in SUBSET {"books"} : UploadChecksBlind(u, upload'[u].file, looks)]_vars
=============================================================================
