---------------------------- MODULE ReceiptIntake ----------------------------
(***************************************************************************)
(* A receipt from the drop zone to its documents row: the duplicate checks *)
(* of POST /upload, the job, the extraction that stores what was read, the *)
(* user's corrections and the three ways to delete. A document is named by *)
(* the hash of its bytes: UNIQUE (user_id, file_hash).                     *)
(*                                                                         *)
(* The queue is JobLifecycle. Between two awaits a handler is one step; a  *)
(* "half" action is one whose next database transaction raises, or never   *)
(* comes because the process dies there (Restart next).                    *)
(***************************************************************************)
EXTENDS Integers, FiniteSets

CONSTANTS Jobs,      \* processing_jobs rows, in order of creation
          Slots,     \* LOCAL_LLM_MAX_CONCURRENT
          Uploads,   \* upload requests in flight together
          Bytes,     \* file contents, told apart by their SHA-256
          Pdfs,      \* those whose pages are counted before the job is queued
          MaxHalves, MaxRestarts   \* bounds: what may go wrong, and restarts

None == "none"

ASSUME JobsAssumption == Jobs \subseteq Nat \ {0} /\ IsFiniteSet(Jobs)
ASSUME PdfsAssumption == Pdfs \subseteq Bytes /\ None \notin Bytes
ASSUME BoundsAssumption == MaxHalves \in Nat /\ MaxRestarts \in Nat

VARIABLES
  phase,     \* JobLifecycle: the queue's view of each job
  job,       \* file_hash of each job
  doc,       \* documents: who the fields come from, and review_status
  processed, \* processed_files
  upload,    \* what each upload request is waiting for
  unrecorded, \* history: documents whose hash was lost, or went with statements
  unchecked, \* history: jobs queued or put back with no look for their twins
  together,  \* history: pairs of jobs, one queued while the other was counted
  left       \* what the bounds still allow

record == <<processed, unrecorded>>
history == <<unchecked, together>>
intake == <<phase, job, doc, record, upload, history, left>>

Q == INSTANCE JobLifecycle

NoDoc == [fields |-> None, review |-> None]
Reviews == {"auto_accepted", "pending", "flagged"}
Asking(where, b) == [at |-> where, bytes |-> b, twins |-> {}]
Idle == Asking("idle", None)

TypeOK ==
  /\ Q!TypeOK
  /\ job \in [Jobs -> Bytes \cup {None}]
  /\ doc \in [Bytes -> {NoDoc} \cup [fields : {"machine", "user"},
                                     review : Reviews \cup {"corrected"}]]
  /\ processed \subseteq Bytes /\ unrecorded \subseteq Bytes
  /\ upload \in [Uploads -> [at : {"idle", "sniffing", "counting", "counting blind"},
                             bytes : Bytes \cup {None}, twins : SUBSET Jobs]]
  /\ unchecked \subseteq Jobs /\ together \subseteq SUBSET Jobs
  /\ left \in [{"halves", "restarts"} -> Nat]

IntakeInit ==
  /\ Q!Init
  /\ job = [j \in Jobs |-> None]
  /\ doc = [b \in Bytes |-> NoDoc] /\ processed = {} /\ unrecorded = {}
  /\ upload = [u \in Uploads |-> Idle]
  /\ unchecked = {} /\ together = {}
  /\ left = [halves |-> MaxHalves, restarts |-> MaxRestarts]

Stored(b) == doc[b] # NoDoc
InFlight(b) == \E j \in Jobs : phase[j] \in {"waiting", "active"} /\ job[j] = b
NewJob(j) == job[j] = None /\ \A i \in Jobs : i < j => job[i] # None

Half == left.halves > 0 /\ left' = [left EXCEPT !.halves = @ - 1]
Whole == UNCHANGED left

-----------------------------------------------------------------------------
(* POST /upload                                                            *)
Queue(j, b) == NewJob(j) /\ Q!Submit(j) /\ job' = [job EXCEPT ![j] = b]
At(u, where, b) == upload' = [upload EXCEPT ![u] = Asking(where, b)]
Answer(u) == upload' = [upload EXCEPT ![u] = Idle]

(* Before the checks: the request was just dropped, or the auto zone has   *)
(* looked at the PDF in a thread and found that it is no statement.        *)
Enters(u, b) ==
  \/ upload[u] = Idle
  \/ upload[u] = Asking("sniffing", b)

Sniff(u, b) ==
  /\ upload[u] = Idle /\ b \in Pdfs
  /\ At(u, "sniffing", b)
  /\ UNCHANGED <<phase, job, doc, record, history>> /\ Whole

(* The PDF is a statement after all, and StatementImport has it from here; *)
(* or the file store is down, or the job cannot be inserted.               *)
LeaveOrFail(u) ==
  /\ upload[u] # Idle
  /\ Answer(u)
  /\ UNCHANGED <<phase, job, doc, record, history>> /\ Whole

(* mutant: only stored documents are duplicates                            *)
NotStored(b) == ~Stored(b)
NotADuplicate(b) == ~Stored(b) /\ ~InFlight(b)

Duplicate(u, b) ==
  /\ Enters(u, b) /\ upload[u] # Idle /\ ~NotADuplicate(b)
  /\ Answer(u)
  /\ UNCHANGED <<phase, job, doc, record, history>> /\ Whole

(* An image is queued in the same step as it is checked.                   *)
Accept(u, b, j) ==
  /\ Enters(u, b) /\ b \notin Pdfs /\ NotADuplicate(b)
  /\ Queue(j, b) /\ Answer(u)
  /\ UNCHANGED <<doc, record, history>> /\ Whole

(* find_active_processing_job_by_hash raises, which reads as "not there".  *)
AcceptUnchecked(u, b, j) ==
  /\ Enters(u, b) /\ b \notin Pdfs /\ ~Stored(b)
  /\ Queue(j, b) /\ Answer(u)
  /\ unchecked' = unchecked \cup {j}
  /\ UNCHANGED <<doc, record, together>> /\ Half

(* The pages of a PDF are counted in a thread, after the checks, of which  *)
(* the look at the jobs in flight may have raised.                         *)
CountPages(u, b) ==
  /\ Enters(u, b) /\ b \in Pdfs /\ NotADuplicate(b)
  /\ At(u, "counting", b)
  /\ UNCHANGED <<phase, job, doc, record, history>> /\ Whole

CountPagesUnchecked(u, b) ==
  /\ Enters(u, b) /\ b \in Pdfs /\ ~Stored(b)
  /\ At(u, "counting blind", b)
  /\ UNCHANGED <<phase, job, doc, record, history>> /\ Half

(* Requests that are still counting the same pages do not look again.      *)
AcceptPdf(u, j) ==
  LET b == upload[u].bytes
  IN /\ upload[u].at \in {"counting", "counting blind"}
     /\ Queue(j, b)
     /\ upload' = [v \in Uploads |-> IF v = u THEN Idle
                      ELSE IF upload[v].at = "counting" /\ upload[v].bytes = b
                      THEN [upload[v] EXCEPT !.twins = @ \cup {j}] ELSE upload[v]]
     /\ together' = together \cup {{i, j} : i \in upload[u].twins}
     /\ unchecked' = IF upload[u].at = "counting" THEN unchecked ELSE unchecked \cup {j}
     /\ UNCHANGED <<doc, record>> /\ Whole

(* A statement upload re-filed as a receipt: no duplicate check at all.    *)
RefiledHere(b, j) ==
  /\ b \in Pdfs /\ Queue(j, b)
  /\ unchecked' = unchecked \cup {j}
  /\ UNCHANGED <<doc, record, upload, together>> /\ Whole

-----------------------------------------------------------------------------
(* The queue's side                                                        *)
Steps(S) == Q!Start(S) /\ UNCHANGED <<job, doc, record, upload, history>> /\ Whole

Record(b) == processed' = processed \cup {b} /\ unrecorded' = unrecorded \ {b}

(* insert_document: a row that is there already only has its updated_at    *)
(* touched, and it is the row the verdict is then written to.              *)
Written(b, review) ==
  IF Stored(b) THEN [doc EXCEPT ![b].review = review]
  ELSE [doc EXCEPT ![b] = [fields |-> "machine", review |-> review]]

(* process_receipt_document, after its one await                           *)
Extracted(j, review) ==
  /\ Q!Finish(j)
  /\ Record(job[j])
  /\ doc' = Written(job[j], review)
  /\ UNCHANGED <<job, upload, history>> /\ Whole

NotFinancial(j) ==
  /\ Q!Finish(j)
  /\ Record(job[j])
  /\ UNCHANGED <<job, doc, upload, history>> /\ Whole

(* The row as insert_document leaves it, before the verdict is written.    *)
Inserted(b) ==
  IF Stored(b) THEN doc ELSE [doc EXCEPT ![b] = [fields |-> "machine", review |-> "pending"]]

(* The job is not done: mark_done raised, or one of the writes before it.  *)
ExtractedHalf(j, review) ==
  /\ phase[j] = "active"
  /\ Record(job[j])
  /\ doc' \in {doc, Inserted(job[j]), Written(job[j], review)}
  /\ unchecked' = unchecked \cup {j}
  /\ UNCHANGED <<phase, job, upload, together>> /\ Half

(* The UPDATE of review_status raised, which is only logged.               *)
ExtractedUnjudged(j) ==
  /\ Q!Finish(j)
  /\ Record(job[j])
  /\ doc' = Inserted(job[j])
  /\ UNCHANGED <<job, upload, history>> /\ Half

(* insert_processed_file raised, which is only logged.                     *)
ExtractedUnrecorded(j, review) ==
  /\ Q!Finish(j)
  /\ doc' = Written(job[j], review)
  /\ unrecorded' = unrecorded \cup {job[j]}
  /\ UNCHANGED <<job, processed, upload, history>> /\ Half

Fails(j) ==
  /\ Q!Yield(j) \/ Q!GiveUp(j)
  /\ UNCHANGED <<job, doc, record, upload, history>> /\ Whole

(* POST /jobs/{id}/retry and cancel, which know nothing of duplicates      *)
Retry(j) ==
  /\ Q!Retry(j) /\ unchecked' = unchecked \cup {j}
  /\ UNCHANGED <<job, doc, record, upload, together>> /\ Whole

Cancel(j) == Q!Cancel(j) /\ UNCHANGED <<job, doc, record, upload, history>> /\ Whole

Restart ==
  /\ left.restarts > 0 /\ left' = [left EXCEPT !.restarts = @ - 1]
  /\ Q!Interrupt
  /\ upload' = [u \in Uploads |-> Idle]
  /\ UNCHANGED <<job, doc, record, history>>

-----------------------------------------------------------------------------
(* The user's verbs                                                        *)

(* PATCH /{id}/correct                                                     *)
Correct(b) ==
  /\ Stored(b) /\ doc' = [doc EXCEPT ![b] = [fields |-> "user", review |-> "corrected"]]
  /\ UNCHANGED <<phase, job, record, upload, history>> /\ Whole

Gone(S) ==
  /\ doc' = [b \in Bytes |-> IF b \in S THEN NoDoc ELSE doc[b]]
  /\ processed' = processed \ S /\ unrecorded' = unrecorded \ S
  /\ UNCHANGED <<phase, job, upload, history>> /\ Whole

Delete(b) == Stored(b) /\ Gone({b})

(* mutant: the hash goes, the document stays                               *)
ForgetHash(b) ==
  /\ b \in processed /\ processed' = processed \ {b}
  /\ UNCHANGED <<phase, job, doc, unrecorded, upload, history>> /\ Whole

(* DELETE /by-hash: the hash goes whether or not there was a document.     *)
DeleteByHash(b) == (Stored(b) \/ b \in processed) /\ Gone({b})

ClearAll ==
  LET S == {b \in Bytes : Stored(b)}
  IN S # {} /\ Gone(S)

(* The statements' side strikes rows of processed_files as well, receipts' *)
(* rows among them: all, when every statement is cleared; those of one name*)
(* when a statement of that name is deleted or replaced.                   *)
Strike(S) ==
  /\ S # {} /\ processed' = processed \ S
  /\ unrecorded' = unrecorded \cup {b \in S : Stored(b)}
  /\ UNCHANGED <<phase, job, doc, upload, history>> /\ Whole
StatementsCleared == Strike(processed)
SourceFileDeleted(S) == S \subseteq processed /\ Strike(S)

IntakeNext ==
  \/ \E u \in Uploads :
       \/ LeaveOrFail(u)
       \/ \E b \in Bytes : \/ Sniff(u, b) \/ Duplicate(u, b) \/ CountPages(u, b)
                           \/ CountPagesUnchecked(u, b)
                           \/ \E j \in Jobs : Accept(u, b, j) \/ AcceptUnchecked(u, b, j)
       \/ \E j \in Jobs : AcceptPdf(u, j)
  \/ \E S \in SUBSET Jobs : Steps(S)
  \/ \E j \in Jobs :
       \/ Fails(j) \/ Retry(j) \/ Cancel(j) \/ NotFinancial(j) \/ ExtractedUnjudged(j)
       \/ \E r \in Reviews : Extracted(j, r) \/ ExtractedHalf(j, r) \/ ExtractedUnrecorded(j, r)
  \/ \E b \in Bytes : \/ Correct(b) \/ Delete(b) \/ DeleteByHash(b)
                      \/ \E j \in Jobs : RefiledHere(b, j)
  \/ ClearAll \/ StatementsCleared \/ \E S \in SUBSET Bytes : SourceFileDeleted(S)

-----------------------------------------------------------------------------
(* Dropping the same file twice reads it once: two jobs of the same bytes  *)
(* are in the queue together only if one was let in, or put back half done,*)
(* without a look for the other, or one was inserted while the pages of the*)
(* other were being counted, after its look.                               *)
OneJobPerContent ==
  \A i, j \in Jobs :
     /\ i # j /\ job[i] = job[j] /\ job[i] # None
     /\ {phase[i], phase[j]} \subseteq {"waiting", "active"}
     => {i, j} \in together \/ {i, j} \cap unchecked # {}

(* Some job of these bytes slipped past the looks above.                   *)
ReadTwice(b) == \E j \in Jobs : job[j] = b /\ (j \in unchecked \/ \E p \in together : j \in p)

(* What the user corrected reads as corrected. The verdict of a reading is *)
(* written over it only if a second job of the same bytes slipped in.      *)
CorrectionReads ==
  \A b \in Bytes : doc[b].fields = "user" => doc[b].review = "corrected" \/ ReadTwice(b)

(* Whoever asks processed_files about a document's bytes is told so, but   *)
(* for a lost write and what went with the statements: no delete, re-upload*)
(* or second reading parts the two.                                        *)
DocumentsAreOnRecord == \A b \in Bytes : Stored(b) => b \in processed \cup unrecorded

(* Rows are of their types, and what is known of a document stays known.   *)
DocumentsStand == TypeOK /\ CorrectionReads /\ DocumentsAreOnRecord
=============================================================================
