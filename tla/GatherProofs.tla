---------------------------- MODULE GatherProofs ----------------------------
(***************************************************************************)
(* What the receipts intake and the mailbox scan guarantee for any number  *)
(* of jobs, uploads, contents, items, scans and failures. IntakeInv keeps  *)
(* apart what the upload requests and the queue share (JobsInv), what      *)
(* becomes of the rows they store (DocsInv) and of two jobs of the same    *)
(* bytes (TwinsInv); ScanInv adds what a scan that was not cut off has put *)
(* on disk and in its log.                                                 *)
(***************************************************************************)
EXTENDS Gather, ReceiptPages, FiniteSetTheorems, WellFoundedInduction, TLAPS

Docs == {NoDoc} \cup [fields : {"machine", "user"}, review : Reviews \cup {"corrected"}]
Asks == [at : {"idle", "sniffing", "counting", "counting blind"}, bytes : Bytes \cup {None},
         twins : SUBSET Jobs]
Budget == [{"halves", "restarts"} -> Nat]
Queued == {"waiting", "active"}

(* A job that is there has bytes, and pages are counted of PDFs only.      *)
JobsInv ==
  /\ phase \in [Jobs -> Q!Phases] /\ job \in [Jobs -> Bytes \cup {None}]
  /\ upload \in [Uploads -> Asks] /\ unchecked \subseteq Jobs /\ together \subseteq SUBSET Jobs
  /\ \A j \in Jobs : phase[j] # "absent" => job[j] # None
  /\ \A u \in Uploads : upload[u].at \in {"counting", "counting blind"} => upload[u].bytes \in Pdfs

DocsInv ==
  /\ doc \in [Bytes -> Docs] /\ processed \subseteq Bytes /\ unrecorded \subseteq Bytes
  /\ left \in Budget /\ left.halves <= MaxHalves /\ left.restarts <= MaxRestarts
  /\ DocumentsAreOnRecord

(* Jobs and documents of the bytes a request is counting came after its    *)
(* look, or with none.                                                     *)
Since(u) == unchecked \cup upload[u].twins
Looked(u) ==
  upload[u].at = "counting" =>
    /\ \A i \in Jobs : job[i] = upload[u].bytes /\ phase[i] \in Queued => i \in Since(u)
    /\ Stored(upload[u].bytes) => \E i \in Jobs : job[i] = upload[u].bytes /\ i \in Since(u)

(* A job finds its bytes stored only if a second one slipped in.           *)
ReadsOnce(j) == phase[j] \in Queued /\ Stored(job[j]) => ReadTwice(job[j])

TwinsInv ==
  /\ \A u \in Uploads : Looked(u)
  /\ \A j \in Jobs : ReadsOnce(j)
  /\ OneJobPerContent /\ CorrectionReads

IntakeInv == JobsInv /\ DocsInv /\ TwinsInv

LEMMA InvIsTyped == IntakeInv => TypeOK
BY DEF IntakeInv, JobsInv, DocsInv, TypeOK, Q!TypeOK, Docs, Asks, Budget

LEMMA InitIntake == IntakeInit => IntakeInv
<1> SUFFICES ASSUME IntakeInit PROVE IntakeInv
  OBVIOUS
<1>1. JobsInv
  BY DEF IntakeInit, Q!Init, Q!Phases, JobsInv, Asks, Idle, Asking
<1>2. DocsInv
  BY BoundsAssumption DEF IntakeInit, DocsInv, DocumentsAreOnRecord, Docs, NoDoc, Budget, Stored, None
<1>3. TwinsInv
  BY DEF IntakeInit, Q!Init, TwinsInv, Looked, ReadsOnce, OneJobPerContent, CorrectionReads, Queued, Idle,
         Asking, NoDoc, None
<1>4. QED
  BY <1>1, <1>2, <1>3 DEF IntakeInv

-----------------------------------------------------------------------------
(* The jobs and the requests                                               *)

LEMMA AsksAreTyped ==
  /\ Idle \in Asks /\ Idle.at = "idle"
  /\ \A b \in Bytes, w \in {"sniffing", "counting", "counting blind"} :
        Asking(w, b) \in Asks /\ Asking(w, b).at = w /\ Asking(w, b).bytes = b
BY DEF Idle, Asks, Asking

(* No step but an upload and a re-filing brings a new job into the queue.  *)
LEMMA JobsAdvance ==
  ASSUME JobsInv, phase' \in [Jobs -> Q!Phases],
         \A j \in Jobs : phase[j] = "absent" => phase'[j] = "absent",
         UNCHANGED <<job, together>>, unchecked' \subseteq Jobs,
         UNCHANGED upload \/ upload' = [u \in Uploads |-> Idle]
  PROVE  JobsInv'
<1>1. \/ upload' = upload
      \/ upload' \in [Uploads -> Asks] /\ \A u \in Uploads : upload'[u].at = "idle"
  <2>1. CASE upload' = [u \in Uploads |-> Idle]
    BY <2>1, AsksAreTyped
  <2>2. QED
    BY <2>1
<1>2. /\ upload' \in [Uploads -> Asks]
      /\ \A u \in Uploads : upload'[u].at \in {"counting", "counting blind"} => upload'[u].bytes \in Pdfs
  BY <1>1 DEF JobsInv
<1>3. QED
  BY <1>2 DEF JobsInv

LEMMA UploadsAsk ==
  ASSUME JobsInv, UNCHANGED <<phase, job, history>>, NEW u \in Uploads, NEW a \in Asks,
         a.at \in {"counting", "counting blind"} => a.bytes \in Pdfs, upload' = [upload EXCEPT ![u] = a]
  PROVE  JobsInv'
BY DEF JobsInv, history

LEMMA JobJoins ==
  ASSUME JobsInv, NEW b \in Bytes, NEW j \in Jobs, Queue(j, b),
         unchecked' \subseteq Jobs, together' \subseteq SUBSET Jobs, upload' \in [Uploads -> Asks],
         \A u \in Uploads : upload'[u].at \in {"counting", "counting blind"} => upload'[u].bytes \in Pdfs
  PROVE  JobsInv'
<1>1. /\ phase[j] = "absent" /\ phase' = [i \in Jobs |-> IF i = j THEN "waiting" ELSE phase[i]]
      /\ job[j] = None /\ job' = [job EXCEPT ![j] = b]
  BY DEF Queue, NewJob, Q!Submit, Q!Become
<1>2. QED
  BY <1>1, PdfsAssumption DEF JobsInv, Q!Phases

LEMMA RequestsKeepJobs ==
  ASSUME JobsInv, NEW u \in Uploads,
         \/ LeaveOrFail(u)
         \/ \E b \in Bytes : Sniff(u, b) \/ Duplicate(u, b) \/ CountPages(u, b) \/ CountPagesUnchecked(u, b)
  PROVE  JobsInv'
<1>1. CASE LeaveOrFail(u) \/ \E b \in Bytes : Duplicate(u, b)
  BY <1>1, AsksAreTyped, UploadsAsk DEF LeaveOrFail, Duplicate, Answer
<1>2. ASSUME NEW b \in Bytes, Sniff(u, b) \/ CountPages(u, b) \/ CountPagesUnchecked(u, b) PROVE JobsInv'
  <2>1. /\ b \in Pdfs /\ UNCHANGED <<phase, job, history>>
        /\ \E w \in {"sniffing", "counting", "counting blind"} : upload' = [upload EXCEPT ![u] = Asking(w, b)]
    BY <1>2 DEF Sniff, CountPages, CountPagesUnchecked, At
  <2>2. PICK w \in {"sniffing", "counting", "counting blind"} : upload' = [upload EXCEPT ![u] = Asking(w, b)]
    BY <2>1
  <2>3. Asking(w, b) \in Asks /\ Asking(w, b).bytes = b
    BY AsksAreTyped
  <2>4. QED
    BY <2>1, <2>2, <2>3, UploadsAsk
<1>3. QED
  BY <1>1, <1>2

LEMMA PdfJoins ==
  ASSUME JobsInv, NEW u \in Uploads, NEW j \in Jobs, AcceptPdf(u, j)
  PROVE  /\ upload[u].bytes \in Bytes /\ upload[u].bytes \in Pdfs /\ upload[u].twins \subseteq Jobs
         /\ unchecked' \subseteq Jobs /\ unchecked \subseteq unchecked'
         /\ together' \subseteq SUBSET Jobs /\ together \subseteq together'
         /\ upload' \in [Uploads -> Asks]
         /\ \A v \in Uploads :
              \/ upload'[v].at = "idle"
              \/ /\ upload'[v].at = upload[v].at /\ upload'[v].bytes = upload[v].bytes
                 /\ upload'[v].twins = IF upload[v].at = "counting" /\ upload[v].bytes = upload[u].bytes
                                       THEN upload[v].twins \cup {j} ELSE upload[v].twins
<1>1. upload[u] \in Asks /\ upload[u].bytes \in Pdfs
  BY DEF JobsInv, AcceptPdf
<1>2. upload[u].twins \subseteq Jobs /\ upload[u].bytes \in Bytes
  BY <1>1, PdfsAssumption DEF Asks
<1>3. ASSUME NEW v \in Uploads
      PROVE  /\ upload'[v] \in Asks
             /\ \/ upload'[v].at = "idle"
                \/ /\ upload'[v].at = upload[v].at /\ upload'[v].bytes = upload[v].bytes
                   /\ upload'[v].twins = IF upload[v].at = "counting" /\ upload[v].bytes = upload[u].bytes
                                         THEN upload[v].twins \cup {j} ELSE upload[v].twins
  <2>1. upload'[v] = IF v = u THEN Idle
                     ELSE IF upload[v].at = "counting" /\ upload[v].bytes = upload[u].bytes
                     THEN [upload[v] EXCEPT !.twins = upload[v].twins \cup {j}] ELSE upload[v]
    BY DEF AcceptPdf
  <2>2. upload[v] \in Asks
    BY DEF JobsInv
  <2>3. CASE v # u /\ upload[v].at = "counting" /\ upload[v].bytes = upload[u].bytes
    <3>1. upload'[v] = [upload[v] EXCEPT !.twins = upload[v].twins \cup {j}]
      BY <2>1, <2>3
    <3>2. upload[v].twins \cup {j} \in SUBSET Jobs
      BY <2>2 DEF Asks
    <3>3. /\ upload'[v] \in Asks /\ upload'[v].twins = upload[v].twins \cup {j}
          /\ upload'[v].at = upload[v].at /\ upload'[v].bytes = upload[v].bytes
      BY <2>2, <3>1, <3>2 DEF Asks
    <3>4. QED
      BY <2>3, <3>3
  <2>4. CASE v = u
    BY <2>1, <2>4, AsksAreTyped
  <2>5. CASE v # u /\ ~(upload[v].at = "counting" /\ upload[v].bytes = upload[u].bytes)
    BY <2>1, <2>2, <2>5
  <2>6. QED
    BY <2>3, <2>4, <2>5
<1>4. upload' \in [Uploads -> Asks]
  <2>1. upload' = [v \in Uploads |-> upload'[v]]
    BY DEF AcceptPdf
  <2>2. QED
    BY <1>3, <2>1
<1>5. together' \subseteq SUBSET Jobs /\ unchecked' \subseteq Jobs
  <2>1. together' = together \cup {{i, j} : i \in upload[u].twins} /\ unchecked' \in {unchecked, unchecked \cup {j}}
    BY DEF AcceptPdf
  <2>2. {{i, j} : i \in upload[u].twins} \subseteq SUBSET Jobs
    BY <1>2
  <2>3. QED
    BY <2>1, <2>2 DEF JobsInv
<1>6. QED
  BY <1>1, <1>2, <1>3, <1>4, <1>5 DEF AcceptPdf

LEMMA ArrivalsKeepJobs ==
  ASSUME JobsInv, NEW j \in Jobs,
         \/ \E u \in Uploads, b \in Bytes : Accept(u, b, j) \/ AcceptUnchecked(u, b, j)
         \/ \E u \in Uploads : AcceptPdf(u, j)
         \/ \E b \in Bytes : RefiledHere(b, j)
  PROVE  JobsInv'
<1>1. ASSUME NEW u \in Uploads, NEW b \in Bytes, Accept(u, b, j) \/ AcceptUnchecked(u, b, j)
      PROVE  JobsInv'
  <2>1. /\ Queue(j, b) /\ upload' = [upload EXCEPT ![u] = Idle] /\ UNCHANGED together
        /\ unchecked' \in {unchecked, unchecked \cup {j}}
    BY <1>1 DEF Accept, AcceptUnchecked, Answer, history
  <2>2. upload' \in [Uploads -> Asks]
    BY <2>1, AsksAreTyped DEF JobsInv
  <2>3. unchecked' \subseteq Jobs /\ together' \subseteq SUBSET Jobs
    BY <2>1 DEF JobsInv
  <2>4. \A v \in Uploads : upload'[v].at \in {"counting", "counting blind"} => upload'[v].bytes \in Pdfs
    <3>1. ASSUME NEW v \in Uploads PROVE upload'[v] \in {upload[v], Idle}
      <4>1. upload \in [Uploads -> Asks]
        BY DEF JobsInv
      <4>2. QED
        BY <2>1, <4>1
    <3>2. Idle.at = "idle"
      BY AsksAreTyped
    <3>3. ASSUME NEW v \in Uploads, upload'[v].at \in {"counting", "counting blind"}
          PROVE  upload'[v].bytes \in Pdfs
      <4>1. upload'[v] = upload[v]
        BY <3>1, <3>2, <3>3
      <4>2. QED
        BY <3>3, <4>1 DEF JobsInv
    <3>4. QED
      BY <3>3
  <2>5. QED
    BY <2>1, <2>2, <2>3, <2>4, JobJoins
<1>2. ASSUME NEW u \in Uploads, AcceptPdf(u, j) PROVE JobsInv'
  <2>1. \A v \in Uploads : upload'[v].at \in {"counting", "counting blind"} => upload'[v].bytes \in Pdfs
    BY <1>2, PdfJoins DEF JobsInv
  <2>2. Queue(j, upload[u].bytes)
    BY <1>2 DEF AcceptPdf
  <2>3. QED
    BY <1>2, <2>1, <2>2, PdfJoins, JobJoins
<1>3. ASSUME NEW b \in Bytes, RefiledHere(b, j) PROVE JobsInv'
  BY <1>3, JobJoins DEF RefiledHere, JobsInv
<1>4. QED
  BY <1>1, <1>2, <1>3

(* The queue's steps change no bytes and bring in nothing new.             *)
LEMMA QueueKeepsJobs ==
  ASSUME JobsInv,
         \/ Restart \/ \E S \in SUBSET Jobs : Steps(S)
         \/ \E j \in Jobs : \/ Fails(j) \/ Cancel(j) \/ Retry(j) \/ NotFinancial(j) \/ ExtractedUnjudged(j)
                            \/ \E r \in Reviews : Extracted(j, r) \/ ExtractedUnrecorded(j, r)
  PROVE  /\ JobsInv' /\ UNCHANGED <<job, together>> /\ unchecked \subseteq unchecked'
         /\ UNCHANGED upload \/ upload' = [u \in Uploads |-> Idle]
         /\ \A i \in Jobs : phase'[i] \in Queued => phase[i] \in Queued \/ i \in unchecked'
<1> USE DEF Q!Become, Q!InPhase, Q!Phases, Queued, history
<1> DEFINE Advances == /\ phase' \in [Jobs -> Q!Phases] /\ UNCHANGED <<job, together>>
                       /\ \A i \in Jobs : phase[i] = "absent" => phase'[i] = "absent"
                       /\ unchecked' \subseteq Jobs /\ unchecked \subseteq unchecked'
                       /\ UNCHANGED upload \/ upload' = [u \in Uploads |-> Idle]
                       /\ \A i \in Jobs : phase'[i] \in Queued => phase[i] \in Queued \/ i \in unchecked'
<1>1. CASE Restart
  BY <1>1, JobsAdvance DEF Restart, Q!Interrupt, JobsInv
<1>2. ASSUME NEW S \in SUBSET Jobs, Steps(S) PROVE Advances
  BY <1>2 DEF Steps, Q!Start, JobsInv
<1>3. ASSUME NEW j \in Jobs, Cancel(j) PROVE Advances
  BY <1>3 DEF Cancel, Q!Cancel, JobsInv
<1>4. ASSUME NEW j \in Jobs, Fails(j) PROVE Advances
  BY <1>4 DEF Fails, Q!Yield, Q!GiveUp, JobsInv
<1>5. ASSUME NEW j \in Jobs, Retry(j) PROVE Advances
  BY <1>5 DEF Retry, Q!Retry, JobsInv
<1>6. ASSUME NEW j \in Jobs,
             \/ NotFinancial(j) \/ ExtractedUnjudged(j)
             \/ \E r \in Reviews : Extracted(j, r) \/ ExtractedUnrecorded(j, r)
      PROVE  Advances
  <2>1. Q!Finish(j) /\ UNCHANGED <<job, upload, history>>
    BY <1>6 DEF NotFinancial, ExtractedUnjudged, Extracted, ExtractedUnrecorded
  <2>2. QED
    BY <2>1 DEF Q!Finish, JobsInv
<1>7. Advances
  BY <1>1, <1>2, <1>3, <1>4, <1>5, <1>6 DEF Restart, Q!Interrupt, JobsInv
<1>8. QED
  BY <1>7, JobsAdvance

-----------------------------------------------------------------------------
(* The documents                                                           *)

LEMMA Spending ==
  ASSUME DocsInv, Half \/ Whole
  PROVE  left' \in Budget /\ left'.halves <= MaxHalves /\ left'.restarts <= MaxRestarts
BY BoundsAssumption DEF DocsInv, Budget, Half, Whole

(* Whatever leaves the rows alone, and forgets no hash of theirs.          *)
LEMMA DocsStay ==
  ASSUME DocsInv, UNCHANGED doc, processed' \subseteq Bytes, unrecorded' \subseteq Bytes,
         \A b \in Bytes : b \in processed \cup unrecorded /\ Stored(b) => b \in processed' \cup unrecorded',
         Half \/ Whole
  PROVE  DocsInv'
<1>1. DocumentsAreOnRecord'
  BY DEF DocsInv, DocumentsAreOnRecord, Stored
<1>2. QED
  BY <1>1, Spending DEF DocsInv

(* A row that was there keeps its fields, a new one is the machine's.      *)
LEMMA RowsStored ==
  ASSUME doc \in [Bytes -> Docs], NEW b \in Bytes, NEW r \in Reviews
  PROVE  /\ \A d \in {Inserted(b), Written(b, r)} :
              d \in [Bytes -> Docs] /\ d[b] # NoDoc /\ \A c \in Bytes \ {b} : d[c] = doc[c]
         /\ Stored(b) => Inserted(b) = doc /\ Written(b, r)[b].fields = doc[b].fields
         /\ ~Stored(b) => Inserted(b)[b].fields = "machine" /\ Written(b, r)[b].fields = "machine"
<1>1. doc[b] \in Docs /\ doc \in [Bytes -> Docs] /\ "pending" \in Reviews
  BY DEF Reviews
<1>2. CASE Stored(b)
  <2>1. [doc[b] EXCEPT !.review = r] \in Docs /\ [doc[b] EXCEPT !.review = r] # NoDoc
        /\ [doc[b] EXCEPT !.review = r].fields = doc[b].fields
    BY <1>1, <1>2 DEF Docs, Stored, Reviews, NoDoc, None
  <2>2. /\ Inserted(b) = doc
        /\ Written(b, r) = [doc EXCEPT ![b] = [doc[b] EXCEPT !.review = r]]
    BY <1>2 DEF Inserted, Written
  <2>3. QED
    BY <1>1, <1>2, <2>1, <2>2 DEF Stored
<1>3. CASE ~Stored(b)
  <2>1. \A q \in Reviews : /\ [fields |-> "machine", review |-> q] \in Docs
                           /\ [fields |-> "machine", review |-> q] # NoDoc
    BY DEF Docs, NoDoc, None
  <2>2. /\ Inserted(b) = [doc EXCEPT ![b] = [fields |-> "machine", review |-> "pending"]]
        /\ Written(b, r) = [doc EXCEPT ![b] = [fields |-> "machine", review |-> r]]
    BY <1>3 DEF Inserted, Written
  <2>3. QED
    BY <1>1, <1>3, <2>1, <2>2
<1>4. QED
  BY <1>2, <1>3

(* What a job does to the rows when it is read: only that of its own bytes *)
(* may change, and keeps whose fields it has.                              *)
LEMMA Reads ==
  ASSUME IntakeInv, NEW j \in Jobs,
         \/ NotFinancial(j) \/ ExtractedUnjudged(j)
         \/ \E r \in Reviews : Extracted(j, r) \/ ExtractedHalf(j, r) \/ ExtractedUnrecorded(j, r)
  PROVE  /\ phase[j] = "active" /\ job[j] \in Bytes
         /\ doc' \in [Bytes -> Docs] /\ \A c \in Bytes \ {job[j]} : doc'[c] = doc[c]
         /\ Stored(job[j]) => doc'[job[j]] # NoDoc /\ doc'[job[j]].fields = doc[job[j]].fields
         /\ ~Stored(job[j]) => doc'[job[j]].fields # "user"
         /\ DocsInv'
<1>1. phase[j] = "active" /\ job[j] \in Bytes /\ doc \in [Bytes -> Docs]
  BY DEF NotFinancial, ExtractedUnjudged, Extracted, ExtractedHalf, ExtractedUnrecorded, Q!Finish,
         IntakeInv, JobsInv, DocsInv
<1>2. PICK r \in Reviews : doc' \in {doc, Inserted(job[j]), Written(job[j], r)}
  BY DEF NotFinancial, ExtractedUnjudged, Extracted, ExtractedHalf, ExtractedUnrecorded, Reviews
<1>3. /\ doc' \in [Bytes -> Docs] /\ \A c \in Bytes \ {job[j]} : doc'[c] = doc[c]
      /\ Stored(job[j]) => doc'[job[j]] # NoDoc /\ doc'[job[j]].fields = doc[job[j]].fields
      /\ ~Stored(job[j]) => doc'[job[j]].fields # "user"
  BY <1>1, <1>2, RowsStored DEF Stored, NoDoc, None
<1>4. /\ \/ processed' = processed \cup {job[j]} /\ unrecorded' = unrecorded \ {job[j]}
         \/ processed' = processed /\ unrecorded' = unrecorded \cup {job[j]}
      /\ Half \/ Whole
  BY DEF NotFinancial, ExtractedUnjudged, Extracted, ExtractedHalf, ExtractedUnrecorded, Record
<1>5. DocumentsAreOnRecord'
  BY <1>3, <1>4 DEF IntakeInv, DocsInv, DocumentsAreOnRecord, Stored
<1>6. DocsInv'
  BY <1>1, <1>3, <1>4, <1>5, Spending DEF IntakeInv, DocsInv
<1>7. QED
  BY <1>1, <1>3, <1>6

(* The verbs: a row is the user's, or goes together with its hash.         *)
LEMMA RowsGone ==
  ASSUME DocsInv, NEW S \in SUBSET Bytes, Gone(S)
  PROVE  /\ DocsInv'
         /\ \A b \in Bytes : doc'[b] = doc[b] \/ doc'[b] = NoDoc
<1>1. /\ doc' \in [Bytes -> Docs] /\ UNCHANGED left
      /\ \A b \in Bytes : doc'[b] = IF b \in S THEN NoDoc ELSE doc[b]
  BY DEF DocsInv, Gone, Whole, Docs
<1>2. DocumentsAreOnRecord'
  BY <1>1 DEF DocsInv, DocumentsAreOnRecord, Stored, Gone
<1>3. QED
  BY <1>1, <1>2 DEF DocsInv, Gone

Verbs ==
  \/ ClearAll \/ StatementsCleared \/ \E S \in SUBSET Bytes : SourceFileDeleted(S)
  \/ \E b \in Bytes : Correct(b) \/ Delete(b) \/ DeleteByHash(b)

LEMMA VerbsKeepDocs ==
  ASSUME DocsInv, Verbs
  PROVE  /\ DocsInv' /\ UNCHANGED <<phase, job, upload, history>>
         /\ \A b \in Bytes : \/ doc'[b] \in {doc[b], NoDoc}
                             \/ Stored(b) /\ doc'[b].review = "corrected"
<1>1. ASSUME NEW b \in Bytes, Correct(b)
      PROVE  DocsInv' /\ \A c \in Bytes : doc'[c] = doc[c] \/ (Stored(c) /\ doc'[c].review = "corrected")
  <2> DEFINE d == [fields |-> "user", review |-> "corrected"]
  <2>1. d \in Docs /\ d.review = "corrected"
    BY DEF Docs
  <2> HIDE DEF d
  <2>2. /\ Stored(b) /\ doc' = [doc EXCEPT ![b] = d] /\ UNCHANGED <<processed, unrecorded, left>>
    BY <1>1 DEF Correct, Whole, d, record
  <2>3. DocumentsAreOnRecord'
    BY <2>2 DEF DocsInv, DocumentsAreOnRecord, Stored
  <2>4. QED
    BY <2>1, <2>2, <2>3 DEF DocsInv
<1>2. ASSUME NEW S \in SUBSET Bytes, Strike(S) PROVE DocsInv' /\ doc' = doc
  <2>1. /\ processed' = processed \ S /\ unrecorded' = unrecorded \cup {b \in S : Stored(b)}
        /\ UNCHANGED doc /\ Whole
    BY <1>2 DEF Strike
  <2>2. QED
    BY <2>1, DocsStay DEF DocsInv
<1>3. ASSUME StatementsCleared \/ \E S \in SUBSET Bytes : SourceFileDeleted(S)
      PROVE  DocsInv' /\ doc' = doc
  <2>1. processed \in SUBSET Bytes
    BY DEF DocsInv
  <2>2. \E S \in SUBSET Bytes : Strike(S)
    BY <1>3, <2>1 DEF StatementsCleared, SourceFileDeleted
  <2>3. QED
    BY <1>2, <2>2
<1>4. ASSUME ClearAll \/ \E b \in Bytes : Delete(b) \/ DeleteByHash(b)
      PROVE  DocsInv' /\ \A b \in Bytes : doc'[b] = doc[b] \/ doc'[b] = NoDoc
  <2>1. PICK S \in SUBSET Bytes : Gone(S)
    BY <1>4 DEF ClearAll, Delete, DeleteByHash
  <2>2. QED
    BY <2>1, RowsGone
<1>5. UNCHANGED <<phase, job, upload, history>>
  BY DEF Verbs, ClearAll, Correct, Delete, DeleteByHash, Gone, StatementsCleared, SourceFileDeleted,
         Strike, record
<1>6. QED
  BY <1>1, <1>3, <1>4, <1>5 DEF Verbs

Inquires(u) ==
  \/ LeaveOrFail(u)
  \/ \E b \in Bytes : Sniff(u, b) \/ Duplicate(u, b) \/ CountPages(u, b) \/ CountPagesUnchecked(u, b)
Arrives(j) ==
  \/ \E u \in Uploads, b \in Bytes : Accept(u, b, j) \/ AcceptUnchecked(u, b, j)
  \/ \E u \in Uploads : AcceptPdf(u, j)
  \/ \E b \in Bytes : RefiledHere(b, j)
Turns == \/ Restart \/ \E S \in SUBSET Jobs : Steps(S)
         \/ \E j \in Jobs : Fails(j) \/ Retry(j) \/ Cancel(j)

LEMMA OthersKeepDocs ==
  ASSUME DocsInv,
         \/ UNCHANGED intake \/ Turns
         \/ \E u \in Uploads : Inquires(u)
         \/ \E j \in Jobs : Arrives(j)
  PROVE  DocsInv' /\ UNCHANGED doc
<1>1. CASE Restart
  <2>1. UNCHANGED <<doc, processed, unrecorded>> /\ left' = [left EXCEPT !.restarts = left.restarts - 1]
        /\ left.restarts > 0
    BY <1>1 DEF Restart, record
  <2>2. /\ left' \in Budget /\ left'.halves = left.halves /\ left'.restarts <= MaxRestarts
    BY <2>1, BoundsAssumption DEF DocsInv, Budget
  <2>3. QED
    BY <2>1, <2>2 DEF DocsInv, DocumentsAreOnRecord, Stored
<1>2. CASE ~Restart
  <2>1. UNCHANGED <<doc, processed, unrecorded>> /\ (Half \/ Whole)
    BY <1>2 DEF intake, Turns, Inquires, Arrives, Steps, Fails, Retry, Cancel, LeaveOrFail, Sniff,
                Duplicate, CountPages, CountPagesUnchecked, Accept, AcceptUnchecked, AcceptPdf,
                RefiledHere, Whole, record
  <2>2. QED
    BY <2>1, DocsStay DEF DocsInv
<1>3. QED
  BY <1>1, <1>2

-----------------------------------------------------------------------------
(* Twins                                                                   *)

(* No new job, no new row: whatever was looked at stays so, and a request  *)
(* that begins to count has just looked.                                   *)
LEMMA QuietStep ==
  ASSUME JobsInv, JobsInv', TwinsInv, UNCHANGED <<job, together>>, unchecked \subseteq unchecked',
         \A i \in Jobs : phase'[i] \in Queued => phase[i] \in Queued \/ i \in unchecked',
         \A b \in Bytes : doc'[b] \in {doc[b], NoDoc} \/ (Stored(b) /\ doc'[b].review = "corrected"),
         \A u \in Uploads : \/ upload'[u] = upload[u] \/ upload'[u].at # "counting"
                            \/ ~Stored(upload'[u].bytes) /\ ~InFlight(upload'[u].bytes)
  PROVE  TwinsInv'
<1>1. ASSUME NEW b \in Bytes, Stored(b)' PROVE Stored(b)
  BY <1>1 DEF Stored
<1>2. ASSUME NEW b, ReadTwice(b) PROVE ReadTwice(b)'
  BY <1>2 DEF ReadTwice
<1>3. ASSUME NEW u \in Uploads, upload'[u].at = "counting" PROVE Looked(u)'
  <2>1. upload'[u].bytes \in Bytes
    BY <1>3, PdfsAssumption DEF JobsInv
  <2>2. CASE upload'[u] = upload[u]
    BY <1>1, <1>3, <2>1, <2>2 DEF TwinsInv, Looked, Since
  <2>3. CASE ~Stored(upload'[u].bytes) /\ ~InFlight(upload'[u].bytes)
    BY <1>1, <1>3, <2>1, <2>3 DEF TwinsInv, Looked, Since, InFlight, Queued
  <2>4. QED
    BY <1>3, <2>2, <2>3
<1>4. ASSUME NEW j \in Jobs PROVE ReadsOnce(j)'
  <2>1. ASSUME phase'[j] \in Queued, Stored(job[j])' PROVE ReadTwice(job[j])'
    <3>1. job[j] \in Bytes
      BY <2>1 DEF JobsInv, Queued
    <3>2. CASE j \in unchecked'
      BY <3>2 DEF ReadTwice
    <3>3. CASE phase[j] \in Queued
      BY <1>1, <1>2, <2>1, <3>1, <3>3 DEF TwinsInv, ReadsOnce
    <3>4. QED
      BY <2>1, <3>2, <3>3
  <2>2. QED
    BY <2>1 DEF ReadsOnce
<1>5. OneJobPerContent'
  BY DEF TwinsInv, OneJobPerContent, Queued
<1>6. CorrectionReads'
  <2>1. ASSUME NEW b \in Bytes, doc'[b].fields = "user" PROVE doc'[b].review = "corrected" \/ ReadTwice(b)'
    <3>1. CASE doc'[b] = doc[b]
      BY <1>2, <2>1, <3>1 DEF TwinsInv, CorrectionReads
    <3>2. CASE doc'[b] = NoDoc
      BY <2>1, <3>2 DEF NoDoc, None
    <3>3. QED
      BY <3>1, <3>2
  <2>2. QED
    BY <2>1 DEF CorrectionReads
<1>7. QED
  BY <1>3, <1>4, <1>5, <1>6 DEF TwinsInv, Looked

(* A job that joins the queue: one nobody looked for twins of, one that has*)
(* none, or one whose request has looked and then counted.                 *)
LEMMA JoinKeepsTwins ==
  ASSUME JobsInv, JobsInv', TwinsInv, NEW b \in Bytes, NEW j \in Jobs, Queue(j, b), UNCHANGED doc,
         unchecked \subseteq unchecked', together \subseteq together',
         \A v \in Uploads : upload'[v].at = "counting" =>
            /\ upload[v].at = "counting" /\ upload'[v].bytes = upload[v].bytes
            /\ upload[v].twins \subseteq upload'[v].twins
            /\ upload[v].bytes = b => j \in unchecked' \cup upload'[v].twins,
         \/ j \in unchecked'
         \/ ~Stored(b) /\ ~InFlight(b)
         \/ \E u \in Uploads : /\ upload[u].at = "counting" /\ upload[u].bytes = b
                                /\ \A i \in upload[u].twins : {i, j} \in together'
  PROVE  TwinsInv'
<1>1. /\ phase[j] = "absent" /\ phase' = [i \in Jobs |-> IF i = j THEN "waiting" ELSE phase[i]]
      /\ job[j] = None /\ job' = [job EXCEPT ![j] = b]
  BY DEF Queue, NewJob, Q!Submit, Q!Become
<1>2. b # None /\ \A i \in Jobs : /\ i # j => job'[i] = job[i] /\ phase'[i] = phase[i]
                                  /\ job[i] # None => i # j
  BY <1>1, PdfsAssumption DEF JobsInv
<1>3. job'[j] = b
  BY <1>1 DEF JobsInv
<1>4. ASSUME NEW c, c # None, ReadTwice(c) PROVE ReadTwice(c)'
  BY <1>2, <1>4 DEF ReadTwice
<1>5. ASSUME NEW v \in Uploads, upload'[v].at = "counting" PROVE Looked(v)'
  <2> DEFINE c == upload[v].bytes
  <2>1. /\ upload[v].at = "counting" /\ upload'[v].bytes = c /\ Looked(v) /\ c # None
        /\ Since(v) \subseteq Since(v)' /\ (c = b => j \in Since(v)')
    BY <1>5, PdfsAssumption DEF TwinsInv, Since, JobsInv
  <2>2. ASSUME NEW i \in Jobs, job'[i] = c, phase'[i] \in Queued PROVE i \in Since(v)'
    <3>1. CASE i = j
      BY <1>3, <2>1, <2>2, <3>1
    <3>2. CASE i # j
      BY <1>2, <2>1, <2>2, <3>2 DEF Looked
    <3>3. QED
      BY <3>1, <3>2
  <2>3. ASSUME Stored(c)' PROVE \E i \in Jobs : job'[i] = c /\ i \in Since(v)'
    <3>1. PICK i \in Jobs : job[i] = c /\ i \in Since(v)
      BY <2>1, <2>3 DEF Looked, Stored
    <3>2. QED
      BY <1>2, <2>1, <3>1
  <2>4. QED
    BY <2>1, <2>2, <2>3 DEF Looked
<1>6. ASSUME j \notin unchecked', NEW i \in Jobs, i # j, job[i] = b, phase[i] \in Queued
      PROVE  {i, j} \in together' \/ i \in unchecked'
  <2>1. InFlight(b)
    BY <1>6 DEF InFlight, Queued
  <2>2. PICK u \in Uploads : /\ upload[u].at = "counting" /\ upload[u].bytes = b
                             /\ \A k \in upload[u].twins : {k, j} \in together'
    BY <1>6, <2>1
  <2>3. i \in unchecked \cup upload[u].twins
    BY <1>6, <2>2 DEF TwinsInv, Looked, Since
  <2>4. QED
    BY <2>2, <2>3
<1>7. ASSUME Stored(b) PROVE ReadTwice(b)'
  <2>1. CASE j \in unchecked'
    BY <1>3, <2>1 DEF ReadTwice
  <2>2. CASE j \notin unchecked'
    <3>1. PICK u \in Uploads : /\ upload[u].at = "counting" /\ upload[u].bytes = b
                               /\ \A k \in upload[u].twins : {k, j} \in together'
      BY <1>7, <2>2
    <3>2. PICK i \in Jobs : job[i] = b /\ i \in unchecked \cup upload[u].twins
      BY <1>7, <3>1 DEF TwinsInv, Looked, Since
    <3>3. job'[i] = b /\ (i \in unchecked' \/ {i, j} \in together')
      BY <1>2, <3>1, <3>2
    <3>4. QED
      BY <3>3 DEF ReadTwice
  <2>3. QED
    BY <2>1, <2>2
<1>8. ASSUME NEW i \in Jobs PROVE ReadsOnce(i)'
  <2>1. CASE i = j
    BY <1>3, <1>7, <2>1 DEF ReadsOnce, Stored
  <2>2. CASE i # j
    <3>1. ASSUME phase'[i] \in Queued, Stored(job[i])' PROVE ReadTwice(job[i])'
      <4>1. phase[i] \in Queued /\ Stored(job[i]) /\ job[i] # None /\ job'[i] = job[i]
        BY <1>2, <2>2, <3>1 DEF Stored, JobsInv, Queued
      <4>2. ReadTwice(job[i])
        BY <4>1 DEF TwinsInv, ReadsOnce
      <4>3. QED
        BY <1>4, <4>1, <4>2
    <3>2. QED
      BY <3>1 DEF ReadsOnce, Stored
  <2>3. QED
    BY <2>1, <2>2
<1>9. OneJobPerContent'
  <2>1. ASSUME NEW i \in Jobs, NEW k \in Jobs, i # k, job'[i] = job'[k], job'[i] # None,
               phase'[i] \in Queued, phase'[k] \in Queued
        PROVE  {i, k} \in together' \/ {i, k} \cap unchecked' # {}
    <3>1. CASE i = j
      BY <1>2, <1>3, <1>6, <2>1, <3>1
    <3>2. CASE k = j
      BY <1>2, <1>3, <1>6, <2>1, <3>2
    <3>3. CASE i # j /\ k # j
      <4>1. /\ job[i] = job[k] /\ job[i] # None
            /\ {phase[i], phase[k]} \subseteq {"waiting", "active"}
        BY <1>2, <2>1, <3>3 DEF Queued
      <4>2. {i, k} \in together \/ {i, k} \cap unchecked # {}
        BY <2>1, <4>1 DEF TwinsInv, OneJobPerContent
      <4>3. QED
        BY <4>2
    <3>4. QED
      BY <3>1, <3>2, <3>3
  <2>2. QED
    BY <2>1 DEF OneJobPerContent, Queued
<1>10. CorrectionReads'
  BY <1>4, PdfsAssumption DEF TwinsInv, CorrectionReads
<1>11. QED
  BY <1>5, <1>8, <1>9, <1>10 DEF TwinsInv, Looked

LEMMA ArrivalsKeepTwins ==
  ASSUME JobsInv, JobsInv', TwinsInv, NEW j \in Jobs, Arrives(j), UNCHANGED doc
  PROVE  TwinsInv'
<1>1. ASSUME NEW u \in Uploads, NEW b \in Bytes, Accept(u, b, j) \/ AcceptUnchecked(u, b, j)
      PROVE  TwinsInv'
  <2>1. /\ Queue(j, b) /\ b \notin Pdfs /\ upload' = [upload EXCEPT ![u] = Idle] /\ UNCHANGED together
        /\ unchecked \subseteq unchecked' /\ (j \in unchecked' \/ (~Stored(b) /\ ~InFlight(b)))
    BY <1>1 DEF Accept, AcceptUnchecked, Answer, history, NotADuplicate
  <2>2. \A v \in Uploads : upload'[v].at = "counting" => upload'[v] = upload[v] /\ upload[v].bytes # b
    BY <2>1, AsksAreTyped DEF JobsInv
  <2>3. QED
    BY <2>1, <2>2, JoinKeepsTwins
<1>2. ASSUME NEW u \in Uploads, AcceptPdf(u, j) PROVE TwinsInv'
  <2>1. /\ Queue(j, upload[u].bytes)
        /\ upload[u].at # "counting" => j \in unchecked'
        /\ \A i \in upload[u].twins : {i, j} \in together'
    BY <1>2 DEF AcceptPdf
  <2>2. upload[u].bytes \in Bytes /\ unchecked \subseteq unchecked' /\ together \subseteq together'
    BY <1>2, PdfJoins
  <2>3. \A v \in Uploads : upload'[v].at = "counting" =>
           /\ upload[v].at = "counting" /\ upload'[v].bytes = upload[v].bytes
           /\ upload[v].twins \subseteq upload'[v].twins
           /\ upload[v].bytes = upload[u].bytes => j \in unchecked' \cup upload'[v].twins
    <3>1. ASSUME NEW v \in Uploads, upload'[v].at = "counting"
          PROVE  /\ upload[v].at = "counting" /\ upload'[v].bytes = upload[v].bytes
                 /\ upload[v].twins \subseteq upload'[v].twins
                 /\ upload[v].bytes = upload[u].bytes => j \in unchecked' \cup upload'[v].twins
      <4>1. /\ upload'[v].at = upload[v].at /\ upload'[v].bytes = upload[v].bytes
            /\ upload'[v].twins = IF upload[v].at = "counting" /\ upload[v].bytes = upload[u].bytes
                                  THEN upload[v].twins \cup {j} ELSE upload[v].twins
        BY <1>2, <3>1, PdfJoins
      <4>2. QED
        BY <3>1, <4>1
    <3>2. QED
      BY <3>1
  <2>4. QED
    BY <2>1, <2>2, <2>3, JoinKeepsTwins
<1>3. ASSUME NEW b \in Bytes, RefiledHere(b, j) PROVE TwinsInv'
  BY <1>3, JoinKeepsTwins DEF RefiledHere
<1>4. QED
  BY <1>1, <1>2, <1>3 DEF Arrives

(* A job is read: others of its bytes that are queued slipped in, and so   *)
(* did it if the row is there.                                             *)
LEMMA ReadingKeepsTwins ==
  ASSUME IntakeInv, JobsInv', UNCHANGED <<job, upload, together>>, unchecked \subseteq unchecked', NEW j \in Jobs,
         \/ NotFinancial(j) \/ ExtractedUnjudged(j)
         \/ \E r \in Reviews : Extracted(j, r) \/ ExtractedHalf(j, r) \/ ExtractedUnrecorded(j, r)
  PROVE  TwinsInv'
<1>0. /\ phase[j] = "active" /\ job[j] \in Bytes
      /\ \A c \in Bytes \ {job[j]} : doc'[c] = doc[c]
      /\ Stored(job[j]) => doc'[job[j]] # NoDoc /\ doc'[job[j]].fields = doc[job[j]].fields
      /\ ~Stored(job[j]) => doc'[job[j]].fields # "user"
  BY Reads
<1>1. /\ \A i \in Jobs : phase'[i] \in Queued => phase[i] \in Queued
      /\ phase'[j] \in Queued => j \in unchecked'
  <2>1. CASE Q!Finish(j)
    BY <2>1 DEF Q!Finish, Q!Become, Queued, IntakeInv, JobsInv
  <2>2. CASE \E r \in Reviews : ExtractedHalf(j, r)
    BY <2>2 DEF ExtractedHalf
  <2>3. QED
    BY <2>1, <2>2 DEF NotFinancial, ExtractedUnjudged, Extracted, ExtractedUnrecorded
<1>2. ASSUME NEW c, ReadTwice(c) PROVE ReadTwice(c)'
  BY <1>2 DEF ReadTwice
<1>3. ASSUME NEW u \in Uploads, upload'[u].at = "counting" PROVE Looked(u)'
  <2>1. upload[u].bytes \in Bytes /\ Looked(u) /\ Since(u) \subseteq Since(u)'
    BY <1>3, PdfsAssumption DEF IntakeInv, TwinsInv, JobsInv, Since
  <2>2. CASE upload[u].bytes = job[j]
    <3>1. j \in Since(u)
      BY <1>0, <1>3, <2>1, <2>2 DEF Looked, Queued
    <3>2. QED
      BY <1>1, <1>3, <2>1, <2>2, <3>1 DEF Looked
  <2>3. CASE upload[u].bytes # job[j]
    BY <1>0, <1>1, <1>3, <2>1, <2>3 DEF Looked, Stored
  <2>4. QED
    BY <2>2, <2>3
<1>4. ASSUME NEW i \in Jobs, phase'[i] \in Queued, Stored(job[i])' PROVE ReadTwice(job[i])'
  <2>1. phase[i] \in Queued /\ job[i] \in Bytes
    BY <1>1, <1>4 DEF IntakeInv, JobsInv, Queued
  <2>2. CASE i = j
    BY <1>1, <1>4, <2>2 DEF ReadTwice
  <2>3. CASE Stored(job[i])
    BY <1>2, <2>1, <2>3 DEF IntakeInv, TwinsInv, ReadsOnce
  <2>4. CASE i # j /\ ~Stored(job[i])
    <3>1. job[i] = job[j] /\ job[i] # None
      BY <1>0, <1>4, <2>1, <2>4, PdfsAssumption DEF Stored
    <3>2. {i, j} \in together \/ {i, j} \cap unchecked # {}
      BY <1>0, <2>1, <2>4, <3>1 DEF IntakeInv, TwinsInv, OneJobPerContent, Queued
    <3>3. ReadTwice(job[i])
      BY <3>1, <3>2 DEF ReadTwice
    <3>4. QED
      BY <1>2, <3>3
  <2>5. QED
    BY <2>2, <2>3, <2>4
<1>5. OneJobPerContent'
  BY <1>1 DEF IntakeInv, TwinsInv, OneJobPerContent, Queued
<1>6. ASSUME NEW b \in Bytes, doc'[b].fields = "user" PROVE doc'[b].review = "corrected" \/ ReadTwice(b)'
  <2>1. CASE b # job[j]
    BY <1>0, <1>2, <1>6, <2>1 DEF IntakeInv, TwinsInv, CorrectionReads
  <2>2. CASE b = job[j]
    <3>1. Stored(b)
      BY <1>0, <1>6, <2>2
    <3>2. ReadTwice(b)
      BY <1>0, <2>2, <3>1 DEF IntakeInv, TwinsInv, ReadsOnce, Queued
    <3>3. QED
      BY <1>2, <3>2
  <2>3. QED
    BY <2>1, <2>2
<1>7. QED
  BY <1>3, <1>4, <1>5, <1>6 DEF TwinsInv, Looked, ReadsOnce, CorrectionReads

-----------------------------------------------------------------------------
LEMMA IntakeStep ==
  ASSUME IntakeInv, IntakeNext \/ Restart \/ UNCHANGED intake
  PROVE  IntakeInv'
<1>t. JobsInv /\ DocsInv /\ TwinsInv
  BY DEF IntakeInv
<1>1. ASSUME NEW u \in Uploads, Inquires(u) PROVE IntakeInv'
  <2>1. JobsInv' /\ DocsInv' /\ UNCHANGED doc
    BY <1>t, <1>1, RequestsKeepJobs, OthersKeepDocs DEF Inquires
  <2>2. UNCHANGED <<phase, job, history>>
    BY <1>1 DEF Inquires, LeaveOrFail, Sniff, Duplicate, CountPages, CountPagesUnchecked
  <2>3. \A v \in Uploads : \/ upload'[v] = upload[v] \/ upload'[v].at # "counting"
                           \/ ~Stored(upload'[v].bytes) /\ ~InFlight(upload'[v].bytes)
    <3>1. \/ upload' = [upload EXCEPT ![u] = Idle]
          \/ \E b \in Bytes : \/ upload' = [upload EXCEPT ![u] = Asking("sniffing", b)]
                               \/ upload' = [upload EXCEPT ![u] = Asking("counting blind", b)]
                               \/ /\ upload' = [upload EXCEPT ![u] = Asking("counting", b)]
                                  /\ ~Stored(b) /\ ~InFlight(b)
      BY <1>1 DEF Inquires, LeaveOrFail, Sniff, Duplicate, CountPages, CountPagesUnchecked, Answer, At,
                  NotADuplicate
    <3>2. \A v \in Uploads \ {u} : upload'[v] = upload[v]
      BY <1>t, <3>1 DEF JobsInv
    <3>3. upload'[u].at # "counting" \/ (~Stored(upload'[u].bytes) /\ ~InFlight(upload'[u].bytes))
      <4>1. upload'[u].at # "counting" \/ \E b \in Bytes : upload'[u].bytes = b /\ ~Stored(b) /\ ~InFlight(b)
        <5>1. upload \in [Uploads -> Asks]
          BY <1>t DEF JobsInv
        <5>2. ASSUME NEW b \in Bytes, \/ upload' = [upload EXCEPT ![u] = Asking("sniffing", b)]
                                      \/ upload' = [upload EXCEPT ![u] = Asking("counting blind", b)]
              PROVE  upload'[u].at # "counting"
          <6>1. upload'[u] \in {Asking("sniffing", b), Asking("counting blind", b)}
            BY <5>1, <5>2
          <6>2. QED
            BY <6>1, AsksAreTyped
        <5>3. ASSUME NEW b \in Bytes, upload' = [upload EXCEPT ![u] = Asking("counting", b)]
              PROVE  upload'[u].bytes = b
          BY <5>1, <5>3, AsksAreTyped
        <5>4. upload' = [upload EXCEPT ![u] = Idle] => upload'[u].at # "counting"
          BY <5>1, AsksAreTyped
        <5>5. QED
          BY <3>1, <5>2, <5>3, <5>4
      <4>2. QED
        BY <4>1
    <3>4. QED
      BY <3>2, <3>3
  <2>4. TwinsInv'
    BY <1>t, <2>1, <2>2, <2>3, QuietStep DEF history
  <2>5. QED
    BY <2>1, <2>4 DEF IntakeInv
<1>2. ASSUME NEW j \in Jobs, Arrives(j) PROVE IntakeInv'
  <2>1. JobsInv' /\ DocsInv' /\ UNCHANGED doc
    BY <1>t, <1>2, ArrivalsKeepJobs, OthersKeepDocs DEF Arrives
  <2>2. QED
    BY <1>t, <1>2, <2>1, ArrivalsKeepTwins DEF IntakeInv
<1>3. CASE Turns
  <2>1. DocsInv' /\ UNCHANGED doc
    BY <1>t, <1>3, OthersKeepDocs
  <2>2. /\ JobsInv' /\ UNCHANGED <<job, together>> /\ unchecked \subseteq unchecked'
        /\ UNCHANGED upload \/ upload' = [u \in Uploads |-> Idle]
        /\ \A i \in Jobs : phase'[i] \in Queued => phase[i] \in Queued \/ i \in unchecked'
    BY <1>t, <1>3, QueueKeepsJobs DEF Turns
  <2>3. \A v \in Uploads : upload'[v] = upload[v] \/ upload'[v].at # "counting"
    <3>1. CASE upload' = [u \in Uploads |-> Idle]
      BY <3>1, AsksAreTyped
    <3>2. QED
      BY <2>2, <3>1
  <2>4. TwinsInv'
    BY <1>t, <2>1, <2>2, <2>3, QuietStep
  <2>5. QED
    BY <2>1, <2>2, <2>4 DEF IntakeInv
<1>4. ASSUME NEW j \in Jobs,
             \/ NotFinancial(j) \/ ExtractedUnjudged(j)
             \/ \E r \in Reviews : Extracted(j, r) \/ ExtractedHalf(j, r) \/ ExtractedUnrecorded(j, r)
      PROVE  IntakeInv'
  <2>1. JobsInv' /\ UNCHANGED <<job, upload, together>> /\ unchecked \subseteq unchecked'
    <3>1. CASE \E r \in Reviews : ExtractedHalf(j, r)
      BY <1>t, <3>1, JobsAdvance DEF ExtractedHalf, JobsInv
    <3>2. CASE ~\E r \in Reviews : ExtractedHalf(j, r)
      BY <1>t, <1>4, <3>2, QueueKeepsJobs
      DEF NotFinancial, ExtractedUnjudged, Extracted, ExtractedUnrecorded, history
    <3>3. QED
      BY <3>1, <3>2
  <2>2. DocsInv'
    BY <1>4, Reads
  <2>3. TwinsInv'
    BY <1>4, <2>1, ReadingKeepsTwins
  <2>4. QED
    BY <2>1, <2>2, <2>3 DEF IntakeInv
<1>5. CASE Verbs
  <2>1. /\ DocsInv' /\ UNCHANGED <<phase, job, upload, history>>
        /\ \A b \in Bytes : \/ doc'[b] \in {doc[b], NoDoc}
                            \/ Stored(b) /\ doc'[b].review = "corrected"
    BY <1>t, <1>5, VerbsKeepDocs
  <2>2. JobsInv'
    BY <1>t, <2>1 DEF JobsInv, history
  <2>3. TwinsInv'
    BY <1>t, <2>1, <2>2, QuietStep DEF history
  <2>4. QED
    BY <2>1, <2>2, <2>3 DEF IntakeInv
<1>6. CASE UNCHANGED intake
  <2>1. DocsInv' /\ UNCHANGED <<phase, job, upload, doc, history>>
    BY <1>t, <1>6, OthersKeepDocs DEF intake
  <2>2. JobsInv'
    BY <1>t, <2>1 DEF JobsInv, history
  <2>3. TwinsInv'
    BY <1>t, <2>1, <2>2, QuietStep DEF history
  <2>4. QED
    BY <2>1, <2>2, <2>3 DEF IntakeInv
<1>7. QED
  BY <1>1, <1>2, <1>3, <1>4, <1>5, <1>6 DEF IntakeNext, Inquires, Arrives, Turns, Verbs

-----------------------------------------------------------------------------
(* The scan                                                                *)

Sources == {"attachment", "body", "paypal", "wise", "manual"}
Threads == [by : {None, "scan", "orchestrator"}, passes : Seq(Sources),
            todo : SUBSET Items, saved : SUBSET Items]

(* What has a name of its own on disk: all but the statements of Wise.     *)
OnDisk(i) == Kind[i] # "wise" /\ files[i] > 0

(* Whatever is on disk is in the log, or the thread is about to log it; so *)
(* nothing with the same bytes passes for new.                             *)
NothingTwice ==
  /\ \A i \in Items : OnDisk(i) => files[i] = 1 /\ i \in log \cup thread.saved
  /\ \A i, k \in Items : OnDisk(i) /\ OnDisk(k) /\ Holds[i] = Holds[k] => i = k

ScanInv ==
  /\ scanRow \in {None, "RUNNING", "COMPLETED", "FAILED"} /\ thread \in Threads
  /\ files \in [Items -> 0..2] /\ log \subseteq Items /\ scans \in 0..MaxScans
  /\ thread.saved \subseteq thread.todo
  /\ Unharmed => NothingTwice

GatherInv == IntakeInv /\ ScanInv

LEMMA ThreadsAreTyped ==
  /\ NoThread \in Threads /\ NoThread.todo = {} /\ NoThread.saved = {}
  /\ \A by \in {"scan", "orchestrator"}, p \in {Mail, Everything} :
        Runs(by, p) \in Threads /\ Runs(by, p).todo = {} /\ Runs(by, p).saved = {}
<1>1. Mail \in Seq(Sources) /\ Everything \in Seq(Sources)
  BY DEF Mail, Everything, Sources
<1>2. <<>> \in Seq(Sources)
  OBVIOUS
<1>3. NoThread \in Threads /\ NoThread.todo = {} /\ NoThread.saved = {}
  BY <1>2 DEF NoThread, Threads
<1>4. QED
  BY <1>1, <1>3 DEF Runs, Threads

LEMMA InitGather == Init => GatherInv
<1> SUFFICES ASSUME Init PROVE GatherInv
  OBVIOUS
<1>1. IntakeInv
  BY InitIntake DEF Init
<1>2. ScanInv
  BY ThreadsAreTyped, ItemsAssumption DEF Init, GatherInit, ScanInv, NothingTwice, OnDisk
<1>3. QED
  BY <1>1, <1>2 DEF GatherInv

(* What was unharmed after a step was so before it.                        *)
LEMMA HarmStays ==
  ASSUME DocsInv, Half \/ Whole \/ Restart
  PROVE  Unharmed' => Unharmed /\ Whole
<1>1. /\ left \in Budget /\ left.halves \in Nat /\ left.restarts \in Nat
      /\ left.halves <= MaxHalves /\ left.restarts <= MaxRestarts
  BY DEF DocsInv, Budget
<1>2. Half => left'.halves # MaxHalves
  BY <1>1, BoundsAssumption DEF Half, Budget
<1>3. Restart => left'.restarts # MaxRestarts
  BY <1>1, BoundsAssumption DEF Restart, Budget
<1>4. QED
  BY <1>2, <1>3 DEF Unharmed, Whole

(* The thread moves on without writing a file.                             *)
LEMMA ThreadMoves ==
  ASSUME GatherInv, IntakeInv', NEW t \in Threads, thread' = t, t.saved \subseteq t.todo,
         thread.saved \subseteq t.saved \cup log' \/ ~Unharmed',
         scanRow' \in {None, "RUNNING", "COMPLETED", "FAILED"}, scans' \in 0..MaxScans,
         UNCHANGED files, log \subseteq log', log' \subseteq Items,
         Half \/ Whole \/ Restart
  PROVE  ScanInv'
<1>1. Unharmed' => Unharmed
  BY HarmStays DEF GatherInv, IntakeInv
<1>2. Unharmed' => NothingTwice'
  BY <1>1 DEF GatherInv, ScanInv, NothingTwice, OnDisk
<1>3. QED
  BY <1>2 DEF GatherInv, ScanInv

LEMMA SavesKeep ==
  ASSUME GatherInv, NEW i \in Items, Saves(i)
  PROVE  /\ ScanInv'
         /\ Kind[i] # "wise" => ~Known(i) /\ files[i] + 1 = files'[i]
<1>1. /\ i \in thread.todo /\ thread.saved = {} /\ files[i] < 2
      /\ IsNew(i) \/ (Kind[i] = "wise" /\ i \notin log)
      /\ files' = [files EXCEPT ![i] = SavedAs(i)]
      /\ thread' = [thread EXCEPT !.saved = {i}]
      /\ UNCHANGED <<scanRow, log, scans, intake>>
  BY DEF Saves, Aside
<1>2. thread \in Threads /\ files \in [Items -> 0..2] /\ DocsInv
  BY DEF GatherInv, ScanInv, IntakeInv
<1>3. thread' \in Threads /\ thread'.saved = {i} /\ thread'.todo = thread.todo
  BY <1>1, <1>2 DEF Threads
<1>4. SavedAs(i) \in 0..2 /\ SavedAs(i) = IF Kind[i] = "wise" THEN 1 ELSE files[i] + 1
  BY <1>1, <1>2 DEF SavedAs
<1>5. files' \in [Items -> 0..2] /\ files'[i] = SavedAs(i) /\ \A k \in Items \ {i} : files'[k] = files[k]
  BY <1>1, <1>2, <1>4
<1>6. Kind[i] # "wise" => ~Known(i) /\ files[i] + 1 = files'[i]
  BY <1>1, <1>4, <1>5 DEF IsNew
<1>7. ASSUME Unharmed' PROVE NothingTwice'
  <2>1. Unharmed
    BY <1>1, <1>7 DEF Unharmed, intake
  <2>2. \A k \in Items : OnDisk(k) => files[k] = 1 /\ k \in log
    BY <1>1, <2>1 DEF GatherInv, ScanInv, NothingTwice
  <2>3. CASE Kind[i] = "wise"
    BY <1>1, <1>3, <1>5, <2>1, <2>2, <2>3 DEF GatherInv, ScanInv, NothingTwice, OnDisk
  <2>4. CASE Kind[i] # "wise"
    <3>1. i \notin log /\ \A k \in log : Holds[k] # Holds[i]
      BY <1>1, <2>4 DEF IsNew, Known
    <3>2. files[i] = 0 /\ files'[i] = 1
      BY <1>2, <1>6, <2>2, <2>4, <3>1 DEF OnDisk
    <3>3. \A k \in Items : OnDisk(k)' => k = i \/ (OnDisk(k) /\ k \in log /\ Holds[k] # Holds[i])
      BY <1>5, <2>2, <3>1 DEF OnDisk
    <3>4. \A k \in Items : OnDisk(k)' => files'[k] = 1 /\ k \in log' \cup thread'.saved
      BY <1>1, <1>3, <1>5, <2>2, <3>2, <3>3
    <3>5. \A k, n \in Items : OnDisk(k)' /\ OnDisk(n)' /\ Holds[k] = Holds[n] => k = n
      BY <2>1, <3>3 DEF GatherInv, ScanInv, NothingTwice
    <3>6. QED
      BY <3>4, <3>5 DEF NothingTwice
  <2>5. QED
    BY <2>3, <2>4
<1>8. ScanInv'
  BY <1>1, <1>3, <1>5, <1>7 DEF GatherInv, ScanInv
<1>9. QED
  BY <1>6, <1>8

LEMMA ScanSteps ==
  ASSUME GatherInv, Scan
  PROVE  IntakeInv' /\ ScanInv'
<1>1. /\ thread \in Threads /\ thread.saved \subseteq thread.todo /\ thread.todo \subseteq Items
      /\ log \subseteq Items /\ scans \in 0..MaxScans
      /\ scanRow \in {None, "RUNNING", "COMPLETED", "FAILED"}
      /\ IntakeInv /\ DocsInv /\ JobsInv
  BY DEF GatherInv, ScanInv, IntakeInv, Threads
<1>2. IntakeInv'
  <2>1. CASE PassBreaks
    <3>1. Half /\ UNCHANGED <<phase, job, doc, record, upload, history>>
      BY <2>1 DEF PassBreaks
    <3>2. DocsInv'
      BY <1>1, <3>1, DocsStay DEF DocsInv, record
    <3>3. JobsInv'
      BY <1>1, <3>1 DEF JobsInv, history
    <3>4. TwinsInv'
      BY <1>1, <3>1, <3>3, QuietStep DEF IntakeInv, history
    <3>5. QED
      BY <3>2, <3>3, <3>4 DEF IntakeInv
  <2>2. CASE ~PassBreaks
    <3>1. UNCHANGED intake
      BY <2>2 DEF Scan, StartScan, ScanFails, Unauthenticated, ScanEnds, StartAll, AllEnds, Lists, Skips,
                  Saves, Logs, Aside
    <3>2. QED
      BY <1>1, <3>1, IntakeStep
  <2>3. QED
    BY <2>1, <2>2
<1>3. UNCHANGED intake => Whole
  BY DEF intake, Whole
<1>4. CASE StartScan \/ StartAll
  <2>1. /\ thread.saved = {} /\ UNCHANGED <<files, log, intake>> /\ scans < MaxScans
        /\ scans' = scans + 1 /\ scanRow' \in {None, "RUNNING", "COMPLETED", "FAILED"}
        /\ \E by \in {"scan", "orchestrator"}, p \in {Mail, Everything} : thread' = Runs(by, p)
    BY <1>1, <1>4, ThreadsAreTyped DEF StartScan, StartAll, Aside
  <2>2. scans' \in 0..MaxScans
    BY <1>1, <2>1, ItemsAssumption
  <2>3. QED
    BY <1>1, <1>2, <1>3, <2>1, <2>2, ThreadMoves, ThreadsAreTyped
<1>5. CASE ScanFails \/ Unauthenticated \/ ScanEnds \/ AllEnds
  <2>1. /\ thread.todo = {} /\ thread' = NoThread /\ UNCHANGED <<files, log, scans, intake>>
        /\ scanRow' \in {None, "RUNNING", "COMPLETED", "FAILED"}
    BY <1>1, <1>5 DEF ScanFails, Unauthenticated, ScanEnds, AllEnds, Aside
  <2>2. QED
    BY <1>1, <1>2, <1>3, <2>1, ThreadMoves, ThreadsAreTyped
<1>6. CASE PassBreaks
  <2>1. /\ Half /\ thread' = [thread EXCEPT !.todo = {}, !.saved = {}]
        /\ UNCHANGED <<scanRow, files, log, scans>>
    BY <1>6 DEF PassBreaks
  <2>2. thread' \in Threads /\ thread'.saved = {}
    BY <1>1, <2>1 DEF Threads
  <2>3. ~Unharmed'
    <3>1. left \in Budget /\ left.halves \in Nat /\ left.halves <= MaxHalves
      BY <1>1 DEF DocsInv, Budget
    <3>2. left'.halves # MaxHalves
      BY <2>1, <3>1, BoundsAssumption DEF Half, Budget
    <3>3. QED
      BY <3>2 DEF Unharmed
  <2>4. QED
    BY <1>1, <1>2, <2>1, <2>2, <2>3, ThreadMoves
<1>7. ASSUME NEW S \in SUBSET Items, Lists(S) PROVE ScanInv'
  <2>1. /\ thread.passes # <<>> /\ thread.todo = {} /\ UNCHANGED <<scanRow, files, log, scans, intake>>
        /\ thread' = [thread EXCEPT !.passes = Tail(@), !.todo = S]
    BY <1>7 DEF Lists, Aside
  <2>2. Tail(thread.passes) \in Seq(Sources)
    BY <1>1, <2>1 DEF Threads
  <2>3. thread' \in Threads /\ thread'.saved = thread.saved
    BY <1>1, <2>1, <2>2 DEF Threads
  <2>4. QED
    BY <1>1, <1>2, <1>3, <2>1, <2>3, ThreadMoves
<1>8. ASSUME NEW i \in Items, Skips(i) \/ Logs(i) PROVE ScanInv'
  <2>1. /\ thread' = [thread EXCEPT !.todo = thread.todo \ {i}, !.saved = thread.saved \ {i}]
        /\ UNCHANGED <<scanRow, files, scans, intake>>
        /\ log \subseteq log' /\ log' \subseteq log \cup {i}
    BY <1>8 DEF Skips, Logs, Handled, Aside
  <2>2. thread' \in Threads /\ thread'.saved = thread.saved \ {i} /\ thread'.saved \subseteq thread'.todo
    BY <1>1, <2>1 DEF Threads
  <2>3. CASE thread.saved \subseteq thread'.saved \cup log'
    BY <1>1, <1>2, <1>3, <2>1, <2>2, <2>3, ThreadMoves
  <2>4. CASE ~(thread.saved \subseteq thread'.saved \cup log')
    <3>1. Logs(i) /\ Kind[i] = "wise" /\ log' = log
      BY <1>8, <2>2, <2>4 DEF Skips, Logs
    <3>2. ASSUME Unharmed' PROVE NothingTwice'
      BY <2>1, <2>2, <3>1, <3>2 DEF GatherInv, ScanInv, NothingTwice, OnDisk, Unharmed, intake
    <3>3. QED
      BY <1>1, <2>1, <2>2, <3>1, <3>2 DEF GatherInv, ScanInv
  <2>5. QED
    BY <2>3, <2>4
<1>9. ASSUME NEW i \in Items, Saves(i) PROVE ScanInv'
  BY <1>9, SavesKeep
<1>10. QED
  BY <1>2, <1>4, <1>5, <1>6, <1>7, <1>8, <1>9 DEF Scan

LEMMA GatherStep ==
  ASSUME GatherInv, [Next]_vars
  PROVE  GatherInv'
<1>1. CASE Scan
  BY <1>1, ScanSteps DEF GatherInv
<1>2. CASE GatherRestart
  <2>1. IntakeInv' /\ Restart
    BY <1>2, IntakeStep DEF GatherInv, GatherRestart
  <2>2. ~Unharmed'
    <3>1. left \in Budget /\ left.restarts \in Nat /\ left.restarts <= MaxRestarts
      BY DEF GatherInv, IntakeInv, DocsInv, Budget
    <3>2. QED
      BY <2>1, <3>1, BoundsAssumption DEF Restart, Budget, Unharmed
  <2>3. ScanInv'
    BY <1>2, <2>1, <2>2, ThreadMoves, ThreadsAreTyped DEF GatherRestart, GatherInv, ScanInv
  <2>4. QED
    BY <2>1, <2>3 DEF GatherInv
<1>3. CASE (IntakeNext \/ UNCHANGED intake) /\ UNCHANGED scanning
  <2>1. IntakeInv'
    BY <1>3, IntakeStep DEF GatherInv
  <2>2. Half \/ Whole
    BY <1>3 DEF IntakeNext, intake, Steps, Fails, Retry, Cancel, NotFinancial, ExtractedUnjudged, Extracted,
                ExtractedHalf, ExtractedUnrecorded, Correct, Delete, DeleteByHash, ClearAll, Gone,
                StatementsCleared, SourceFileDeleted, Strike, CountPagesUnchecked,
                LeaveOrFail, Sniff, Duplicate, CountPages, Accept, AcceptUnchecked, AcceptPdf,
                RefiledHere, Whole
  <2>3. ScanInv'
    BY <1>3, <2>1, <2>2, ThreadMoves DEF scanning, GatherInv, ScanInv
  <2>4. QED
    BY <2>1, <2>3 DEF GatherInv
<1>4. QED
  BY <1>1, <1>2, <1>3 DEF Next, vars

LEMMA GatherInvariant == Spec => []GatherInv
BY InitGather, GatherStep, PTL DEF Spec

(* Dropping the same file twice reads it once, but for jobs that came in   *)
(* without a look for their twins and those of pages counted at one time.  *)
THEOREM ReadOnce == Spec => []OneJobPerContent
<1>1. GatherInv => OneJobPerContent
  BY DEF GatherInv, IntakeInv, TwinsInv
<1>2. QED
  BY <1>1, GatherInvariant, PTL

(* What is known of a document stays known: the user's corrections unless a*)
(* second job of the same bytes slipped in, the hash unless its write was  *)
(* lost or its row went with the statements.                               *)
THEOREM KnowledgeStays == Spec => []DocumentsStand
<1>1. GatherInv => DocumentsStand
  BY InvIsTyped DEF GatherInv, IntakeInv, DocsInv, TwinsInv, DocumentsStand
<1>2. QED
  BY <1>1, GatherInvariant, PTL

(* However often the same bytes are offered they are saved once, unless a  *)
(* scan was cut off; and what is a document already is not gathered again, *)
(* unless its hash was lost or went with the statements.                   *)
THEOREM GatheredOnceHolds == Spec => GatheredOnce
<1> DEFINE Once ==
      /\ GatherTypeOK'
      /\ Unharmed' => \A b \in Bytes : /\ Cardinality(Kept(b)') <= 1
                                      /\ \A i \in Kept(b)' : files'[i] = 1
      /\ \A i \in Items : Kind[i] # "wise" /\ files'[i] > files[i]
           => ~Stored(Holds[i]) \/ Holds[i] \in unrecorded
<1>1. ASSUME GatherInv, GatherInv', [Next]_vars PROVE Once
  <2>1. GatherTypeOK'
    BY <1>1 DEF GatherInv, ScanInv, GatherTypeOK, Threads
  <2>2. ASSUME Unharmed', NEW b \in Bytes
        PROVE  Cardinality(Kept(b)') <= 1 /\ \A i \in Kept(b)' : files'[i] = 1
    <3>1. NothingTwice'
      BY <1>1, <2>2 DEF GatherInv, ScanInv
    <3>2. Kept(b)' = {i \in Items : Holds[i] = b /\ OnDisk(i)'}
      BY DEF Kept, OnDisk
    <3>3. \A i \in Kept(b)' : files'[i] = 1
      BY <3>1, <3>2 DEF NothingTwice
    <3>4. Kept(b)' = {} \/ \E i \in Items : Kept(b)' = {i}
      BY <3>1, <3>2 DEF NothingTwice
    <3>5. Cardinality(Kept(b)') <= 1
      BY <3>4, FS_EmptySet, FS_Singleton
    <3>6. QED
      BY <3>3, <3>5
  <2>3. ASSUME NEW i \in Items, Kind[i] # "wise", files'[i] > files[i]
        PROVE  ~Stored(Holds[i]) \/ Holds[i] \in unrecorded
    <3>1. files \in [Items -> 0..2]
      BY <1>1 DEF GatherInv, ScanInv
    <3>a. files' # files
      BY <2>3, <3>1
    <3>2. PICK k \in Items : Saves(k)
      BY <1>1, <3>a DEF Next, vars, scanning, Scan, GatherRestart, StartScan, ScanFails, Unauthenticated,
                        ScanEnds, StartAll, AllEnds, Lists, Skips, Logs, PassBreaks
    <3>3. k = i
      BY <2>3, <3>1, <3>2 DEF Saves
    <3>4. ~Known(i)
      BY <1>1, <2>3, <3>2, <3>3, SavesKeep
    <3>5. Holds[i] \in Bytes /\ Holds[i] \notin processed
      BY <3>4, ItemsAssumption DEF Known
    <3>6. QED
      BY <1>1, <3>5 DEF GatherInv, IntakeInv, DocsInv, DocumentsAreOnRecord
  <2>4. QED
    BY <2>1, <2>2, <2>3
<1>2. GatherInv /\ GatherInv' /\ [Next]_vars => [Once]_vars
  BY <1>1
<1>3. QED
  BY <1>2, GatherInvariant, PTL DEF Spec, GatheredOnce

-----------------------------------------------------------------------------
(* The pages of one receipt                                                *)

(* The pages' inductive invariant: while the first provider reads, what is *)
(* noted as the resolution is the resolution; a total that is about to be  *)
(* merged in silence was read at full resolution.                          *)
PagesInv ==
  /\ PagesTypeOK
  /\ link = 1 => dpi = pixels /\ result.verified = result.from
  /\ stage \in {"verify", "merge"} => plan # "one_pass"
  /\ stage = "merge" => verify.found \/ Claimants = {} \/ dpi[Chosen] = "full"
  /\ QuietTotalIsUnanimous /\ AutoAcceptedIsEarned

Said == UNION {AnswersOf(b) : b \in Batch}

LEMMA SaidIsTyped == Said \subseteq [page : 0..Batches, figure : {0} \cup Figures, read : BOOLEAN]
<1> SUFFICES ASSUME NEW b \in Batch
             PROVE  AnswersOf(b) \subseteq [page : 0..Batches, figure : {0} \cup Figures, read : BOOLEAN]
  BY DEF Said
<1>1. b \in 0..Batches /\ Batches \in 0..Batches /\ 0 \in 0..Batches
  BY PagesAssumption DEF Batch
<1>2. NoAnswer \in [page : 0..Batches, figure : {0} \cup Figures, read : BOOLEAN]
  BY <1>1 DEF NoAnswer
<1>3. [NoAnswer EXCEPT !.read = TRUE] \in [page : 0..Batches, figure : {0} \cup Figures, read : BOOLEAN]
  BY <1>2
<1> QED  BY <1>1, <1>2, <1>3 DEF AnswersOf

(* A nonempty set of numbers up to a bound has a greatest one.             *)
LEMMA GreatestNumber ==
  ASSUME NEW n \in Nat, NEW S \in SUBSET (0..n), S # {}
  PROVE  \E m \in S : \A k \in S : k <= m
<1> DEFINE Upto == 0..n
           T == {n - k : k \in S}
<1>1. S \subseteq Upto /\ Upto \subseteq Int /\ \A k \in Upto : n - k \in Nat
  OBVIOUS
<1> HIDE DEF Upto
<1>2. T \in SUBSET Nat /\ T # {}
  BY <1>1
<1>3. \E m \in T : \A k \in T : ~ (<<k, m>> \in OpToRel(<, Nat))
  BY <1>2, NatLessThanWellFounded, WFMin
<1>4. PICK m \in T : \A k \in T : ~ (<<k, m>> \in OpToRel(<, Nat))
  BY <1>3
<1>5. \A k, l \in Nat : <<k, l>> \in OpToRel(<, Nat) <=> k < l
  BY DEF OpToRel
<1>6. \A k \in T : ~ (k < m)
  BY <1>2, <1>4, <1>5
<1>7. PICK g \in S : m = n - g
  BY <1>4
<1>8. ASSUME NEW k \in S
      PROVE  k <= g
  <2>1. n - k \in T /\ k \in Int /\ g \in Int
    BY <1>1
  <2>2. ~ (n - k < n - g)
    BY <1>6, <1>7, <2>1
  <2> QED  BY <2>1, <2>2
<1> QED  BY <1>8

(* Of the batches that claim the grand total, one names the last page.     *)
LEMMA ChosenClaims ==
  ASSUME PagesTypeOK, Claimants # {}
  PROVE  Chosen \in Claimants /\ Chosen \in Batch
<1> DEFINE C == Claimants
           pg == [b \in C |-> pairs[b].page]
<1>1. /\ C \in SUBSET (0..Batches) /\ C \in SUBSET Batch /\ Batches \in Nat
      /\ \A b \in C : pairs[b] \in Said
  <2>1. pairs \in Seq(Said) /\ Len(pairs) <= Batches
    BY DEF PagesTypeOK, Said
  <2>2. Batches \in Nat /\ Len(pairs) \in Nat
    BY <2>1, PagesAssumption
  <2>3. \A b \in C : b \in 1..Len(pairs) /\ pairs[b] \in Said
    BY <2>1 DEF Claimants
  <2>4. \A b \in 1..Len(pairs) : b \in 0..Batches /\ b \in 1..Batches
    BY <2>1, <2>2
  <2> QED  BY <2>2, <2>3, <2>4 DEF Batch
<1>2. \A b \in C : pg[b] \in 0..Batches
  BY <1>1, SaidIsTyped
<1> DEFINE P == {pg[b] : b \in C}
<1>3. P \in SUBSET (0..Batches) /\ P # {}
  BY <1>2
<1>4. PICK m \in P : \A k \in P : k <= m
  BY <1>1, <1>3, GreatestNumber
<1> DEFINE L == {b \in C : pg[b] = m}
<1>5. L \in SUBSET (0..Batches) /\ L # {}
  BY <1>1, <1>4
<1>6. PICK g \in L : \A k \in L : k <= g
  BY <1>1, <1>5, GreatestNumber
<1>7. ASSUME NEW b \in C
      PROVE  Before(b, g)
  <2>1. pg[b] \in P /\ pg[b] <= m /\ g \in C /\ pg[g] = m
    BY <1>4, <1>6
  <2>2. pg[b] = m => b <= g
    BY <1>6
  <2>3. pg[b] \in Int /\ m \in Int
    <3> DEFINE pages0 == 0..Batches
    <3>1. pg[b] \in pages0 /\ m \in pages0 /\ pages0 \subseteq Int
      BY <1>1, <1>2, <1>3, <1>4
    <3> HIDE DEF pages0, pg
    <3> QED  BY <3>1
  <2>4. pg[b] < m \/ (pg[b] = m /\ b <= g)
    <3> HIDE DEF pg
    <3> QED  BY <2>1, <2>2, <2>3
  <2>5. pg[b] = pairs[b].page /\ m = pairs[g].page
    BY <2>1
  <2> QED  BY <2>4, <2>5 DEF Before
<1>8. g \in Claimants /\ \A b \in Claimants : Before(b, g)
  BY <1>6, <1>7
<1>9. Chosen \in Claimants
  BY <1>8 DEF Chosen
<1> QED  BY <1>1, <1>9

(* Failing that, there is a last batch that saw an amount.                 *)
LEMMA LastSaysAnAmount ==
  ASSUME PagesTypeOK, Amounts # {}
  PROVE  LastAmount \in Amounts
<1>1. Amounts \in SUBSET (0..Batches) /\ Batches \in Nat
  <2>1. pairs \in Seq(Said) /\ Len(pairs) <= Batches
    BY DEF PagesTypeOK, Said
  <2>2. Batches \in Nat /\ Len(pairs) \in Nat
    BY <2>1, PagesAssumption
  <2>3. \A b \in Amounts : b \in 1..Len(pairs)
    BY <2>1 DEF Amounts
  <2> QED  BY <2>1, <2>2, <2>3
<1>2. \E g \in Amounts : \A b \in Amounts : b <= g
  BY <1>1, GreatestNumber
<1> QED  BY <1>2 DEF LastAmount

LEMMA PagesBegin == PagesInit => PagesInv
<1> SUFFICES ASSUME PagesInit
             PROVE  PagesInv
  OBVIOUS
<1>1. /\ plan \in Plans /\ stage = "read" /\ link = 1 /\ pairs = <<>>
      /\ dpi = Rendered /\ pixels = Rendered /\ verify = NoVerify /\ result = NoResult
  BY DEF PagesInit
<1>2. Rendered \in [Batch -> Resolution] /\ 0 \in 0..MaxVerify /\ 1 \in 1..Providers /\ Batches \in Nat
  BY PagesAssumption DEF Rendered, Resolution
<1>3. pairs \in Seq(UNION {AnswersOf(b) : b \in Batch}) /\ Len(pairs) <= Batches
  BY <1>1, <1>2
<1>4. verify \in [todo : SUBSET Batch, calls : 0..MaxVerify, disagree : BOOLEAN, found : BOOLEAN]
  BY <1>1, <1>2 DEF NoVerify
<1>5. result \in [total : {0} \cup Figures, low : BOOLEAN,
                  verified : Resolution \cup {"none"}, from : Resolution \cup {"none"},
                  vendor : Vendors, currency : {"none"} \cup Currencies,
                  review : {"none", "auto_accepted", "pending", "flagged"}]
  BY <1>1 DEF NoResult, Vendors
<1>6. PagesTypeOK
  BY <1>1, <1>2, <1>3, <1>4, <1>5 DEF PagesTypeOK
<1>7. result.verified = result.from
  BY <1>1 DEF NoResult
<1> QED  BY <1>1, <1>6, <1>7 DEF PagesInv, QuietTotalIsUnanimous, AutoAcceptedIsEarned, Merged

(* The names of the parts of the type                                      *)
Checks == [todo : SUBSET Batch, calls : 0..MaxVerify, disagree : BOOLEAN, found : BOOLEAN]
Results == [total : {0} \cup Figures, low : BOOLEAN,
            verified : Resolution \cup {"none"}, from : Resolution \cup {"none"},
            vendor : Vendors, currency : {"none"} \cup Currencies,
            review : {"none", "auto_accepted", "pending", "flagged"}]

LEMMA PagesTypes ==
  PagesTypeOK <=>
    /\ plan \in Plans
    /\ stage \in {"read", "sharpen", "verify", "merge", "graded", "stored", "failed"}
    /\ link \in 1..Providers /\ pairs \in Seq(Said) /\ Len(pairs) <= Batches
    /\ dpi \in [Batch -> Resolution] /\ pixels \in [Batch -> Resolution]
    /\ verify \in Checks /\ result \in Results
BY DEF PagesTypeOK, Said, Checks, Results

(* A batch is asked again: the answer, the DPI and the pixels move together*)
LEMMA SharperKeeps ==
  ASSUME PagesTypeOK, NEW b \in Batch, NEW a \in AnswersOf(b), Sharper(b, a)
  PROVE  /\ pairs' \in Seq(Said) /\ Len(pairs') <= Batches
         /\ dpi' \in [Batch -> Resolution] /\ pixels' \in [Batch -> Resolution]
         /\ dpi = pixels => dpi' = pixels'
<1>1. /\ pairs \in Seq(Said) /\ Len(pairs) <= Batches
      /\ dpi \in [Batch -> Resolution] /\ pixels \in [Batch -> Resolution]
  BY PagesTypes
<1>2. a \in Said
  BY DEF Said
<1>3. CASE a.read
  <2>1. pairs' = [pairs EXCEPT ![b] = a]
    BY <1>3 DEF Sharper
  <2>2. pairs' \in Seq(Said) /\ Len(pairs') = Len(pairs)
    <3>1. Len(pairs) \in Nat /\ pairs \in [1..Len(pairs) -> Said]
      BY <1>1
    <3>2. pairs' \in [1..Len(pairs) -> Said]
      BY <1>2, <2>1, <3>1
    <3> QED  BY <3>1, <3>2
  <2>3. dpi' = [dpi EXCEPT ![b] = "full"] /\ pixels' = [pixels EXCEPT ![b] = "full"]
    BY <1>3 DEF Sharper
  <2> QED  BY <1>1, <2>2, <2>3 DEF Resolution
<1>4. CASE ~a.read
  BY <1>1, <1>4 DEF Sharper
<1> QED  BY <1>3, <1>4

LEMMA ReadingKeepsPages ==
  ASSUME PagesInv, NEW b \in Batch, NEW a \in AnswersOf(b),
         \/ b = Current /\ ReadBatch(a)
         \/ b = Len(pairs) /\ Sharpen(a)
         \/ b = First(verify.todo) /\ \E asked \in BOOLEAN : Verify(a, asked)
  PROVE  PagesInv'
<1>1. PagesTypeOK
  BY DEF PagesInv
<1>2. /\ plan \in Plans /\ link \in 1..Providers /\ pairs \in Seq(Said) /\ Len(pairs) <= Batches
      /\ dpi \in [Batch -> Resolution] /\ pixels \in [Batch -> Resolution]
      /\ verify \in Checks /\ result \in Results
  BY <1>1, PagesTypes
<1>3. a \in Said
  BY DEF Said
<1>4. /\ UNCHANGED <<plan, link, result>> /\ stage' \in {"read", "sharpen", "verify"}
      /\ stage' = "verify" => stage = "verify"
      /\ pairs' \in Seq(Said) /\ Len(pairs') <= Batches /\ verify' \in Checks
      /\ dpi' \in [Batch -> Resolution] /\ pixels' \in [Batch -> Resolution]
      /\ dpi = pixels => dpi' = pixels'
  <2>1. CASE ReadBatch(a)
    <3>1. /\ pairs' = Append(pairs, a) /\ UNCHANGED <<plan, link, dpi, pixels, verify, result>>
          /\ stage' \in {"read", "sharpen"} /\ Len(pairs) < Batches
      BY <2>1 DEF ReadBatch
    <3>2. Len(pairs) \in Nat /\ Batches \in Nat
      BY <1>2, PagesAssumption
    <3>3. pairs' \in Seq(Said) /\ Len(pairs') <= Batches
      BY <1>2, <1>3, <3>1, <3>2
    <3> QED  BY <1>2, <3>1, <3>3
  <2>2. CASE b = Len(pairs) /\ Sharpen(a)
    <3>1. Sharper(b, a) /\ stage' = "read" /\ UNCHANGED <<plan, link, verify, result>>
      BY <2>2 DEF Sharpen
    <3> QED  BY <1>1, <1>2, <3>1, SharperKeeps
  <2>3. CASE b = First(verify.todo) /\ \E asked \in BOOLEAN : Verify(a, asked)
    <3>1. PICK asked \in BOOLEAN : Verify(a, asked)
      BY <2>3
    <3>2. /\ stage = "verify" /\ verify.calls < MaxVerify /\ Sharper(b, a)
          /\ UNCHANGED <<plan, stage, link, result>>
      BY <2>3, <3>1 DEF Verify
    <3>3. verify' = [verify EXCEPT !.todo = verify.todo \ {b},
                        !.calls = IF asked THEN verify.calls + 1 ELSE verify.calls,
                        !.found = verify.found \/ (a.read /\ ~verify.disagree /\ a.figure # pairs[b].figure)]
      BY <2>3, <3>1 DEF Verify
    <3>4. /\ verify.todo \ {b} \in SUBSET Batch
          /\ (IF asked THEN verify.calls + 1 ELSE verify.calls) \in 0..MaxVerify
          /\ (verify.found \/ (a.read /\ ~verify.disagree /\ a.figure # pairs[b].figure)) \in BOOLEAN
      <4>1. verify.todo \in SUBSET Batch /\ verify.calls \in 0..MaxVerify /\ MaxVerify \in Nat
        BY <1>2, PagesAssumption DEF Checks
      <4>2. (IF asked THEN verify.calls + 1 ELSE verify.calls) \in 0..MaxVerify
        BY <3>2, <4>1
      <4>3. verify.found \in BOOLEAN
        BY <1>2 DEF Checks
      <4> QED  BY <4>1, <4>2, <4>3
    <3>5. verify' \in Checks
      BY <1>2, <3>3, <3>4 DEF Checks
    <3> QED  BY <1>1, <3>2, <3>5, SharperKeeps
  <2> QED  BY <2>1, <2>2, <2>3
<1>5. PagesTypeOK'
  <2>1. /\ plan' \in Plans /\ link' \in 1..Providers /\ result' \in Results
        /\ stage' \in {"read", "sharpen", "verify", "merge", "graded", "stored", "failed"}
    BY <1>2, <1>4
  <2> QED  BY <1>4, <2>1 DEF PagesTypeOK, Said, Checks, Results, Batch, AnswersOf, NoAnswer, Resolution, Vendors, Currencies
<1>6. link' = 1 => dpi' = pixels' /\ result'.verified = result'.from
  BY <1>4 DEF PagesInv
<1> QED  BY <1>4, <1>5, <1>6 DEF PagesInv, QuietTotalIsUnanimous, AutoAcceptedIsEarned, Merged

(* The steps between two questions, and the hand-over to the next provider *)
LEMMA CheckingKeepsPages ==
  ASSUME PagesInv, StartVerify \/ OutOfBudget \/ EndVerify
  PROVE  PagesInv'
<1>1. PagesTypeOK
  BY DEF PagesInv
<1>2. /\ plan \in Plans /\ link \in 1..Providers /\ pairs \in Seq(Said) /\ Len(pairs) <= Batches
      /\ dpi \in [Batch -> Resolution] /\ pixels \in [Batch -> Resolution]
      /\ verify \in Checks /\ result \in Results
      /\ stage \in {"read", "sharpen", "verify", "merge", "graded", "stored", "failed"}
  BY <1>1, PagesTypes
<1>3. UNCHANGED <<plan, link, pairs, dpi, pixels, result>> /\ stage' \in {"verify", "merge"}
  BY DEF StartVerify, OutOfBudget, EndVerify
<1>4. Claimants' = Claimants /\ Chosen' = Chosen
  BY <1>3 DEF Claimants, Chosen, Before
<1>5. NoVerify \in Checks
  <2>1. 0 \in 0..MaxVerify
    BY PagesAssumption
  <2> QED  BY <2>1 DEF NoVerify, Checks
<1>6. /\ verify' \in Checks
      /\ stage' = "merge" => verify'.found \/ Claimants = {} \/ dpi[Chosen] = "full"
  <2>1. CASE StartVerify
    <3>2. CASE Claimants = {}
      BY <1>5, <2>1, <3>2 DEF StartVerify
    <3>3. CASE Claimants # {}
      <4>2. Claimants \subseteq Batch
        <5>1. Claimants \subseteq 1..Len(pairs) /\ Len(pairs) \in Nat /\ Batches \in Nat
          BY <1>2, PagesAssumption DEF Claimants
        <5>2. 1..Len(pairs) \subseteq Batch
          BY <1>2, <5>1 DEF Batch
        <5> QED  BY <5>1, <5>2
      <4>3. Targets \in SUBSET Batch /\ Disagree \in BOOLEAN
        BY <1>1, <3>3, <4>2, ChosenClaims DEF Targets, Disagree
      <4>1. stage' = "verify" /\ verify' = [NoVerify EXCEPT !.todo = Targets, !.disagree = Disagree]
        BY <2>1, <3>3 DEF StartVerify
      <4> QED  BY <1>5, <4>1, <4>3 DEF Checks
    <3> QED  BY <3>2, <3>3
  <2>2. CASE OutOfBudget
    <3>1. stage' = "verify" /\ verify' = [verify EXCEPT !.todo = {}, !.found = TRUE]
      BY <2>2 DEF OutOfBudget
    <3> QED  BY <1>2, <3>1 DEF Checks
  <2>3. CASE EndVerify
    <3>1. verify' = [verify EXCEPT !.found = verify.found \/ (Claimants # {} /\ dpi[Chosen] = "reduced")]
      BY <2>3 DEF EndVerify
    <3>2. verify.found \in BOOLEAN
      BY <1>2 DEF Checks
    <3>3. verify' \in Checks /\ verify'.found = (verify.found \/ (Claimants # {} /\ dpi[Chosen] = "reduced"))
      BY <1>2, <3>1, <3>2 DEF Checks
    <3>4. Claimants # {} => dpi[Chosen] \in Resolution
      BY <1>1, <1>2, ChosenClaims
    <3> QED  BY <3>3, <3>4 DEF Resolution
  <2> QED  BY <2>1, <2>2, <2>3
<1>7. plan # "one_pass"
  BY DEF PagesInv, StartVerify, OutOfBudget, EndVerify
<1>8. PagesTypeOK'
  BY <1>2, <1>3, <1>6 DEF PagesTypeOK, Said, Checks, Results, Batch, AnswersOf, NoAnswer, Resolution, Vendors, Currencies
<1> QED  BY <1>3, <1>4, <1>6, <1>7, <1>8 DEF PagesInv, QuietTotalIsUnanimous, AutoAcceptedIsEarned, Merged

LEMMA HandOverKeepsPages ==
  ASSUME PagesInv, ProviderFails \/ SecondOpinion
  PROVE  PagesInv'
<1>1. PagesTypeOK
  BY DEF PagesInv
<1>2. /\ plan \in Plans /\ link \in 1..Providers /\ pairs \in Seq(Said) /\ Len(pairs) <= Batches
      /\ dpi \in [Batch -> Resolution] /\ pixels \in [Batch -> Resolution]
      /\ verify \in Checks /\ result \in Results
  BY <1>1, PagesTypes
<1>3. Providers \in Nat \ {0} /\ Batches \in Nat \ {0} /\ MaxVerify \in Nat
  BY PagesAssumption
<1>4. CASE link < Providers /\ Restarts
  <2>1. /\ stage' = "read" /\ link' = link + 1 /\ pairs' = <<>> /\ pixels' = Rendered
        /\ verify' = NoVerify /\ UNCHANGED <<plan, dpi, result>>
    BY <1>4 DEF Restarts
  <2>2. link' \in 1..Providers /\ link' # 1
    BY <1>2, <1>3, <1>4, <2>1
  <2>3. 0 \in 0..MaxVerify /\ pixels' \in [Batch -> Resolution]
    BY <1>3, <2>1 DEF Rendered, Resolution
  <2>4. verify' \in Checks
    BY <2>1, <2>3 DEF NoVerify, Checks
  <2>5. pairs' \in Seq(Said) /\ Len(pairs') <= Batches
    BY <1>3, <2>1
  <2>6. PagesTypeOK'
    BY <1>2, <2>1, <2>2, <2>3, <2>4, <2>5
       DEF PagesTypeOK, Said, Checks, Results, Batch, AnswersOf, NoAnswer, Resolution, Vendors, Currencies
  <2> QED  BY <2>1, <2>2, <2>6 DEF PagesInv, QuietTotalIsUnanimous, AutoAcceptedIsEarned, Merged
<1>5. CASE ProviderFails /\ link = Providers
  <2>1. /\ stage' \in {"failed", "graded"} /\ pairs' = <<>>
        /\ UNCHANGED <<plan, link, dpi, pixels, verify, result>>
    BY <1>3, <1>5 DEF ProviderFails, Restarts
  <2>2. pairs' \in Seq(Said) /\ Len(pairs') <= Batches /\ Len(pairs') # Batches
    BY <1>3, <2>1
  <2>3. PagesTypeOK'
    BY <1>2, <2>1, <2>2
       DEF PagesTypeOK, Said, Checks, Results, Batch, AnswersOf, NoAnswer, Resolution, Vendors, Currencies
  <2> QED  BY <2>1, <2>2, <2>3 DEF PagesInv, QuietTotalIsUnanimous, AutoAcceptedIsEarned, Merged
<1> QED  BY <1>4, <1>5 DEF ProviderFails, SecondOpinion

(* The merge takes the figure of the last claim, and is silent only where  *)
(* the claims agree and the last one was read sharp.                       *)
LEMMA MergeKeepsPages ==
  ASSUME PagesInv, NEW v \in Vendors, Merge(v)
  PROVE  PagesInv'
<1>1. PagesTypeOK
  BY DEF PagesInv
<1>2. /\ plan \in Plans /\ link \in 1..Providers /\ pairs \in Seq(Said) /\ Len(pairs) <= Batches
      /\ dpi \in [Batch -> Resolution] /\ pixels \in [Batch -> Resolution]
      /\ verify \in Checks /\ result \in Results
  BY <1>1, PagesTypes
<1>3. /\ stage = "merge" /\ stage' = "graded"
      /\ UNCHANGED <<plan, link, pairs, dpi, pixels, verify>>
  BY DEF Merge
<1> DEFINE sharp == IF Claimants # {} THEN dpi[Chosen] ELSE "none"
           seen == IF Claimants # {} THEN pixels[Chosen] ELSE "none"
<1>4. result' = [NoResult EXCEPT !.total = Total, !.low = Reasons, !.vendor = v,
                                 !.verified = sharp, !.from = seen]
  BY DEF Merge
<1>5. \A b \in Claimants \cup Amounts : pairs[b].figure \in {0} \cup Figures
  <2>1. \A b \in Claimants \cup Amounts : pairs[b] \in Said
    BY <1>2 DEF Claimants, Amounts
  <2> QED  BY <2>1, SaidIsTyped
<1>6. Total \in {0} \cup Figures
  BY <1>1, <1>5, ChosenClaims, LastSaysAnAmount DEF Total
<1>7. Reasons \in BOOLEAN
  BY DEF Reasons, Disagree
<1>8. sharp \in Resolution \cup {"none"} /\ seen \in Resolution \cup {"none"}
  BY <1>1, <1>2, ChosenClaims
<1> HIDE DEF sharp, seen
<1>9. NoResult \in Results
  BY DEF NoResult, Results, Vendors
<1>10. /\ result' \in Results /\ result'.total = Total /\ result'.low = Reasons
       /\ result'.verified = sharp /\ result'.from = seen
  BY <1>4, <1>6, <1>7, <1>8, <1>9 DEF Results
<1>11. PagesTypeOK'
  BY <1>2, <1>3, <1>10 DEF PagesTypeOK, Said, Checks, Results, Batch, AnswersOf, NoAnswer, Resolution, Vendors, Currencies
<1>12. link' = 1 => dpi' = pixels' /\ result'.verified = result'.from
  BY <1>3, <1>10 DEF PagesInv, sharp, seen
<1>13. ASSUME ~result'.low
       PROVE  /\ plan = "paged" /\ result'.total # 0 /\ result'.verified = "full"
              /\ \A b \in DOMAIN pairs : pairs[b].page # 0 /\ pairs[b].figure # 0
                                           => pairs[b].figure = result'.total
  <2>1. ~verify.found /\ Claimants # {} /\ ~Disagree /\ plan # "truncated"
    BY <1>10, <1>13 DEF Reasons
  <2>2. Chosen \in Claimants
    BY <1>1, <2>1, ChosenClaims
  <2>3. Total = pairs[Chosen].figure /\ Total # 0
    BY <2>1, <2>2 DEF Total, Claimants
  <2>4. plan = "paged"
    BY <1>2, <1>3, <2>1, PagesAssumption DEF PagesInv
  <2>5. sharp = "full"
    BY <1>3, <2>1 DEF PagesInv, sharp
  <2>6. \A b \in Claimants : pairs[b].figure = Total
    BY <2>1, <2>2, <2>3 DEF Disagree
  <2>7. \A b \in DOMAIN pairs : pairs[b].page # 0 /\ pairs[b].figure # 0 => b \in Claimants
    BY DEF Claimants
  <2> QED  BY <1>10, <2>3, <2>4, <2>5, <2>6, <2>7
<1>14. QuietTotalIsUnanimous'
  BY <1>3, <1>13 DEF QuietTotalIsUnanimous, Merged
<1> QED  BY <1>3, <1>11, <1>12, <1>14 DEF PagesInv, AutoAcceptedIsEarned

LEMMA OnePassKeepsPages ==
  ASSUME PagesInv, NEW b \in Batch, NEW a \in AnswersOf(b), NEW v \in Vendors, OnePass(a, v)
  PROVE  PagesInv'
<1>1. PagesTypeOK
  BY DEF PagesInv
<1>2. /\ plan \in Plans /\ link \in 1..Providers /\ pairs \in Seq(Said) /\ Len(pairs) <= Batches
      /\ dpi \in [Batch -> Resolution] /\ pixels \in [Batch -> Resolution]
      /\ verify \in Checks
  BY <1>1, PagesTypes
<1>3. /\ plan = "one_pass" /\ stage' = "graded" /\ UNCHANGED <<plan, link, pairs, dpi, pixels, verify>>
      /\ result' = [NoResult EXCEPT !.total = a.figure, !.vendor = v, !.low = a.figure = 0]
  BY DEF OnePass
<1>4. a \in Said
  BY DEF Said
<1>5. a.figure \in {0} \cup Figures
  BY <1>4, SaidIsTyped
<1>6. NoResult \in Results /\ NoResult.verified = NoResult.from
  BY DEF NoResult, Results, Vendors
<1>7. result' \in Results /\ result'.verified = result'.from
  BY <1>3, <1>5, <1>6 DEF Results
<1>8. PagesTypeOK'
  BY <1>2, <1>3, <1>7 DEF PagesTypeOK, Said, Checks, Results, Batch, AnswersOf, NoAnswer, Resolution, Vendors, Currencies
<1> QED  BY <1>3, <1>7, <1>8 DEF PagesInv, QuietTotalIsUnanimous, AutoAcceptedIsEarned, Merged

(* Only high grades are accepted unseen.                                   *)
LEMMA StoreKeepsPages ==
  ASSUME PagesInv, NEW others, NEW source \in Currencies, NEW trusted \in BOOLEAN,
         Store(others, source, trusted)
  PROVE  PagesInv'
<1>1. PagesTypeOK
  BY DEF PagesInv
<1>2. /\ plan \in Plans /\ link \in 1..Providers /\ pairs \in Seq(Said) /\ Len(pairs) <= Batches
      /\ dpi \in [Batch -> Resolution] /\ pixels \in [Batch -> Resolution]
      /\ verify \in Checks /\ result \in Results
  BY <1>1, PagesTypes
<1> DEFINE s == ReviewStatus(others, source)
           review == IF s = "auto_accepted" /\ ~trusted THEN "pending" ELSE s
<1>3. /\ stage' = "stored" /\ UNCHANGED <<plan, link, pairs, dpi, pixels, verify>>
      /\ result' = [result EXCEPT !.currency = source, !.review = review]
  BY DEF Store
<1>4. s \in {"auto_accepted", "pending", "flagged"}
  BY DEF ReviewStatus, Status
<1>5. s = "auto_accepted" => result.total > 0 /\ result.vendor # "none" /\ source # "assumed"
  <2> SUFFICES ASSUME s = "auto_accepted"
               PROVE  result.total > 0 /\ result.vendor # "none" /\ source # "assumed"
    OBVIOUS
  <2> DEFINE currency == IF source = "inferred" THEN "high" ELSE CurrencyGrade(source)
  <2>1. Grades(others, currency) = {"high"}
    BY DEF ReviewStatus, Status
  <2>2. /\ (IF result.total > 0 THEN "high" ELSE "low") = "high"
        /\ (IF result.vendor = "none" THEN "low" ELSE "high") = "high"
        /\ currency = "high"
    BY <2>1 DEF Grades
  <2> QED  BY <2>2 DEF CurrencyGrade
<1> HIDE DEF s
<1>6. review \in {"none", "auto_accepted", "pending", "flagged"} /\ (review = "auto_accepted" => s = "auto_accepted")
  BY <1>4
<1> HIDE DEF review
<1>7. /\ result' \in Results /\ result'.review = review /\ result'.currency = source
      /\ result'.total = result.total /\ result'.vendor = result.vendor
      /\ result'.verified = result.verified /\ result'.from = result.from
  BY <1>2, <1>3, <1>6 DEF Results
<1>8. PagesTypeOK'
  BY <1>2, <1>3, <1>7 DEF PagesTypeOK, Said, Checks, Results, Batch, AnswersOf, NoAnswer, Resolution, Vendors, Currencies
<1>9. AutoAcceptedIsEarned'
  <2>1. result.total > 0 => result.total # 0
    OBVIOUS
  <2> QED  BY <1>5, <1>6, <1>7, <2>1 DEF AutoAcceptedIsEarned
<1> QED  BY <1>3, <1>7, <1>8, <1>9 DEF PagesInv, QuietTotalIsUnanimous, Merged

LEMMA PagesInvariant == PagesSpec => []PagesInv
<1>1. PagesInv /\ [PagesNext]_pages => PagesInv'
  <2> SUFFICES ASSUME PagesInv, [PagesNext]_pages
               PROVE  PagesInv'
    OBVIOUS
  <2>1. ASSUME NEW b \in Batch, NEW a \in AnswersOf(b),
               \/ \E v \in Vendors : OnePass(a, v)
               \/ b = Current /\ ReadBatch(a)
               \/ b = Len(pairs) /\ Sharpen(a)
               \/ stage = "verify" /\ verify.todo # {} /\ b = First(verify.todo) /\ \E asked \in BOOLEAN : Verify(a, asked)
        PROVE  PagesInv'
    BY <2>1, OnePassKeepsPages, ReadingKeepsPages
  <2>2. CASE StartVerify \/ OutOfBudget \/ EndVerify
    BY <2>2, CheckingKeepsPages
  <2>3. CASE ProviderFails \/ SecondOpinion
    BY <2>3, HandOverKeepsPages
  <2>4. ASSUME NEW v \in Vendors, Merge(v)
        PROVE  PagesInv'
    BY <2>4, MergeKeepsPages
  <2>5. ASSUME NEW g \in {"high", "medium", "low"}, NEW s \in Currencies, NEW t \in BOOLEAN, Store(g, s, t)
        PROVE  PagesInv'
    BY <2>5, StoreKeepsPages
  <2>6. CASE UNCHANGED pages
    <3>1. UNCHANGED <<plan, stage, link, pairs, dpi, pixels, verify, result>>
      BY <2>6 DEF pages
    <3>2. Claimants' = Claimants /\ Chosen' = Chosen
      BY <3>1 DEF Claimants, Chosen, Before
    <3>3. PagesTypeOK'
      BY <3>1 DEF PagesInv, PagesTypeOK, Batch, AnswersOf, NoAnswer, Resolution, Vendors, Currencies
    <3> QED  BY <3>1, <3>2, <3>3 DEF PagesInv, QuietTotalIsUnanimous, AutoAcceptedIsEarned, Merged
  <2> QED  BY <2>1, <2>2, <2>3, <2>4, <2>5, <2>6 DEF PagesNext
<1> QED  BY <1>1, PagesBegin, PTL DEF PagesSpec

(* For any number of page batches, providers and calls of budget, a total  *)
(* nobody is asked to look at is what every claim says, was read at full   *)
(* resolution, and what is accepted unseen has total, vendor and currency. *)
THEOREM TotalsAreEarned == PagesSpec => []TotalIsEarned
<1>1. PagesInv => TotalIsEarned
  <2> SUFFICES ASSUME PagesInv
               PROVE  TotalIsEarned
    OBVIOUS
  <2> QED  BY DEF PagesInv, TotalIsEarned, MarkedAsRead
<1> QED  BY <1>1, PagesInvariant, PTL
=============================================================================
