------------------------------- MODULE Gather -------------------------------
(***************************************************************************)
(* The mailbox scan of server/api/gather.py and the gatherers it and the   *)
(* orchestrator of core/gather run: five searches of a Gmail account, then *)
(* PayPal, Wise and the manual folders, each offering items that are told  *)
(* apart by source id and by the hash of their bytes, saved to disk and    *)
(* then logged. The scan runs in a thread of its own beside the receipts.  *)
(***************************************************************************)
EXTENDS ReceiptIntake, Sequences

CONSTANTS Items,    \* attachments, bodies, PayPal rows, Wise balances, files
          Kind,     \* [Items -> "attachment", "body", "paypal", "wise", "manual"]
          Holds,    \* [Items -> Bytes]: what an item is once downloaded
          Rejected, \* items score_document does not include
          MaxScans  \* bound: scans started

ASSUME ItemsAssumption ==
  Holds \in [Items -> Bytes] /\ Rejected \subseteq Items /\ MaxScans \in Nat

VARIABLES
  scanRow,   \* status of the last scan_runs row
  thread,    \* the thread of that scan, or of the orchestrator
  files,     \* copies of each item in the output directory
  log,       \* gather_log, by item
  scans      \* scans started

scanning == <<scanRow, thread, files, log, scans>>
vars == <<intake, scanning>>

(* gather() of core/gather/gmail.py, then the sources gather_all adds      *)
Mail == <<"attachment", "attachment", "body", "attachment", "body">>
Everything == Mail \o <<"paypal", "wise", "manual">>

NoThread == [by |-> None, passes |-> <<>>, todo |-> {}, saved |-> {}]
Runs(by, passes) == [by |-> by, passes |-> passes, todo |-> {}, saved |-> {}]

GatherTypeOK ==
  /\ scanRow \in {None, "RUNNING", "COMPLETED", "FAILED"}
  /\ thread.by \in {None, "scan", "orchestrator"}
  /\ thread.todo \subseteq Items /\ thread.saved \subseteq Items
  /\ files \in [Items -> 0..2] /\ log \subseteq Items /\ scans \in 0..MaxScans

GatherInit ==
  /\ scanRow = None /\ thread = NoThread
  /\ files = [i \in Items |-> 0] /\ log = {} /\ scans = 0

Known(i) == Holds[i] \in processed \cup {Holds[k] : k \in log}

Aside == UNCHANGED intake

-----------------------------------------------------------------------------
(* POST /gather/scan: 409 while a row says RUNNING. (Bound: one at a time; *)
(* the row sees to that among scans, and nothing runs the orchestrator yet)*)
StartScan ==
  /\ scanRow # "RUNNING" /\ thread = NoThread /\ scans < MaxScans
  /\ scanRow' = "RUNNING" /\ scans' = scans + 1
  /\ thread' = Runs("scan", Mail)
  /\ UNCHANGED <<files, log>> /\ Aside

(* The thread finds Gmail disconnected, or an exception reaches it: before *)
(* the first search or after the last, since each search catches its own.  *)
ScanFails ==
  /\ thread.by = "scan" /\ thread.passes \in {Mail, <<>>} /\ thread.todo = {}
  /\ scanRow' = "FAILED" /\ thread' = NoThread
  /\ UNCHANGED <<files, log, scans>> /\ Aside

(* gather() answers at once when it cannot authenticate: no documents, and *)
(* the row still says COMPLETED.                                           *)
Unauthenticated ==
  /\ thread.by = "scan" /\ thread.passes = Mail /\ thread.todo = {}
  /\ scanRow' = "COMPLETED" /\ thread' = NoThread
  /\ UNCHANGED <<files, log, scans>> /\ Aside

ScanEnds ==
  /\ thread.by = "scan" /\ thread.passes = <<>> /\ thread.todo = {}
  /\ scanRow' = "COMPLETED" /\ thread' = NoThread
  /\ UNCHANGED <<files, log, scans>> /\ Aside

(* GatherOrchestrator.gather_all: no row, every enabled source             *)
StartAll ==
  /\ thread = NoThread /\ scans < MaxScans /\ scans' = scans + 1
  /\ thread' = Runs("orchestrator", Everything)
  /\ UNCHANGED <<scanRow, files, log>> /\ Aside

AllEnds ==
  /\ thread.by = "orchestrator" /\ thread.passes = <<>> /\ thread.todo = {}
  /\ thread' = NoThread
  /\ UNCHANGED <<scanRow, files, log, scans>> /\ Aside

-----------------------------------------------------------------------------
(* The next search lists some of the items of its kind; or it raises, and  *)
(* only its pass is lost.                                                  *)
Lists(S) ==
  /\ thread.passes # <<>> /\ thread.todo = {}
  /\ S \subseteq {i \in Items : Kind[i] = Head(thread.passes)}
  /\ thread' = [thread EXCEPT !.passes = Tail(@), !.todo = S]
  /\ UNCHANGED <<scanRow, files, log, scans>> /\ Aside

Handled(i) == thread' = [thread EXCEPT !.todo = @ \ {i}, !.saved = @ \ {i}]

(* Its source id is in the log; it cannot be fetched; it is not included;  *)
(* or its bytes are known already.                                         *)
Skips(i) ==
  /\ i \in thread.todo /\ thread.saved = {}
  /\ Handled(i)
  /\ UNCHANGED <<scanRow, files, log, scans>> /\ Aside

(* mutant: only the source id is looked up                                 *)
BySourceOnly(i) == i \notin log \cup Rejected
IsNew(i) == i \notin log \cup Rejected /\ ~Known(i)

(* _save_file never overwrites: it counts up to a free name. A statement   *)
(* of Wise is downloaded under its own name, and before its hash is known. *)
SavedAs(i) == IF Kind[i] = "wise" THEN 1 ELSE files[i] + 1

Saves(i) ==
  /\ i \in thread.todo /\ thread.saved = {} /\ files[i] < 2
  /\ IsNew(i) \/ (Kind[i] = "wise" /\ i \notin log)
  /\ files' = [files EXCEPT ![i] = SavedAs(i)]
  /\ thread' = [thread EXCEPT !.saved = @ \cup {i}]
  /\ UNCHANGED <<scanRow, log, scans>> /\ Aside

Logs(i) ==
  /\ i \in thread.saved
  /\ log' = IF Kind[i] = "wise" /\ Known(i) THEN log ELSE log \cup {i}
  /\ Handled(i)
  /\ UNCHANGED <<scanRow, files, scans>> /\ Aside

(* insert_gather_log raises, and the rest of the pass is lost with it.     *)
PassBreaks ==
  /\ thread.todo # {} /\ Half
  /\ thread' = [thread EXCEPT !.todo = {}, !.saved = {}]
  /\ UNCHANGED <<scanRow, files, log, scans, phase, job, doc, record, upload, history>>

GatherRestart == Restart /\ thread' = NoThread /\ UNCHANGED <<scanRow, files, log, scans>>

Scan ==
  \/ StartScan \/ ScanFails \/ Unauthenticated \/ ScanEnds \/ StartAll \/ AllEnds \/ PassBreaks
  \/ \E S \in SUBSET Items : Lists(S)
  \/ \E i \in Items : Skips(i) \/ Saves(i) \/ Logs(i)

Init == IntakeInit /\ GatherInit

Next == Scan \/ GatherRestart \/ (IntakeNext /\ UNCHANGED scanning)

Spec == Init /\ [][Next]_vars

-----------------------------------------------------------------------------
Unharmed == left = [halves |-> MaxHalves, restarts |-> MaxRestarts]

Kept(b) == {i \in Items : Holds[i] = b /\ Kind[i] # "wise" /\ files[i] > 0}

(* However often the same bytes are offered, by several searches, several  *)
(* mails and several scans, they are saved once, unless a scan was cut off *)
(* between a file and its log entry; and what is a document already is not *)
(* gathered again, whichever way it came in and however often it was       *)
(* deleted and uploaded anew, unless its row of processed_files went with  *)
(* the statements. (A Wise statement is downloaded before it can be        *)
(* recognised.)                                                            *)
GatheredOnce ==
  [][/\ GatherTypeOK'
     /\ Unharmed' => \A b \in Bytes : /\ Cardinality(Kept(b)') <= 1
                                     /\ \A i \in Kept(b)' : files'[i] = 1
     /\ \A i \in Items : Kind[i] # "wise" /\ files'[i] > files[i]
          => ~Stored(Holds[i]) \/ Holds[i] \in unrecorded]_vars
=============================================================================
