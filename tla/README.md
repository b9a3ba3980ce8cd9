# A verification project for KFAutonomousAccounting

Autonomous Accounting takes bank statements and receipts, reads them with a language model, matches receipts to
transactions in the background, links transfers, categorizes, and reports on the result. This directory holds
TLA+ models of the parts whose correctness depends on the order of events or on arithmetic at a boundary, TLC
configurations that check them on small instances, and proofs, checked by TLAPS, that every property of a
passing run other than the two of liveness holds for instances of every size. Paths are relative to the
repository's root; the models follow the source.

1. The system and its hazards
2. The modules and how they correspond to the code
3. The runs, their bounds and the fairness they assume
4. What is proved, and how
5. What is only model-checked, and why
6. Divergences
7. What is not modelled
8. What is left

To repeat the checks: `tlc -workers 2 -config Queue.cfg MCDocumentQueue.tla` (section 3 names the module of
each run) and `tlapm DocumentQueueProofs.tla` (section 4 names the modules with proofs).

## 1. The system and its hazards

One FastAPI process, one event loop, one PostgreSQL database. Handlers that call the database directly do
so without awaiting and run to their end before another handler does. What interleaves is (a) a handler
that awaits, (b) the queue's tasks, which await the database and the model, (c) the threads of background
runs (reconciliation, categorization, the mailbox scan), (d) the browser's tabs, and (e) the process
stopping at any moment. Every database call is a transaction of its own unless the code groups several.

| Component | State it keeps | Operations | Modelled by |
|---|---|---|---|
| Document queue worker (`server/jobs/document_queue.py`) | `processing_jobs`; in memory the active tasks, the probe's verdict | tick (probe, park, claim), settle, retry with backoff, supervise, stop, recover at startup | `DocumentQueue`, `JobLifecycle` |
| Job endpoints (`server/api/jobs.py`) | none of their own | cancel, retry, re-file, clear finished | `DocumentQueue`, `StatementImport` |
| Statement upload and import (`server/api/transactions.py`) | `statements`, `transactions`, the file | upload, parse and insert, close, delete, sweep at startup | `StatementImport` |
| Receipt intake (`server/api/receipts.py`) | `documents`, `processed_files`, jobs | upload, process, correct, re-extract, delete | `ReceiptIntake` |
| Gather (`server/api/gather.py`, `core/gather/`) | `scan_runs`, `gather_log`, files | scan, download, log | `Gather` |
| Extraction engine (`core/extraction.py`) | a document's page batches, two semaphores | ask, retry, correct, sharpen, verify, merge, grade | `ProviderChain`, `ReceiptPages` |
| Statement parsing (`core/llm_statement_parser.py`, ...) | one reading | read, validate, correct, compare, import | `StatementReading`, `ProviderChain` |
| Match ledger (`db/database_pg.py`, `server/api/reconciliation.py`, `transactions.py`) | match rows, links, the statuses derived from them | matches, bundles, proofs, review, undo, ignore, link, delete, reset, repair at startup | `MatchLedger` |
| Reconciliation run (`server/api/reconciliation.py`, `core/reconciliation.py`, both linkers) | a claim, what it read, adjudication memory | claim, link, stamp, propose, score, assign, store, settle, link again | `Reconciliation`, `PairScoring`, `Matching`, `Linking` |
| Categorization agent (`core/categorization_agent/`) | progress, vendor cache, labels | load, cluster, decide, refine, check, cache, write, clear | `Categorization` |
| Sessions and accounts (`server/local_auth.py`) | refresh-token families | sign in, rotate, replay, revoke | `RefreshTokens`, `BrowserTabs` |
| Web client (`web/src/lib/auth-client.ts`) | session in memory and in storage, a lock, a channel | refresh, broadcast, adopt, back off | `BrowserTabs` |
| Reports and binder (`core/export_binder.py`, `html_binder.py`, `server/api/reports.py`) | none | counts, archive, three writers | `Reports` |
| Tickets and SSE; file storage; schema and pool; scripts; rate limits, headers | see section 7 | | not modelled |

What makes them hard, and what makes them correct. `PROJECT.json` lists each hazard at its line with the
properties that cover it; in short:

* **Queue.** A job outlives the task that runs it, the loop that claimed it and the process. A running row
  must have a task, counters computed from a row read minutes ago must not lose an update, the slots must
  hold though the free ones are counted before an await, an older upload must not be overtaken, and every
  accepted upload must settle once the model answers.
* **Import.** One upload is a chain of transactions in two actors, and other handlers replace, delete, cancel,
  retry or re-file in between. A statement shown as processing must have a job that will finish it, a
  charge must have a statement, "done" must mean every charge is in.
* **Receipts and gather.** Duplicate checks stand before an await; a second reading meets the user's
  correction; a scan may stop between a file and its log entry; uploads and scans share only hashes.
* **Reading.** Retries, budgets, ladders and corrective questions multiply unless bounded; a slot must never
  be lost; a wrong figure must not be marked as verified, nor a wrong statement as certain.
* **Ledger and run.** A dozen verbs change match rows and each re-derives the statuses of both sides; the run
  works for minutes on what it read; the startup sweep states the derivation a second time in SQL.
* **Matching and linking.** The outcome must not depend on the order of workers; money, party and the user's
  refusal must stand against confident agents; no row may be given twice.
* **Categorization.** Two runs that know nothing of each other, a cache cleared under one of them, a budget
  charged from many threads, and a user who confirms rows meanwhile.
* **Sessions.** Several tabs refresh one token with a lock that is two storage calls; answers and broadcasts
  come late or never; honest tabs must not look like thieves, nor a message resurrect a session.
* **Reports.** A binder reads statuses, proofs and links apart while a run writes between the reads; no row may be
  shown in a state it never was in.

## 2. The modules and how they correspond to the code

```
JobLifecycle  <-- DocumentQueue (refines it: LifecycleSpec)    <- DocumentQueueProofs    <- MCDocumentQueue
     ^ ^--------- StatementImport (the queue as it sees it)    <- StatementProofs        <- MCStatementImport
     +----------- ReceiptIntake <-- Gather, beside ReceiptPages  <- GatherProofs         <- MCGather
MatchLedger   <-- Reconciliation <-- Reports                   <- BooksProofs            <- MCReconciliation
PairScoring   <-- Matching                                     <- MatchingProofs         <- MCMatching
                  Linking                                      <- LinkingProofs          <- MCLinking
                  Categorization                               <- CategorizationProofs   <- MCCategorization
RefreshTokens <-- BrowserTabs                                  <- BrowserTabsProofs      <- MCBrowserTabs
ProviderChain, StatementReading                                <- StatementProofs        <- MCReading
```

`MCGather` and `MCReading` hold two machines each that share nothing; a variable `machine` picks one of
them per behaviour, so that one run checks both.

**JobLifecycle**, the abstract queue. One variable, `phase`: what an observer sees of a job. A job starts
only from waiting and within the slots, is cancelled only while it waits, retried only from failed or
cancelled, and returns to waiting when parked, backing off or interrupted.

**DocumentQueue**, the worker. `status`, `attempts`, `waits`, `due`, `error` are columns of
`processing_jobs` (`due` is `next_attempt_at <= now()`); `tasks` and `held` are `_running` and the counters
each task took at its claim; `probe`, `lastSeen`, `modelUp` the reachability verdict, the last sight and
the endpoint; `up`, `loop`, `free` the process, the drain loop and the slots the tick counted. A tick is
several actions because it awaits: `TickProbe` counts, then `TickPark` or `TickClaim`; `TickBreaks` is a
claim that raises half-way. A task ends in `Succeed`, `Unreachable`, `TimedOut` or `Fails`, with the
counters `_handle_failure` computes from the row *held at the claim*; `LoseWrite` is the write that raises.
`Unreachable` is any error shaped like a lost connection, of any provider, whether the endpoint is up or not.
`Cancel`, `Retry`, `Reroute`, `ClearJobs` are the endpoints; `Crash`, `Stop`, `Boot`, `LoopDies`,
`Supervise` the process. Rows are numbered in order of `created_at`.

**StatementImport**, one statement from upload to books. `job`, `stmt`, `ledger` (for each charge, the job it was
imported under), `upload` (where each request stands), `phase`. `upload_bank_statement` is two steps because the scan
is awaited between the duplicate check with its replacement and the opening of the row. `Import` is the task's parse
and insert; actions ending in `Half` are handlers that stop between two of their transactions; `Restart` re-queues and
sweeps. A look for a duplicate that raises is taken by the handler for "no duplicate" (`UploadChecksBlind`), and the
replacement follows as for a new file. Charges are shared between files; the dedup index keeps each under the first.
`JobLifecycle` lets the queue do a little more here than it does.

**ReceiptIntake**, a receipt from the drop zone to `documents`. `job` is each job's hash, `doc` who the
fields come from and the review status, `processed` the `processed_files` table, `upload` what each
request waits for (`Sniff` a read of the body, `CountPages` the thread that counts a PDF's pages). Extraction
stores in two transactions (`ExtractedHalf`, `ExtractedUnrecorded`, `ExtractedUnjudged` are its partial
outcomes); `Correct`, `Delete`, `DeleteByHash`, `ForgetHash`, `ClearAll` are the user's. Statements are cleared,
deleted and replaced in another component, but strike rows of `processed_files`, whoever put them there
(`StatementsCleared`, `SourceFileDeleted`).

**Gather**, the mailbox scan beside it: five searches of a mail account, then PayPal, Wise and manual
folders. Each item is told apart by source id and by hash (`IsNew`), saved (`Saves`) and then logged
(`Logs`); `PassBreaks` and a restart come between. The search results are external.

**ReceiptPages**, a long scanned receipt: batches are asked (`ReadBatch`), asked again sharper (`Sharpen`),
the batch whose total would be taken and those that disagree are verified at full resolution within a budget
(`Verify`, `OutOfBudget`), then merged, graded and stored; `ProviderFails` and `SecondOpinion` hand the same
plan to the next provider.

**ProviderChain**, how one document or question goes down local, Gemini, OpenAI. Within a call: retries, a larger
budget, a corrective question, a ladder of models. Within a provider: a call for each batch of pages, again for a
sharper rendering, for verifications, and for a statement's balance correction, which goes down the whole ladder
anew. All of it happens behind the two semaphores. Receipts, statements and agents walk it by different rules
(`Kinds`). What a statement's failure counts as is read off the *text* of all that went wrong (`cuts`).

**StatementReading**, what becomes of the lines a bank printed: a reading with up to `MaxSlips` mistakes (a
line missed or read twice, a sign or a figure wrong, no date, a date outside the period, another day inside it), the
de-duplication of paged readings, the validator's flags and tier, one corrective question, the comparison
with the regex parser, the import. Each pass of the code over the lines is a function on how many of them have
been gone through: what was read and kept (`RowsRead`), what the balances moved by (`Moves`), what the regex
parser makes of the lines it matched (`LegacyRows`).

**MatchLedger**, the reconciled books: `txn` and `doc` statuses, `row` the match rows, `linked` and
`unlinked`. One operator per verb with everything its handler writes: rows first, then `Resync`
(`_resync_transaction_statuses`, `_resync_document_statuses`). `Unique` is the two partial indexes. Verbs that
write a status without deriving it do so here too. `Repair` is the sweep of `status_repair.py`. A bundle verb
works on some set of rows of one transaction; a score is whether it reaches the floor.

**Reconciliation**, the background run. `run` is its memory: the step, the pool it read, the rejections, the
rows it saw (`seen`, by id), the proposal it stores (`now`), the rows it displaces (`out`). Each of its
database transactions is an action, beside the verbs; those that refuse while a run is going are under
`Guarded`. `ResetUnderRun` is `reset-and-start` once the claim has gone stale. Here the matcher's choice is any
pair of the pool.

**PairScoring and Matching** give that choice: the currency a proof is read in, the amount rule, dates, names,
the flags (`PairScoring`); pools, the three agents and their remembered replies, proposals, `Resolve` by the
lexicographic key, three rounds (`Matching`). A worker reads nothing another writes, so it is one step.

**Linking**: the deterministic linker (`Candidate`, `Greedy`), the models' pass over what it left (`Ask`,
`Answer`, `Assign`), the startup of a run that sets evident rows aside, and the user's `Unlink`, `Approve`,
`LinkByHand`.

**Categorization**: `row`, `proof`, `cache`, the progress `board`, `run` (what each run holds), `epoch`. A run
reads (`LoadCache`, `LoadAndCluster`), decides per vendor in waves within the budget (`DecideWave`), refines,
checks itself, upserts the cache and writes with the WHERE that spares confirmed rows
(`UpdateCategorizations`). A wave of concurrent questions is one step whose outcome covers their orders.

**RefreshTokens and BrowserTabs**: `row` is `auth.refresh_tokens`, each operator one transaction on it;
`session`, `stored`, `lock`, `inbox`, `call` are a tab's memory, localStorage, the refresh lock, the
BroadcastChannel and the request under way. A server request is one step (its handler has no await) unless a
failure splits it (`RotateHalf`). Time is two events: `GraceEnds` and `HourPasses`; `calm` records whether
somebody refreshed early or took a minute.

**Reports**: functions of the books. A binder reads the rows with their statuses, then the proofs, then the
links, in transactions of their own. Handlers that export do not interleave with other handlers, so between the
first and the last read of one month's binder only the run's thread steps, and it writes once: first reads are
unprimed, last reads primed (`MonthBinders`); `Whole` is a binder that reads all at once. `Line` is all that the
three writers say of one row: its cell in the HTML, its cell in the workbook, its pairs on the Transfers sheet, its
class and the README's reason. Rows are of one month; money, names, folders and layout are left out.

## 3. The runs, their bounds and the fairness they assume

| Run | Module | Instance | Distinct states | Shows |
|---|---|---|---|---|
| `Queue` | MCDocumentQueue | 2 jobs, 1 slot, 2 attempts, wait limit 1; one restart, one user retry, one raising write | 488,224 | `TasksOwnTheirRows`, `ConcurrencyBound`, `AttemptBudget`, `NoOvertaking`, `LifecycleSpec` |
| `QueueLive` | MCDocumentQueue | the same without retry and raising write, with one death of the loop; fair | 227,504 | `NoRunningRowForgotten`, `UploadsSettle` |
| `Statement` | MCStatementImport | 2 jobs, 1 slot, 2 concurrent uploads, 2 names, 2 contents sharing a charge; two handlers that stop half-way, one restart | 613,704 | `ProcessingHasAJob`, `ChargesHaveTheirStatement`, `DoneIsImported`, `IdenticalDropKeepsRow` |
| `BooksBundle` | MCReconciliation | 1 transaction, 2 receipts, 2 match rows; one verb during each run | 421,153 | `DocumentedIsResolved`, `ExclusionStands`, `SweepAgrees`, `NoRowIsTorn` |
| `BooksSplit` | MCReconciliation | 2 transactions, 1 receipt, 2 match rows; no verb during a run but a reset | 318,144 | `DocumentedIsResolved`, `ReceiptKept`, `NoRowIsTorn` |
| `BooksStranded` | MCReconciliation | 1 transaction, 1 receipt, 1 row, one verb during a run | 886 | violation of `NeverStranded`, section 6 |
| `Tabs` | MCBrowserTabs | 2 tabs, 3 tokens, 3 sessions minted, one failure, inbox of 1 | 1,761,309 | `OneSession`, `HonestTabsAreSpared`, `SessionsMoveOn` |
| `Intake` | MCGather | 2 jobs, 2 uploads, a photo and a PDF, 3 items, at most two jobs and scans together, one half, one restart; 3 batches, 2 providers, 1 verification call, 2 figures | 1,059,064 | `OneJobPerContent`, `DocumentsStand`, `GatheredOnce`, `TotalIsEarned` |
| `Reading` | MCReading | a receipt and a statement, local then Gemini with 2 rungs, 2 document slots, 1 local slot, each reader 2 batches, 1 verification call; 6 printed statements, at most 2 of 8 kinds of slips; fair | 94,095 | `LoadIsBounded`, `EveryProviderHadItsTurn`, `EveryReadEnds`, `OneSlipIsSeen`, `ReadingStands` |
| `Matching` | MCMatching | 3 proofs, 3 rows, 3 books, 3 rounds | 58,697 | `RunsRepeat`, `TwinsAllMatched`, `MatchesAreEarned`, `HeldIsKept` |
| `Linking` | MCLinking | 4 rows, 3 books, 3 runs, one verb, 3 pairs in batches of one | 553,591 | `LinksAreSound`, `RefusedStaysUnlinked`, `LegsFindEachOther` |
| `Categorization` | MCCategorization | 2 rows, 2 vendors, 2 runs out of three that may be under way, 4 calls, one user act or one mishap | 1,115,560 | `AsksWithinReason`, `LockHolds`, `VendorsAgree` |

### The properties

Queue. `TasksOwnTheirRows`: nothing takes a row from its task, and the counters the task holds are still the
row's. `ConcurrencyBound`: tasks and the claims a tick still has to make stay within the slots. `AttemptBudget`:
a row that can still run has an attempt left; one given up on had used them all or was unreadable.
`NoOvertaking`: a job starts past an older one only while that one serves a backoff. `LifecycleSpec`: the
queue implements `JobLifecycle`. `NoRunningRowForgotten`, `UploadsSettle`: see the fairness below.

Import. `ProcessingHasAJob`: a statement shown as processing has a job in flight, unless a handler stopped
half-way, and again after the sweep. `ChargesHaveTheirStatement`: no charge outlives its statement.
`DoneIsImported`: a job that becomes done has every charge of its file in the books. `IdenticalDropKeepsRow`:
dropping the same file again does not remove the statement of a job in flight, but where the upload's look in the
queue raised (section 6).

Books. `DocumentedIsResolved`: only the run's late write makes MATCHED or LINKED of a transaction with nothing
behind it. `ExclusionStands`: only the user's toggle and the blind writes it names take EXCLUDED away.
`ReceiptKept`: only the review endpoint's rejection releases a receipt an approved row proves with.
`SweepAgrees`: the sweep leaves the statuses the request path derives. `NoRowIsTorn`: a binder shows each row as the
books had it before the run's write or after it, although it read statuses, proofs and links apart; but for a row
the run links and one whose match it displaces though it was approved meanwhile (section 6).

Receipts and gather. `OneJobPerContent`: of two live jobs with the same bytes one was let in, or put back half
done, without a look for the other, or was inserted while the pages of the other were being counted, after its look.
Two PDFs dropped one after the other are read once. `DocumentsStand`: what the user corrected reads as corrected,
unless a second job of the same bytes slipped past the looks; and what is stored is on the record of hashes, unless
its write was lost or the row went with the statements. `GatheredOnce`: bytes are saved once unless a scan was cut
off, and not when they are a document whose row of `processed_files` is still there. `TotalIsEarned`: a total nobody
is asked to check is agreed by all batches that claim it, its mark of full resolution is true before a hand-over, and
what skips review has an amount, a vendor and a currency.

Reading. `LoadIsBounded`: the semaphores hold; a call is at most five requests to a chat provider and two per rung of
the ladder; and a document's calls to one provider add up to a bound in its batches and verifications. Only calls
and the requests of a call multiply. `EveryProviderHadItsTurn`: failure and waiting both mean that every provider
failed; a document waits as for an outage, at no cost of an attempt, only when some provider could not be reached
(another that answered with an error changes nothing of that), and always when the local endpoint is all there is and
could not be. `EveryReadEnds`: every queued document is read or fails. `OneSlipIsSeen`: on a legible statement one
mistake about the money (a row too many or too few, or more than two cents off) or a date outside the period never
comes out HIGH; of a wrong day inside the period nothing checks (section 6). Legible is what the validator needs: real
lines of the period, of more than two cents, since that is its tolerance, and in a reading by batches no two lines of
the same day and text, since the de-duplication may take such a line, misread as its neighbour, for a repeat (section
6). `ReadingStands`: the kept reading is never worse than the first by the balance, no rows are traded away, HIGH is
imported, a flawless reading is LOW only with next to no rows (fewer than three of an account, none of a card), and
the regex parser gets the directions right where it matched every line of a deposit account.

Matching. `RunsRepeat`: two runs over the same replies give the same matches in any order of workers.
`TwinsAllMatched`: proofs that all fit all the rows, twins or not, are all matched or no row is left.
`MatchesAreEarned`: a match that is settled and not a suggestion rests on amounts that agree (to a wire fee, a rate of
the band, a converted or quoted figure), and across two known currencies always does; where the currency is the same
or unknown, a row near enough to be shown may instead settle on an agent's word or on a confidence at the floor,
whatever it differs by (section 6). Money out is not settled by a sale, nor a named line by another's proof; one proof
for one row, nothing refused. `HeldIsKept`: no later round takes a settled row.

Linking. `LinksAreSound`: no row twice; no refund of more than was paid; what the deterministic linker finds of
differing amounts in one currency is left to the user; what the models' pass links, approved or not, left one account
and entered another within three weeks with amounts near enough to be shown; the certain is settled; LINKED is
explained. `RefusedStaysUnlinked`: what the user took back is not made again. `LegsFindEachOther`: a leg set aside
early is found when the other statement comes.

Categorization. `AsksWithinReason`: no run sends more than its budget, and a Recategorize All alone with its
cache uses nothing older. `LockHolds`: only the user changes a confirmed row. `VendorsAgree`: the rows of a
vendor get its decision, notes and locks apart.

Tabs. `OneSession`: a family has one live pair however many tabs present one token, and is revoked whole.
`HonestTabsAreSpared`: without failures, haste or sleep no family is revoked for theft. `SessionsMoveOn`: no
message resurrects or rewinds a session.

### Bounds, and why they are enough

*Queue.* Two jobs and one slot are the least with which one waits for another, overtakes it and races it. Two attempts
make the last differ from the first, a wait limit of 1 gives each rung of the ladder. One restart, retry, death or
fault can come at every point, and nothing but the bound remembers it. Outages alternate without bound. *Statement.*
Two requests are the least for a race, two names for "the same bytes under another name", two contents with a common
charge for an import that finds some taken. *Books.* Each run takes two of what the other takes one of. Runs, restarts
and verbs between runs are unbounded. *Tabs.* Three tokens are a token, its successor and a second family or
generation; three tabs were checked aside (740,697 states with four sessions minted and no failure). *Intake.* `Few`
keeps jobs and scans together at two: enough for each pair of actors. *Reading.* Two slips are the least that may
balance each other; the two readers contend for the one local slot; two batches and one verification make a reader ask
again after an answer. *Matching.* Three proofs for three rows are the least for a third round; the books hold equal
twins, contested rows, foreign amounts, and a row of another figure near enough to settle on an agent's word;
`Narrowings` lists the answers of the date agent. *Linking.* Four rows are a charge and three refunds, or a payment,
its near miss and two legs; links may come while the models are asked. *Categorization.* `Few` allows one verb or one
mishap, at every point of two overlapping runs; the rule branch (`Ruled`) is not exercised. The theorems of section 4
hold without any bound being small.

*Symmetry* is used where elements are interchangeable and no property of the run is a liveness property. Jobs and
rows that carry an order are numbers.

*Deadlock* is checked in `Queue`, `QueueLive` and `Statement`. Elsewhere the system may stop for good: a user
may delete everything, all documents may have been read, or the bounds on runs and tokens are spent.

### Fairness

`UploadsSettle` (`FairSpec`): the loop is polled every `_POLL_SECONDS`, the supervisor puts a dead loop back, the
service manager starts the process, every model call has a timeout so a task ends, backoffs pass and cached verdicts
go stale: weak fairness of each. Users, faults and the endpoint owe nothing. The premise is that the endpoint stays up
and that from some time on no request ends in an error that reads as a lost connection, since the code waits on those
without limit (section 6). The run has no raising database write, with which the property is false.

`EveryReadEnds` (`ChainFairness`): both semaphores wake their waiters in order of arrival, hence strong fairness
of entering and passing, and no request outlives its timeout, hence weak fairness of `TimesOut`. A slow answer is
not owed: any fault may come instead, forever.

## 4. What is proved, and how

Eight modules hold theorems. Each `Spec => ...` is for every value of the constants that satisfies the named
`ASSUME`s of the component's module: finite sets of jobs numbered by naturals, positive slots, attempts, rounds
and batches, natural bounds, `None` outside the sets it stands beside, a chain
without repetitions, statements, proofs and rows with the fields their types say. TLC evaluates
them in every run. One theorem has a further hypothesis: `NothingForgotten` assumes `MaxWriteFaults = 0`,
since a raising write does leave a running row behind.

| Module | Theorem | Property |
|---|---|---|
| DocumentQueueProofs | `TypeCorrect` | `TypeOK` |
| | `OwnershipKept` | `TasksOwnTheirRows` |
| | `BudgetKept` | `AttemptBudget` |
| | `ConcurrencyBounded` | `ConcurrencyBound` |
| | `OldestFirst` | `NoOvertaking` |
| | `ImplementsLifecycle` | `LifecycleSpec` |
| | `NothingForgotten` | `NoRunningRowForgotten`, with no raising write |
| StatementProofs | `NoneStranded` | `ProcessingHasAJob` |
| | `ChargesKept` | `ChargesHaveTheirStatement` |
| | `DoneMeansImported` | `DoneIsImported` |
| | `IdenticalKept` | `IdenticalDropKeepsRow` |
| | `LoadBounded` | `LoadIsBounded` |
| | `EveryProviderTried` | `EveryProviderHadItsTurn` |
| | `SlipsAreSeen` | `OneSlipIsSeen` |
| | `ReadingsStand` | `ReadingStands` |
| BooksProofs | `ExclusionKept` | `ExclusionStands` |
| | `ReceiptsKept` | `ReceiptKept` |
| | `SweepSettles` | `SweepAgrees` |
| | `DocumentedHolds` | `DocumentedIsResolved` |
| | `RowsAreWhole` | `NoRowIsTorn` |
| GatherProofs | `ReadOnce` | `OneJobPerContent` |
| | `KnowledgeStays` | `DocumentsStand` |
| | `GatheredOnceHolds` | `GatheredOnce` |
| | `TotalsAreEarned` | `TotalIsEarned` |
| MatchingProofs | `MatchesAreEarnedHolds` | `MatchesAreEarned` |
| | `HeldIsKeptAlways` | `HeldIsKept` |
| | `TwinsAreMatched` | `TwinsAllMatched` |
| | `RunsRepeatAlways` | `RunsRepeat` |
| LinkingProofs | `LinksAreSoundHolds` | `LinksAreSound` |
| | `RefusedStaysUnlinkedHolds` | `RefusedStaysUnlinked` |
| | `LegsFindEachOtherHolds` | `LegsFindEachOther` |
| CategorizationProofs | `AsksWithinReasonHolds` | `AsksWithinReason` |
| | `LockHoldsAlways` | `LockHolds` |
| | `VendorsAgreeAlways` | `VendorsAgree` |
| BrowserTabsProofs | `OneSessionHolds` | `OneSession` |
| | `HonestTabsSparedHolds` | `HonestTabsAreSpared` |
| | `SessionsMoveOnHolds` | `SessionsMoveOn` |

Each proof has one lemma per group of actions that says the invariant survives it, a lemma that puts them
together for `[Next]_vars`, and a last temporal step. What had to be added to make an invariant inductive:

* **Queue** (`IInv`). The attempts a task writes are one more than those it *held*, so `AttemptBudget` needs the
  snapshot to be fresh, and that needs the tasks' rows to be running. `RowsStartBlank` (an inserted row relies
  on its defaults) and `DownIsIdle` (a stopped process has no tasks) close it. The slots are a separate induction
  on the cardinality of `tasks`. The refinement maps a running row with a task to active, one without to waiting.
* **Import** (`IInv`). Only a statement job has a statements row, and a row not yet inserted has nothing.
* **Books** (`IInv`). The types of the books through every verb, and that a run in the middle of storing has a
  pair. `DocumentedIsResolved` goes verb by verb: a status was just derived, or what backs it was kept.
  `NoRowIsTorn` is local to a row (`LineIsLocal`): what a binder says of it depends on its status, its proofs
  and its links. The lemmas then take the run's writes one at a time. A write of statuses alone leaves the later reads
  as they were, so the binder is one made before it; a stored proposal leaves the first read as it was, so the binder is
  one made after it; what a run displaces was under review and proved nothing (`SupersedeIsWhole`), but where a decision
  came between.
* **Receipts** (`JobsInv`, `DocsInv`, `TwinsInv`). Pages are counted of PDFs only, and a job that is there has bytes.
  The jobs and the document of the bytes a request is counting came after its look, or with none (`Looked`), so a job
  that finds its bytes stored has a second job behind it (`ReadsOnce`). **Scan** (`ScanInv`): what a scan that was
  not cut off has on disk is in its log or is about to be, and nothing of the same bytes is on disk twice.
* **Receipt totals** (`PagesInv`). At the first provider the plan's resolution is that of the pixels read; a
  verification and a merge happen to paged plans only; a total that stays silent was read at full resolution when
  merged. That one of the claiming batches is chosen needs a greatest element of a bounded set.
* **Provider chain** (`ChainInv`). A call has an allowance of requests (five for a chat provider, two per rung of
  the ladder) and a provider one of calls, by what the reader is at: its batches, their sharper rendering, the
  verifications still granted, the second reading. All links of the chain behind the reader have failed, and what
  could not be reached is among them. The slots are counted over all readers.
* **Matching** (`MatchInv`, `BackedInv`). Every proposal and holder of a round is backed by what was shown and
  answered: its row was near enough, and its confidence is that of the scores or of a remembered answer. Its pair is
  not refused, and a document is waiting, proposing once for a free row, or holding one row. That
  `Resolve` finds a winner is a lemma on the lexicographic minimum: keys of two documents differ. A first attempt
  failed and showed that evidence must be read off the figure the document was scored by (its total, or its
  amount when there is none).
  **Proofs that all fit** (`FitInv`). While nothing failed and no agent said "none", every proof works, proposes or
  holds a row, a row is free, and each round so far gave one away: so as many rounds as proofs are enough,
  whichever rows they collide on. That the twins are equal is not used, and the property says so.
  **Runs repeat** (`LedInv`). `Path` builds the run a memory leads to, round by round and without workers; the
  invariant says that a question has one answer and that the run stands on that path, the proposals made so far being
  those the path has. Both runs end where the path ends, and it ends in one place.
* **Linking** (`IInv`). What is stored is not enough: the list a run is about to store must be sound with it. Its
  entries are apart from each other and from the undecided links (`Due`), a refund's parts on file and on
  the list stay together within the charge (`Caps`), and rows asked about are free of links until answered (`Asked`).
  That the models' links are plausible goes back through their pass (`Near`): the batches hold plausible pairs, what is
  heard of them is of the batches, what is assigned and stored was heard.
  `RefusedStaysUnlinked` rests on `Unspent`: whatever the run read before, a pair on its list has no link that a
  machine made. The assignment is a recursive function over the sorted candidates; `GreedyRun` unfolds
  it one candidate at a time, and the invariants of that loop are proved by induction on how far it came.
* **Reading** (`ReadInv`). What is kept is the reading, graded, of some slips on the printed lines. The
  arithmetic is below it: with one slip, the rows read and the true rows stand side by side up to the slipped
  line (`SlipAligned`), the sum is off by exactly what that line is off (`SlipMoves`, `OneSlipAdds`), and the
  printed balance then accuses it. Proving it showed what the checked statements had not: two lines of the same
  day and text let a slip through in a reading by batches, and an empty card statement is graded LOW; both are
  in the properties now.
* **Categorization** (`AgentInv`). The shape of each run at each step (`Shaped`), that what it decided was asked
  no later than now (`Before`), and for a run that was alone that the cache holds nothing older (`CacheSince`).
* **Tabs** (`TabsInv`). `OneLivePair` is not inductive: a token whose answer was lost is known to no tab, and a
  replay brings it back. The invariant speaks of every token known *or pointed at* by a rotated one (`Within`,
  `Sound`). **Honest tabs** (`Honest`) rest on a set H of tokens that somebody is about to be given:
  successors of tokens in their grace, tokens in answers and messages, tokens of tabs in backoff. While nobody was
  early, slow or cut off, all of H is unspent and not due, so nobody presents one; what is presented is then at
  most one generation behind and never past its grace; and when storage holds a token that was just rotated, the
  tab with the answer is about to replace it. The proof of this is where the guard `Yields` came from:
  between reading the lock and writing it a tab does nothing else, since no await parts the two; a check with
  three tabs had shown that the model without it allows more.

Recursion and induction. The recursive definitions these proofs are about are functions (`f[n \in S] == ...`), so
their unfolding is a fact: the function that unfolds exists (`RunExists`, `GreedyRun`) and `CHOOSE` takes one. Induction
goes by the least number at which a statement fails, from the well-foundedness of the naturals: `AllUpTo` and its
like carry a set of numbers as parameter, which the provers can instantiate, where the library's induction rules carry
an operator.

## 5. What is only model-checked, and why

* `UploadsSettle`, `EveryReadEnds`: liveness under fairness, and `ENABLED`, are out of this prover's reach.
* `NeverStranded` is false (section 6).

## 6. Divergences

One run shows a statement of the code to be false. **MATCHED with nothing behind it** (`BooksStranded`): `_settle`
(`server/api/reconciliation.py:485`) writes MATCHED to both sides after the insert has committed, without a look
at the row; a rejection in between is overwritten until the next start's sweep, although
`db/database_pg.py:3642` calls that state one "no caller can observe".

The following were met while modelling. The models behave as the code does; no run is about them.

**Queue and import**
* A raising `mark_done` (`document_queue.py:1355`) or a raising write of `_handle_failure` leaves the row `running`
  until the next start, though `_execute` promises that nothing escapes; hence the hypothesis of `NothingForgotten`.
* Any error shaped like a lost connection, a hosted provider's or a timeout of its client included, parks the job as
  for an outage and without limit, though the endpoint is up (`core/llm_errors.py:82`, `document_queue.py:230`); a
  document may so wait for ever, which the comment at `document_queue.py:93` calls the outcome the queue exists to
  avoid. Hence the second premise of `UploadsSettle`.
* An upload whose look in the queue raises takes the file for a new one (`transactions.py:871`, `897`), and the
  replacement at 1018 deletes the row of the job in flight: the exception in `IdenticalDropKeepsRow`.
* `transient_waits` is moved by outages too (`document_queue.py:1372`), so a first timeout after enough outages is
  reported as "Timed out N times".
* Cancelling a job whose import broke half-way says it was cancelled before it was parsed, while its charges stay
  (`server/api/jobs.py:146`). A user's retry leaves the statements row failed (`jobs.py:86`).
* A refused upload has already replaced the earlier data of that name (`transactions.py:1018`; the docstring at 979
  says the books stay). The CSV path deletes prior rows before it parses.
* Charges shared by two files stay with the first importer (`transactions.py:944`).

**Ledger and run**
* A run supersedes and refreshes match rows by id on the status it read at the start of storing
  (`server/api/reconciliation.py:441`), so a decision the user made meanwhile may be displaced or put back to review,
  although "a human's decision is never displaced by a machine". No property says the decision stands.
* The review endpoint's rejection records no user action, so the matcher proposes the pair again; it hands the
  receipt back whatever else it proves (the exception in `ReceiptKept`); and it, the run's stamp and its settle
  overwrite EXCLUDED (the exceptions in `ExclusionStands`).
* `approve-all` settles rows without re-deriving either side; the next start does.
* The sweep makes LINKED of an IGNORED transaction with an approved match and a link; one further start makes it
  MATCHED. A bundle's verbs re-derive once per row, so such a row may pass through LINKED (`DerivedPerRow`).
* Removing one proof of a bundle turns the last into a one-to-one row; if its receipt is split with another
  transaction the index refuses it and the request fails.

**Matching and linking**
* A pair of the same or an unknown currency starts from 0.30 (`core/reconciliation.py:2246`), above the floor of 0.05 at
  1255, so an agent's "high", or the same day and a named party, settles it whatever the amounts, although the
  docstring at 1240 makes a match with no evidence of amount a suggestion. Reset deletes the rejected pairs too.
  `_fix_intermediary_crossassign` is dead. A flagged holder of an earlier round keeps its row, though the comment at
  `core/reconciliation.py:1247` says it is displaceable.
* The linker approves at 0.92 and the database at 0.90; the models' linker has no ceiling for a mismatch
  (`llm_transaction_linker.py:557`, `database_pg.py:1690`), so it approves differing amounts of one currency, which
  `transaction_linker.py:518` keeps for review "never auto-approve"; its 0.82 is unused. The
  `existing_links`/`open_anchors` path is dead, so refund legs that come later never join.
* The fourth pass reads the linked rows once: a link made by hand meanwhile gives a row two links, and one
  made by hand and taken back is made again. Approving a refused link re-derives no status.

**Reading**
* The merge's low confidence is ignored by `review_status_for` (`core/extraction.py:1373`). A retry at higher
  resolution sets `batch.dpi` on the shared plan, so after a hand-over the mark of full resolution may be wrong.
  `page_count` is not stamped on an accepted correction; a local provider that raises leaves no telemetry.
* A statement whose local endpoint refused and whose hosted provider answered with an error waits as for an outage:
  `is_local_endpoint_down` is asked of a `StatementParseError` whose text carries the refusal (`transactions.py:481`,
  `llm_statement_parser.py:1535`, `1619`), against the comment at `llm_statement_parser.py:1608`.
* The hosted statement client (`llm_statement_parser.py:1213`) and the agents' clients keep the SDK's own retries,
  which the bound on requests does not count; the agents' Gemini call has no timeout.
* A misread day inside the period is graded HIGH (`llm_statement_parser.py:1322` checks containment only): the
  exception in `OneSlipIsSeen`.
* The per-rung handler swallows timeouts, so `except asyncio.TimeoutError` at `transactions.py:474` is dead. A hosted
  refusal of connection is classed as a local outage. `llm_model` is recorded as `gemini_model`.
* Automatic acceptance wants gst, hst and pst all positive. A stored row may resolve CAD/inferred where the
  extraction said assumed.
* The running-balance check uses the deposit's sign for cards; `_dedup_rows` ignores the type, so in a reading
  by batches a refund of the same day, text and amount as a payment is dropped, and a line misread as its
  neighbour vanishes into it, which may balance what else was misread; a row dated 2026-02-30 is flagged and
  then the import raises. The CSV path decides PayPal's date order per row and keeps signs that the other path
  drops.

**Receipts and gather**
* Clearing, deleting and replacing statements strike rows of `processed_files` by file name or all of them
  (`transactions.py:1992`, `2148`, `944`), the receipts' among them, and a scan gathers stored receipts again: the
  exceptions in `DocumentsStand` and `GatheredOnce`.
* The handler of `UniqueViolation` is dead behind `ON CONFLICT`. Two identical PDFs dropped together are both read.
  A failed look at the jobs in flight reads as an empty one. A second reading overwrites `corrected`. A deleted
  document comes back when a job is in flight.
* A `scan_runs` row stays RUNNING after a restart, and later scans get 409. An unauthenticated gather ends
  COMPLETED with zeros, and COMPLETED may become FAILED. A file saved but not logged is downloaded again under
  another name. The output directory is shared by all users. Rule 20 never applies on PostgreSQL.

**Categorization**
* Granted calls are charged twice, so the cap is in effect halved and near it the interleaving decides who gets
  through, although "every call is tallied". Clearing a confirmed row's category leaves the lock, so it stays empty.
* COALESCE keeps an old category when a note forces Uncategorized. Positional alignment may give a vendor
  another's decision. A failed Recategorize leaves everything uncategorized; a second may start after ten quiet
  minutes. A run that overlaps one upserts stale decisions after the cache was cleared. A key inherited from a
  rejected proof stays (`vendor_clustering.py:334`). A failed load of proofs goes on without them.

**Sessions and tabs**
* A follower that times out refreshes without publishing; a peer's hard failure signs out a tab that signed in
  anew; `performRefresh` adopts its own late answer over a newer session. A failed call costs the client a
  minute (60 s and a second) and the grace is 60 s, so a tab whose answer was lost may be taken for a thief:
  hence `lost = 0` in `HonestTabsAreSpared`. `sign_out` swallows a database failure.
  `access.invalidate_email_verified_cache` is never called.

**Reports**
* A binder read around the run's storing of a link shows the row with the old status and the new pair; one read around
  the displacement of a match approved meanwhile calls the row matched without a proof: the exceptions in
  `NoRowIsTorn`. A row may be LINKED on a match that waits for review, and the workbook then says "Linked (see
  Transfers sheet)" of a row that has no pair there.
* The year's binder reads the links, then awaits the files of earlier months, so any handler may come between; it is
  not modelled.
* The workbook's note that "each one is documented on the Transfers tab" is false of transfers known only by category or
  whose counterpart is of another month. Its proof cell names a lost file instead of "Missing". Its "documented" goes by
  status, the README's and the HTML's by archived files. The month page shows a receipt for approved matches, and names
  the receipt of pending ones too. The dashboard's latest month is picked from rows that are not all countable.

**Job panel of the web client** (`processing-queue-store.ts`, not modelled)
* After a clear an empty list short-circuits the rebuild; an unchanged signature does so although rows were moved by
  older events; a job that came and went between polls leaves a ghost row; dismissing the only row brings it back.
  `use-sse.ts:50` ("exactly once per job") does not hold. The poll's job list is read before it awaits the
  worker's status. A tab whose event queue overflowed stays "live" but deaf.

## 7. What is not modelled

* **In the modelled components.** Page progress, estimates and event payloads, which decide nothing. A claim
  whose commit succeeds and whose reply is lost. The CSV and XLSX path of the statement upload (synchronous).
  Documents and imports that arrive during a reconciliation run; the run's branch for a failed supersede; the
  expansion of a rejection to duplicate receipts; `diagnose_unmatched`; group ids; `delete_match`, which nothing
  calls. Token expiry and pruning, password hashing, verification mails, OAuth exchanges. `GatherOrchestrator`,
  `ingestion.py` and `gmail_watcher.py`, which nothing wires in; PayPal and Wise field mapping. Prompts, image
  preparation, date repair, vendor clustering's work on text, keyword rules. The regex and CSV parsers' own
  reading of text is data. The archive's folders and links: an `index.html` that fails to render
  (`export_binder.py:1604`) is left out of the archive, and the workbook links the first file of a row only (305).
* **Download tickets and SSE.** `tickets.py` is a vault in memory of opaque single-use tickets (60 s, one scope, at most
  10,000, under one lock): each operation is one critical section. `events.py` keeps a queue of 100 events per
  subscriber and drops a subscriber whose queue is full; the client polls besides.
* **File storage, schema and pool, scripts and configuration, rate limits and headers** are set-up and plumbing; the
  constraints the handlers rely on (unique hash, dedup index, foreign keys, the cycle trigger) are in the
  guards, storage failures are the 503 of the upload and the lost files of a binder.
* **Web client** beyond `auth-client.ts`: it renders what the API says.
* **Code without events**: `core/reasonableness.py` and the benchmarks compare figures with tables; onboarding writes
  settings.

## 8. What is left

1. The synchronous statement path (CSV and XLSX), and the job panel of the web client against the queue's events.
2. A run of its own for the statement that a human's decision is never displaced by a run that is storing, which
   the code does not keep (section 6).
