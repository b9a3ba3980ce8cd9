---------------------------- MODULE DocumentQueue ----------------------------
(***************************************************************************)
(* The document processing queue: the processing_jobs table, the one drain *)
(* loop of the uvicorn process (DocumentQueueWorker) with the asyncio      *)
(* tasks it spawns, the supervisor, the cached model probe, the job        *)
(* endpoints a user calls, and the loss and recovery of the process.       *)
(*                                                                         *)
(* Everything between two awaits runs without interleaving, so one action  *)
(* is one such segment; RerouteHalf is the one handler here that makes two *)
(* database transactions and gets no further than the first.               *)
(*                                                                         *)
(* Jobs are numbered in the order of their rows (created_at, position, id).*)
(* next_attempt_at is kept as due: it is NULL or already past.             *)
(***************************************************************************)
EXTENDS Integers, FiniteSets

CONSTANTS Jobs,         \* row identifiers, numbered in claim order
          Slots,        \* LOCAL_LLM_MAX_CONCURRENT
          MaxAttempts,  \* processing_jobs.max_attempts
          WaitLimit,    \* _TIMEOUT_WAIT_LIMIT, where the backoff ladder saturates too
          MaxRestarts,  \* bound: times the process stops or dies
          MaxRetries,   \* bound: times a user sends a settled job back
          MaxLoopDeaths,\* bound: times the drain loop dies
          MaxWriteFaults\* bound: database writes that raise

ASSUME JobsAssumption == Jobs \subseteq Nat /\ IsFiniteSet(Jobs)
ASSUME SlotsAssumption == Slots \in Nat \ {0}
ASSUME LimitsAssumption == MaxAttempts \in Nat \ {0} /\ WaitLimit \in Nat
ASSUME BoundsAssumption ==
  /\ MaxRestarts \in Nat /\ MaxRetries \in Nat
  /\ MaxLoopDeaths \in Nat /\ MaxWriteFaults \in Nat

VARIABLES
  status,     \* processing_jobs.status; "absent" before, "removed" after the row
  attempts,   \* processing_jobs.attempts
  waits,      \* processing_jobs.transient_waits, saturated at WaitLimit
  due,        \* next_attempt_at IS NULL OR next_attempt_at <= NOW()
  error,      \* processing_jobs.error_code with its message
  held,       \* the row snapshot each running task was spawned with
  tasks,      \* DocumentQueueWorker._running
  loop,       \* where the drain loop is
  free,       \* the free slots a tick counted before it probed the model
  lastSeen,   \* DocumentQueueWorker._last_reachable
  probe,      \* _probe: the cached verdict, "stale" once its TTL is over
  modelUp,    \* the model endpoint answers (external)
  up,         \* the uvicorn process is serving
  left        \* what the named bounds still allow

rowVars == <<status, attempts, waits, due, error>>
workerVars == <<held, tasks, loop, free, lastSeen, probe>>
vars == <<rowVars, workerVars, modelUp, up, left>>

-----------------------------------------------------------------------------
Runnable == {"queued", "waiting_for_model"}
Pending == Runnable \cup {"running"}
Terminal == {"done", "failed", "cancelled"}

(* mutant: a running job may be re-filed                                   *)
ReroutableRunning == Pending \cup {"failed"}
Reroutable == Runnable \cup {"failed"}

RetryableDone == Terminal
Retryable == {"failed", "cancelled"}

Statuses == Pending \cup Terminal \cup {"absent", "removed"}

(* _last_reachable is True, False or None                                  *)
Reached == {"yes", "no", "unknown"}

(* What the row says of its last failure: that the endpoint could not be   *)
(* reached, that the timeout ladder is spent, one of PERMANENT_ERROR_CODES,*)
(* or anything else (nothing included).                                    *)
Errors == {"other", "unreachable", "exhausted", "permanent"}
NoRow == [attempts |-> 0, waits |-> 0]

WithStatus(s) == {j \in Jobs : status[j] = s}
Waiting == {j \in Jobs : status[j] \in Runnable}

(* C is what asking k times for the oldest job of S yields                 *)
Oldest(C, S, k) ==
  /\ C \subseteq S
  /\ Cardinality(C) <= k
  /\ Cardinality(C) < k => C = S
  /\ \A j \in C, i \in S \ C : j < i

Spend(b) == left[b] > 0 /\ left' = [left EXCEPT ![b] = @ - 1]

TypeOK ==
  /\ status \in [Jobs -> Statuses]
  /\ attempts \in [Jobs -> 0..MaxAttempts]
  /\ waits \in [Jobs -> 0..WaitLimit]
  /\ due \in [Jobs -> BOOLEAN]
  /\ error \in [Jobs -> Errors]
  /\ held \in [Jobs -> [attempts : Nat, waits : Nat]]
  /\ tasks \subseteq Jobs
  /\ loop \in {"idle", "probing", "dead"}
  /\ free \in 0..Slots
  /\ lastSeen \in Reached
  /\ probe \in {"yes", "no", "stale"}
  /\ modelUp \in BOOLEAN /\ up \in BOOLEAN
  /\ left \in [{"restarts", "retries", "deaths", "faults"} -> Nat]

Init ==
  /\ status = [j \in Jobs |-> "absent"]
  /\ attempts = [j \in Jobs |-> 0]
  /\ waits = [j \in Jobs |-> 0]
  /\ due = [j \in Jobs |-> TRUE]
  /\ error = [j \in Jobs |-> "other"]
  /\ held = [j \in Jobs |-> NoRow]
  /\ tasks = {} /\ loop = "idle" /\ free = 0 /\ lastSeen = "unknown"
  /\ probe = "stale"
  /\ modelUp \in BOOLEAN /\ up = TRUE
  /\ left = [restarts |-> MaxRestarts, retries |-> MaxRetries,
             deaths |-> MaxLoopDeaths, faults |-> MaxWriteFaults]

-----------------------------------------------------------------------------
(* The job endpoints. Each runs to its end on the event loop.              *)

NewRow(j) ==
  /\ status[j] = "absent"
  /\ \A i \in Jobs : i < j => status[i] # "absent"

(* insert_processing_job: a new upload, at the end of the line             *)
Enqueue(j) ==
  /\ up /\ NewRow(j)
  /\ status' = [status EXCEPT ![j] = "queued"]
  /\ UNCHANGED <<attempts, waits, due, error, workerVars, modelUp, up, left>>

(* mutant: attempts are not reset                                          *)
BlankKeepsCount(S) ==
  /\ attempts' = attempts
  /\ waits' = [j \in Jobs |-> IF j \in S THEN 0 ELSE waits[j]]
  /\ due' = [j \in Jobs |-> j \in S \/ due[j]]
  /\ error' = [j \in Jobs |-> IF j \in S THEN "other" ELSE error[j]]

(* the columns of rows that are gone, or start over                        *)
Blank(S) ==
  /\ attempts' = [j \in Jobs |-> IF j \in S THEN 0 ELSE attempts[j]]
  /\ waits' = [j \in Jobs |-> IF j \in S THEN 0 ELSE waits[j]]
  /\ due' = [j \in Jobs |-> j \in S \/ due[j]]
  /\ error' = [j \in Jobs |-> IF j \in S THEN "other" ELSE error[j]]

(* cancel_processing_job: queued only                                      *)
Cancel(j) ==
  /\ up /\ status[j] = "queued"
  /\ status' = [status EXCEPT ![j] = "cancelled"]
  /\ UNCHANGED <<attempts, waits, due, error, workerVars, modelUp, up, left>>

(* retry_processing_job: the same row, its counters reset                  *)
Retry(j) ==
  /\ up /\ status[j] \in Retryable /\ Spend("retries")
  /\ status' = [status EXCEPT ![j] = "queued"]
  /\ Blank({j})
  /\ UNCHANGED <<workerVars, modelUp, up>>

(* reroute_job_to_receipt: the old row deleted, a new one inserted         *)
Reroute(j, k) ==
  /\ up /\ status[j] \in Reroutable /\ NewRow(k)
  /\ status' = [status EXCEPT ![j] = "removed", ![k] = "queued"]
  /\ Blank({j})
  /\ UNCHANGED <<workerVars, modelUp, up, left>>

(* the INSERT that should follow the DELETE raises, or never comes because *)
(* the process dies here (Crash next)                                      *)
RerouteHalf(j) ==
  /\ up /\ status[j] \in Reroutable /\ Spend("faults")
  /\ status' = [status EXCEPT ![j] = "removed"]
  /\ Blank({j})
  /\ UNCHANGED <<workerVars, modelUp, up>>

(* delete_processing_jobs: settled rows only                               *)
ClearJobs(s) ==
  /\ up /\ s \in Terminal /\ WithStatus(s) # {}
  /\ status' = [j \in Jobs |-> IF status[j] = s THEN "removed" ELSE status[j]]
  /\ Blank(WithStatus(s))
  /\ UNCHANGED <<workerVars, modelUp, up, left>>

-----------------------------------------------------------------------------
(* tick(), cut at its one await                                            *)

(* mutant: slots that are taken are counted as free                        *)
AllSlots == Slots
FreeSlots == Slots - Cardinality(tasks)

(* nothing waiting: the verdict is forgotten and nothing is probed         *)
TickIdle ==
  /\ up /\ loop = "idle" /\ FreeSlots > 0 /\ Waiting = {}
  /\ lastSeen' = "unknown"
  /\ UNCHANGED <<rowVars, held, tasks, loop, free, probe, modelUp, up, left>>

TickProbe ==
  /\ up /\ loop = "idle" /\ FreeSlots > 0 /\ Waiting # {}
  /\ loop' = "probing" /\ free' = FreeSlots
  /\ UNCHANGED <<rowVars, held, tasks, lastSeen, probe, modelUp, up, left>>

(* probe_model_reachable: the cache while it is fresh, else the endpoint   *)
Endpoint == IF modelUp THEN "yes" ELSE "no"
Verdict == IF probe = "stale" THEN Endpoint ELSE probe

ProbeAnswers(v) ==
  /\ Verdict = v
  /\ probe' = v /\ lastSeen' = v
  /\ loop' = "idle" /\ free' = 0

(* the endpoint does not answer: queued jobs are parked, none is claimed   *)
TickPark ==
  /\ up /\ loop = "probing" /\ ProbeAnswers("no")
  /\ status' = [j \in Jobs |-> IF status[j] = "queued" THEN "waiting_for_model" ELSE status[j]]
  /\ due' = [j \in Jobs |-> IF status[j] = "queued" THEN FALSE ELSE due[j]]
  /\ error' = [j \in Jobs |-> IF status[j] = "queued" THEN "unreachable" ELSE error[j]]
  /\ UNCHANGED <<attempts, waits, held, tasks, modelUp, up, left>>

(* resume_waiting: the endpoint answers and that is news                   *)
Resumed(j) == status[j] = "waiting_for_model" /\ lastSeen # "yes"

(* mutant: only 'queued' rows are claimed                                  *)
ClaimableQueued == {j \in Waiting : status[j] = "queued" /\ due[j]}

(* jobs the claim query may return after it                                *)
Claimable == {j \in Waiting : due[j] \/ Resumed(j)}

(* up to k jobs are claimed, oldest first, and a task spawned for each,    *)
(* once the parked jobs have resumed                                       *)
Claims(k) ==
  /\ \E claimed \in SUBSET Jobs :
       /\ Oldest(claimed, Claimable, k)
       /\ status' = [j \in Jobs |-> IF j \in claimed THEN "running" ELSE status[j]]
       /\ tasks' = tasks \cup claimed
       /\ held' = [j \in Jobs |-> IF j \in claimed
                                  THEN [attempts |-> attempts[j], waits |-> waits[j]]
                                  ELSE held[j]]
  /\ due' = [j \in Jobs |-> due[j] \/ Resumed(j)]

(* the endpoint answers: every free slot is filled                         *)
TickClaim ==
  /\ up /\ loop = "probing" /\ ProbeAnswers("yes")
  /\ Claims(free)
  /\ UNCHANGED <<attempts, waits, error, modelUp, up, left>>

(* a database call of the tick raises: parking or resuming leaves the rows *)
(* alone, a claim ends the round with fewer tasks; _run logs it            *)
TickBreaks ==
  /\ up /\ loop = "probing" /\ Spend("faults")
  /\ loop' = "idle" /\ free' = 0 /\ probe' = Verdict
  /\ \/ /\ lastSeen' = IF Verdict = "yes" THEN lastSeen ELSE "no"
        /\ UNCHANGED <<status, due, tasks, held>>
     \/ /\ Verdict = "yes" /\ lastSeen' = "yes"
        /\ \E k \in 0..(free - 1) : Claims(k)
  /\ UNCHANGED <<attempts, waits, error, modelUp, up>>

-----------------------------------------------------------------------------
(* The end of a task: _execute and _handle_failure, which work from the    *)
(* snapshot the task was spawned with and write by job id alone.           *)

EndTask(j) ==
  /\ up /\ j \in tasks
  /\ tasks' = tasks \ {j}
  /\ held' = [held EXCEPT ![j] = NoRow]
  /\ UNCHANGED <<loop, free, lastSeen, probe, modelUp, up>>

(* mark_done                                                               *)
Succeed(j) ==
  /\ EndTask(j)
  /\ status' = [status EXCEPT ![j] = "done"]
  /\ due' = [due EXCEPT ![j] = TRUE]
  /\ error' = [error EXCEPT ![j] = "other"]
  /\ UNCHANGED <<attempts, waits, left>>

(* mark_waiting: a rung up the ladder, no attempt consumed                 *)
Park(j, why) ==
  /\ status' = [status EXCEPT ![j] = "waiting_for_model"]
  /\ waits' = [waits EXCEPT ![j] = IF held[j].waits < WaitLimit
                                   THEN held[j].waits + 1 ELSE WaitLimit]
  /\ due' = [due EXCEPT ![j] = FALSE]
  /\ error' = [error EXCEPT ![j] = why]
  /\ UNCHANGED <<attempts, left>>

(* mark_queued_for_retry while the budget lasts, otherwise mark_failed     *)
Charge(j, why) ==
  LET spent == held[j].attempts + 1
      again == spent < MaxAttempts /\ why # "permanent"
  IN /\ status' = [status EXCEPT ![j] = IF again THEN "queued" ELSE "failed"]
     /\ attempts' = [attempts EXCEPT ![j] = spent]
     /\ due' = [due EXCEPT ![j] = ~again]
     /\ error' = [error EXCEPT ![j] = why]
     /\ UNCHANGED <<waits, left>>

(* An error shaped like a lost connection, of the local endpoint or of any *)
(* hosted provider, whatever the probe says: the job waits, with no limit  *)
Unreachable(j) ==
  /\ EndTask(j)
  /\ Park(j, "unreachable")

(* mutant: a timeout is waited on without limit                            *)
TimedOutWaits(j) == EndTask(j) /\ Park(j, "other")

(* a read timeout is waited on WaitLimit times, then it is a failure       *)
TimedOut(j) ==
  /\ EndTask(j)
  /\ IF held[j].waits >= WaitLimit THEN Charge(j, "exhausted") ELSE Park(j, "other")

(* anything else the engine raised                                         *)
Fails(j, why) ==
  /\ EndTask(j) /\ why \in {"other", "permanent"}
  /\ Charge(j, why)

(* the write that should record the outcome raises: it escapes _execute,   *)
(* the done callback still frees the slot, the row stays as it was         *)
LoseWrite(j) ==
  /\ EndTask(j) /\ Spend("faults")
  /\ UNCHANGED rowVars

-----------------------------------------------------------------------------
(* The process                                                             *)

(* the drain loop ends for a reason of its own; tasks carry on             *)
LoopDies ==
  /\ up /\ loop # "dead" /\ Spend("deaths")
  /\ loop' = "dead" /\ free' = 0
  /\ UNCHANGED <<rowVars, held, tasks, lastSeen, probe, modelUp, up>>

(* _supervise puts it back after a delay                                   *)
Supervise ==
  /\ up /\ loop = "dead"
  /\ loop' = "idle"
  /\ UNCHANGED <<rowVars, held, tasks, free, lastSeen, probe, modelUp, up, left>>

MemoryLost ==
  /\ tasks' = {} /\ held' = [j \in Jobs |-> NoRow]
  /\ loop' = "idle" /\ free' = 0 /\ lastSeen' = "unknown"
  /\ probe' = "stale"

(* requeue_running_jobs                                                    *)
Requeued ==
  /\ status' = [j \in Jobs |-> IF status[j] = "running" THEN "queued" ELSE status[j]]
  /\ due' = [j \in Jobs |-> due[j] \/ status[j] = "running"]
  /\ UNCHANGED <<attempts, waits, error>>

(* killed: rows keep whatever they said                                    *)
Crash ==
  /\ up /\ Spend("restarts") /\ up' = FALSE
  /\ MemoryLost
  /\ UNCHANGED <<rowVars, modelUp>>

(* stop(): the tasks are cancelled and their rows handed back              *)
Stop ==
  /\ up /\ Spend("restarts") /\ up' = FALSE
  /\ MemoryLost /\ Requeued
  /\ UNCHANGED modelUp

(* mutant: nothing is re-queued at startup                                 *)
BootAsIs ==
  /\ ~up /\ up' = TRUE
  /\ UNCHANGED <<rowVars, workerVars, modelUp, left>>

Boot ==
  /\ ~up /\ up' = TRUE
  /\ Requeued
  /\ UNCHANGED <<workerVars, modelUp, left>>

(* the startup re-queue raised: it is logged and the server boots anyway   *)
BootUnrecovered ==
  /\ ~up /\ up' = TRUE /\ Spend("faults")
  /\ UNCHANGED <<rowVars, workerVars, modelUp>>

-----------------------------------------------------------------------------
(* Time and the endpoint                                                   *)

BackoffElapses(j) ==
  /\ ~due[j] /\ due' = [due EXCEPT ![j] = TRUE]
  /\ UNCHANGED <<status, attempts, waits, error, workerVars, modelUp, up, left>>

ProbeExpires ==
  /\ probe # "stale" /\ probe' = "stale"
  /\ UNCHANGED <<rowVars, held, tasks, loop, free, lastSeen, modelUp, up, left>>

(* GET /api/jobs probes too: worker_status                                 *)
StatusProbe ==
  /\ up /\ probe = "stale" /\ probe' = Endpoint
  /\ UNCHANGED <<rowVars, held, tasks, loop, free, lastSeen, modelUp, up, left>>

EndpointChanges ==
  /\ modelUp' = ~modelUp
  /\ UNCHANGED <<rowVars, workerVars, up, left>>

-----------------------------------------------------------------------------
UserAct ==
  \/ \E j \in Jobs : Enqueue(j) \/ Cancel(j) \/ Retry(j)
  \/ \E j, k \in Jobs : Reroute(j, k)
  \/ \E s \in Terminal : ClearJobs(s)

Tick == TickIdle \/ TickProbe \/ TickPark \/ TickClaim \/ TickBreaks

Answered(j) ==
  Succeed(j) \/ Unreachable(j) \/ TimedOut(j) \/ \E why \in {"other", "permanent"} : Fails(j, why)

Failure ==
  \/ LoopDies \/ Crash \/ Stop \/ BootUnrecovered
  \/ \E j \in Jobs : RerouteHalf(j) \/ LoseWrite(j)

Next ==
  \/ UserAct
  \/ Tick
  \/ \E j \in Jobs : Answered(j) \/ BackoffElapses(j)
  \/ Supervise \/ Boot \/ ProbeExpires \/ StatusProbe \/ EndpointChanges
  \/ Failure

Spec == Init /\ [][Next]_vars

(* The loop polls every _POLL_SECONDS and never returns; the supervisor    *)
(* and the service manager put things back; the per-call timeout ends      *)
(* every task; clocks run. Users, faults and the endpoint owe nothing.     *)
Fairness ==
  /\ WF_vars(Tick) /\ WF_vars(Supervise) /\ WF_vars(Boot) /\ WF_vars(ProbeExpires)
  /\ \A j \in Jobs : WF_vars(Answered(j)) /\ WF_vars(BackoffElapses(j))

FairSpec == Spec /\ Fairness

-----------------------------------------------------------------------------
(* Properties                                                              *)

(* No task works on a row somebody else has moved: cancel, re-file, clear, *)
(* retry and the parking of queued jobs all leave running rows alone       *)
(* (REROUTABLE_JOB_STATUSES and the WHERE clauses of the job endpoints).   *)
(* So the counters the task was spawned with are still those of its row,   *)
(* and _handle_failure never writes back a stale attempts or waits.        *)
TasksHoldTheirRows == tasks \subseteq WithStatus("running")
SnapshotFresh ==
  \A j \in tasks : held[j] = [attempts |-> attempts[j], waits |-> waits[j]]
TasksOwnTheirRows == TasksHoldTheirRows /\ SnapshotFresh

(* Never more jobs at once than LOCAL_LLM_MAX_CONCURRENT, although a tick  *)
(* counts its free slots before it waits for the probe.                    *)
ConcurrencyBound ==
  /\ Cardinality(tasks) <= Slots
  /\ loop = "probing" => free <= FreeSlots

(* A job that may still run has an attempt left, and one that was given up *)
(* on had used them all or was permanently unreadable: neither a restart   *)
(* nor an outage nor a user's retry upsets the count.                      *)
AttemptBudget ==
  \A j \in Jobs :
    /\ status[j] \in Pending => attempts[j] < MaxAttempts
    /\ status[j] = "failed" => error[j] = "permanent" \/ attempts[j] = MaxAttempts

(* "Nothing is lost to a restart": while the process serves, every running *)
(* row has the task that will settle it.                                   *)
NoRunningRowForgotten == up => WithStatus("running") \subseteq tasks

(* An upload is started past an older one only while that one is serving   *)
(* a backoff of its own.                                                   *)
NoOvertaking ==
  [][\A i, j \in Jobs :
       i < j /\ j \in tasks' \ tasks /\ status[i] \in Runnable
         => i \in tasks' \/ ~due'[i]]_vars

(* A task ends by parking its job with LOCAL_MODEL_UNREACHABLE_CODE.       *)
LosesConnection(j) ==
  j \in tasks \ tasks' /\ status'[j] = "waiting_for_model" /\ error'[j] = "unreachable"

(* Once the endpoint stays up, and from some time on no request ends in an *)
(* error that reads as a lost connection, every accepted upload settles,   *)
(* through any number of read timeouts, restarts, outages and a drain loop *)
(* that died. The second premise is what the code needs: _handle_failure   *)
(* limits how often a timeout is waited on, and no other wait.             *)
UploadsSettle ==
  /\ <>[]modelUp
  /\ <>[][\A j \in Jobs : ~LosesConnection(j)]_vars
  => \A j \in Jobs : (status[j] \in Pending) ~> (status[j] \notin Pending)

(* The queue keeps the promise of JobLifecycle: a running row counts as    *)
(* active only while a task holds it.                                      *)
Phase ==
  [j \in Jobs |-> IF j \in tasks THEN "active"
                  ELSE IF status[j] \in Pending THEN "waiting" ELSE status[j]]

Lifecycle == INSTANCE JobLifecycle WITH phase <- Phase

LifecycleSpec == Lifecycle!Spec
=============================================================================
