------------------------- MODULE DocumentQueueProofs -------------------------
(***************************************************************************)
(* What DocumentQueue guarantees for every number of jobs, slots, attempts *)
(* and waits, proved with TLAPS. IInv is the inductive invariant behind    *)
(* all of it; ConcurrencyBound, NoOvertaking and the implementation of     *)
(* JobLifecycle are proved from it.                                        *)
(***************************************************************************)
EXTENDS DocumentQueue, FiniteSetTheorems, TLAPS

(* A row that was never inserted has consumed nothing: Enqueue and Reroute *)
(* do not write the counters.                                              *)
RowsStartBlank == \A j \in Jobs : status[j] = "absent" => attempts[j] = 0

(* A process that is not serving has no tasks.                             *)
DownIsIdle == ~up => tasks = {}

IInv ==
  /\ TypeOK
  /\ TasksHoldTheirRows
  /\ SnapshotFresh
  /\ AttemptBudget
  /\ RowsStartBlank
  /\ DownIsIdle

-----------------------------------------------------------------------------
(* Facts about the operators                                               *)

(* A set of tasks has a cardinality, within the number of jobs.            *)
LEMMA TasksAreFinite ==
  ASSUME tasks \subseteq Jobs
  PROVE  IsFiniteSet(tasks) /\ Cardinality(tasks) \in Nat
BY JobsAssumption, FS_Subset, FS_CardinalityType

(* Spending from a budget leaves a budget.                                 *)
LEMMA SpendIsBudget ==
  ASSUME TypeOK, NEW b \in {"restarts", "retries", "deaths", "faults"}, Spend(b)
  PROVE  left' \in [{"restarts", "retries", "deaths", "faults"} -> Nat]
BY DEF TypeOK, Spend

(* Blanking rows keeps every column in range and restores their attempts.  *)
LEMMA BlankIsTyped ==
  ASSUME TypeOK, NEW S, Blank(S)
  PROVE  /\ attempts' \in [Jobs -> 0..MaxAttempts]
         /\ waits' \in [Jobs -> 0..WaitLimit]
         /\ due' \in [Jobs -> BOOLEAN]
         /\ error' \in [Jobs -> Errors]
BY LimitsAssumption DEF TypeOK, Blank, Errors

-----------------------------------------------------------------------------
LEMMA InitInvariant == Init => IInv
<1> SUFFICES ASSUME Init PROVE IInv
  OBVIOUS
<1>1. TypeOK
  BY SlotsAssumption, LimitsAssumption, BoundsAssumption
  DEF Init, TypeOK, Statuses, Terminal, Pending, Runnable, Errors, NoRow, Reached
<1>2. TasksHoldTheirRows /\ SnapshotFresh /\ DownIsIdle
  BY DEF Init, TasksHoldTheirRows, SnapshotFresh, DownIsIdle
<1>3. AttemptBudget /\ RowsStartBlank
  BY DEF Init, AttemptBudget, RowsStartBlank, Pending, Runnable
<1>4. QED
  BY <1>1, <1>2, <1>3 DEF IInv

-----------------------------------------------------------------------------
(* Each action preserves IInv. The sets behind the type invariant and the  *)
(* status classes are visible from here on.                                *)
USE DEF Statuses, Terminal, Pending, Runnable, Reroutable, Retryable, Errors, Reached

(* The job endpoints leave the worker alone and never touch a running row. *)
LEMMA EndpointsPreserve ==
  ASSUME IInv, UserAct \/ \E j \in Jobs : RerouteHalf(j)
  PROVE  IInv'
<1> USE DEF IInv, TypeOK, TasksHoldTheirRows, SnapshotFresh, AttemptBudget,
            RowsStartBlank, DownIsIdle, WithStatus, workerVars, rowVars
<1>1. ASSUME NEW j \in Jobs, Enqueue(j) PROVE IInv'
  BY <1>1, LimitsAssumption DEF Enqueue, NewRow
<1>2. ASSUME NEW j \in Jobs, Cancel(j) PROVE IInv'
  BY <1>2 DEF Cancel
<1>3. ASSUME NEW j \in Jobs, Retry(j) PROVE IInv'
  <2>1. TypeOK'
    BY <1>3, BlankIsTyped, SpendIsBudget DEF Retry
  <2>2. QED
    BY <1>3, <2>1, LimitsAssumption DEF Retry, Blank
<1>4. ASSUME NEW j \in Jobs, NEW k \in Jobs, Reroute(j, k) PROVE IInv'
  <2>1. TypeOK'
    BY <1>4, BlankIsTyped DEF Reroute
  <2>2. TasksHoldTheirRows' /\ SnapshotFresh' /\ DownIsIdle'
    BY <1>4 DEF Reroute, Blank, NewRow
  <2>3. AttemptBudget' /\ RowsStartBlank'
    BY <1>4, LimitsAssumption DEF Reroute, Blank, NewRow
  <2>4. QED
    BY <2>1, <2>2, <2>3
<1>5. ASSUME NEW s \in Terminal, ClearJobs(s) PROVE IInv'
  <2>1. TypeOK'
    BY <1>5, BlankIsTyped DEF ClearJobs
  <2>2. QED
    BY <1>5, <2>1, LimitsAssumption DEF ClearJobs, Blank
<1>6. ASSUME NEW j \in Jobs, RerouteHalf(j) PROVE IInv'
  <2>1. TypeOK'
    BY <1>6, BlankIsTyped, SpendIsBudget DEF RerouteHalf
  <2>2. QED
    BY <1>6, <2>1, LimitsAssumption DEF RerouteHalf, Blank
<1>7. QED
  BY <1>1, <1>2, <1>3, <1>4, <1>5, <1>6 DEF UserAct

(* Claiming takes only jobs that were waiting, so the tasks it adds hold   *)
(* running rows and fresh snapshots.                                       *)
LEMMA ClaimsPreserve ==
  ASSUME IInv, up, up', NEW k \in Nat, Claims(k), UNCHANGED <<attempts, waits, error>>
  PROVE  /\ status' \in [Jobs -> Statuses] /\ due' \in [Jobs -> BOOLEAN]
         /\ held' \in [Jobs -> [attempts : Nat, waits : Nat]] /\ tasks' \subseteq Jobs
         /\ TasksHoldTheirRows' /\ SnapshotFresh' /\ DownIsIdle'
         /\ AttemptBudget' /\ RowsStartBlank'
<1> USE DEF IInv, TasksHoldTheirRows, SnapshotFresh, AttemptBudget, RowsStartBlank, DownIsIdle
<1>1. PICK claimed \in SUBSET Jobs :
        /\ Oldest(claimed, Claimable, k)
        /\ status' = [j \in Jobs |-> IF j \in claimed THEN "running" ELSE status[j]]
        /\ tasks' = tasks \cup claimed
        /\ held' = [j \in Jobs |-> IF j \in claimed
                                   THEN [attempts |-> attempts[j], waits |-> waits[j]]
                                   ELSE held[j]]
  BY DEF Claims
<1>2. due' = [j \in Jobs |-> due[j] \/ Resumed(j)]
  BY DEF Claims
<1>3. claimed \subseteq Waiting
  BY <1>1 DEF Oldest, Claimable
<1>4. /\ status' \in [Jobs -> Statuses] /\ due' \in [Jobs -> BOOLEAN]
      /\ held' \in [Jobs -> [attempts : Nat, waits : Nat]] /\ tasks' \subseteq Jobs
  BY <1>1, <1>2, LimitsAssumption DEF TypeOK, Resumed
<1>5. TasksHoldTheirRows' /\ SnapshotFresh' /\ DownIsIdle'
  BY <1>1 DEF WithStatus, TypeOK
<1>6. AttemptBudget' /\ RowsStartBlank'
  BY <1>1, <1>2, <1>3 DEF Waiting, TypeOK
<1>7. QED
  BY <1>4, <1>5, <1>6

LEMMA TicksPreserve ==
  ASSUME IInv, Tick
  PROVE  IInv'
<1> USE DEF IInv, TasksHoldTheirRows, SnapshotFresh, AttemptBudget, RowsStartBlank, DownIsIdle
<1>1. CASE TickIdle
  BY <1>1 DEF TickIdle, TypeOK, WithStatus, rowVars
<1>2. CASE TickProbe
  <2>1. free' \in 0..Slots
    BY <1>2, TasksAreFinite, SlotsAssumption DEF TickProbe, FreeSlots, TypeOK
  <2>2. QED
    BY <1>2, <2>1 DEF TickProbe, TypeOK, WithStatus, rowVars
<1>3. CASE TickPark
  <2>1. TypeOK'
    <3>1. status' \in [Jobs -> Statuses] /\ error' \in [Jobs -> Errors]
      BY <1>3 DEF TickPark, TypeOK, Statuses, Pending, Runnable, Errors
    <3>2. due' \in [Jobs -> BOOLEAN]
      BY <1>3 DEF TickPark, TypeOK
    <3>3. /\ loop' = "idle" /\ free' \in 0..Slots /\ lastSeen' = "no" /\ probe' = "no"
          /\ UNCHANGED <<attempts, waits, held, tasks, modelUp, up, left>>
      BY <1>3, SlotsAssumption DEF TickPark, ProbeAnswers
    <3>4. QED
      BY <3>1, <3>2, <3>3 DEF TypeOK
  <2>2. TasksHoldTheirRows' /\ SnapshotFresh' /\ DownIsIdle'
    BY <1>3 DEF TickPark, TypeOK, WithStatus
  <2>3. AttemptBudget' /\ RowsStartBlank'
    BY <1>3 DEF TickPark, TypeOK
  <2>4. QED
    BY <2>1, <2>2, <2>3
<1>4. CASE TickClaim
  <2>1. /\ loop' = "idle" /\ free' = 0 /\ lastSeen' = "yes" /\ probe' = "yes"
        /\ UNCHANGED <<attempts, waits, error, modelUp, up, left>>
    BY <1>4 DEF TickClaim, ProbeAnswers
  <2>2. free \in Nat /\ Claims(free) /\ up
    BY <1>4, SlotsAssumption DEF TickClaim, TypeOK
  <2>3. QED
    BY <2>1, <2>2, ClaimsPreserve, SlotsAssumption DEF TypeOK
<1>5. CASE TickBreaks
  <2>1. /\ loop' = "idle" /\ free' = 0 /\ lastSeen' \in Reached /\ probe' \in {"yes", "no"}
        /\ UNCHANGED <<attempts, waits, error, modelUp, up>> /\ up
    BY <1>5 DEF TickBreaks, Verdict, Endpoint, TypeOK
  <2>2. left' \in [{"restarts", "retries", "deaths", "faults"} -> Nat]
    BY <1>5, SpendIsBudget DEF TickBreaks
  <2>3. CASE UNCHANGED <<status, due, tasks, held>>
    BY <2>1, <2>2, <2>3, SlotsAssumption DEF TypeOK, WithStatus
  <2>4. ASSUME NEW k \in 0..(free - 1), Claims(k) PROVE IInv'
    <3>1. k \in Nat
      BY <2>4
    <3>2. QED
      BY <2>1, <2>2, <2>4, <3>1, ClaimsPreserve, SlotsAssumption DEF TypeOK
  <2>5. QED
    BY <1>5, <2>3, <2>4 DEF TickBreaks
<1>6. QED
  BY <1>1, <1>2, <1>3, <1>4, <1>5 DEF Tick

(* A task that ends gives up its own row only, whatever it writes there.   *)
LEMMA EndTaskPreserves ==
  ASSUME IInv, NEW j \in Jobs, EndTask(j),
         \A i \in Jobs \ {j} : status'[i] = status[i],
         \A i \in Jobs \ {j} : attempts'[i] = attempts[i] /\ waits'[i] = waits[i],
         status' \in [Jobs -> Statuses]
  PROVE  /\ j \in tasks /\ status[j] = "running"
         /\ held[j] = [attempts |-> attempts[j], waits |-> waits[j]]
         /\ held' \in [Jobs -> [attempts : Nat, waits : Nat]]
         /\ tasks' \subseteq Jobs
         /\ TasksHoldTheirRows' /\ SnapshotFresh' /\ DownIsIdle'
  BY DEF IInv, EndTask, TypeOK, NoRow, TasksHoldTheirRows, SnapshotFresh, DownIsIdle, WithStatus

(* mark_waiting keeps the attempts; a row it touches was pending already.  *)
LEMMA ParkPreserves ==
  ASSUME IInv, NEW j \in Jobs, NEW why \in Errors, EndTask(j), Park(j, why)
  PROVE  IInv'
<1>1. status' \in [Jobs -> Statuses] /\ waits' \in [Jobs -> 0..WaitLimit]
      /\ due' \in [Jobs -> BOOLEAN] /\ error' \in [Jobs -> Errors]
  BY LimitsAssumption DEF IInv, TypeOK, Park
<1>2. /\ \A i \in Jobs \ {j} : status'[i] = status[i]
      /\ \A i \in Jobs \ {j} : attempts'[i] = attempts[i] /\ waits'[i] = waits[i]
  BY DEF IInv, TypeOK, Park
<1>3. /\ j \in tasks /\ status[j] = "running"
      /\ held' \in [Jobs -> [attempts : Nat, waits : Nat]] /\ tasks' \subseteq Jobs
      /\ TasksHoldTheirRows' /\ SnapshotFresh' /\ DownIsIdle'
  BY <1>1, <1>2, EndTaskPreserves
<1>4. TypeOK'
  BY <1>1, <1>3 DEF IInv, TypeOK, Park, EndTask
<1>5. AttemptBudget' /\ RowsStartBlank'
  BY <1>3 DEF IInv, TypeOK, Park, AttemptBudget, RowsStartBlank
<1>6. QED
  BY <1>3, <1>4, <1>5 DEF IInv

(* Charging one attempt stays within the budget because the snapshot is    *)
(* fresh, and settles the row exactly when the budget is spent.            *)
LEMMA ChargePreserves ==
  ASSUME IInv, NEW j \in Jobs, NEW why \in Errors, EndTask(j), Charge(j, why)
  PROVE  IInv'
<1> DEFINE spent == held[j].attempts + 1
           again == spent < MaxAttempts /\ why # "permanent"
<1>1. /\ status' = [status EXCEPT ![j] = IF again THEN "queued" ELSE "failed"]
      /\ attempts' = [attempts EXCEPT ![j] = spent]
      /\ due' = [due EXCEPT ![j] = ~again]
      /\ error' = [error EXCEPT ![j] = why]
      /\ UNCHANGED <<waits, left>>
  BY DEF Charge
<1> HIDE DEF spent, again
<1>2. /\ status' \in [Jobs -> Statuses]
      /\ \A i \in Jobs \ {j} : status'[i] = status[i]
      /\ \A i \in Jobs \ {j} : attempts'[i] = attempts[i] /\ waits'[i] = waits[i]
  BY <1>1 DEF IInv, TypeOK
<1>3. /\ j \in tasks /\ status[j] = "running"
      /\ held[j] = [attempts |-> attempts[j], waits |-> waits[j]]
      /\ held' \in [Jobs -> [attempts : Nat, waits : Nat]] /\ tasks' \subseteq Jobs
      /\ TasksHoldTheirRows' /\ SnapshotFresh' /\ DownIsIdle'
  BY <1>2, EndTaskPreserves
<1>4. spent = attempts[j] + 1 /\ spent \in 0..MaxAttempts
  BY <1>3, LimitsAssumption DEF spent, IInv, AttemptBudget, TypeOK
<1>5. TypeOK'
  BY <1>1, <1>2, <1>3, <1>4 DEF IInv, TypeOK, EndTask, again
<1>6. AttemptBudget' /\ RowsStartBlank'
  BY <1>1, <1>4, LimitsAssumption DEF IInv, TypeOK, again, AttemptBudget, RowsStartBlank
<1>7. QED
  BY <1>3, <1>5, <1>6 DEF IInv

(* Every way a task ends.                                                  *)
LEMMA AnswersPreserve ==
  ASSUME IInv, NEW j \in Jobs, Answered(j) \/ LoseWrite(j)
  PROVE  IInv'
<1>1. CASE Succeed(j)
  <2>1. /\ status' \in [Jobs -> Statuses]
        /\ \A i \in Jobs \ {j} : status'[i] = status[i]
    BY <1>1 DEF Succeed, IInv, TypeOK
  <2>2. /\ held' \in [Jobs -> [attempts : Nat, waits : Nat]] /\ tasks' \subseteq Jobs
        /\ TasksHoldTheirRows' /\ SnapshotFresh' /\ DownIsIdle'
    BY <1>1, <2>1, EndTaskPreserves DEF Succeed
  <2>3. TypeOK'
    BY <1>1, <2>1, <2>2 DEF Succeed, EndTask, IInv, TypeOK
  <2>4. AttemptBudget' /\ RowsStartBlank'
    BY <1>1 DEF Succeed, IInv, TypeOK, AttemptBudget, RowsStartBlank
  <2>5. QED
    BY <2>2, <2>3, <2>4 DEF IInv
<1>2. CASE Unreachable(j)
  BY <1>2, ParkPreserves DEF Unreachable, Errors
<1>3. CASE TimedOut(j)
  BY <1>3, ParkPreserves, ChargePreserves DEF TimedOut, Errors
<1>4. ASSUME NEW why \in {"other", "permanent"}, Fails(j, why) PROVE IInv'
  BY <1>4, ChargePreserves DEF Fails, IInv, TypeOK
<1>5. CASE LoseWrite(j)
  <2>1. /\ held' \in [Jobs -> [attempts : Nat, waits : Nat]] /\ tasks' \subseteq Jobs
        /\ TasksHoldTheirRows' /\ SnapshotFresh' /\ DownIsIdle'
    BY <1>5, EndTaskPreserves DEF LoseWrite, IInv, TypeOK, rowVars
  <2>2. TypeOK'
    BY <1>5, <2>1, SpendIsBudget DEF LoseWrite, EndTask, IInv, TypeOK, rowVars
  <2>3. AttemptBudget' /\ RowsStartBlank'
    BY <1>5 DEF LoseWrite, IInv, rowVars, AttemptBudget, RowsStartBlank
  <2>4. QED
    BY <2>1, <2>2, <2>3 DEF IInv
<1>6. QED
  BY <1>1, <1>2, <1>3, <1>4, <1>5 DEF Answered

(* The process: a restart empties the tasks, and re-queueing only moves    *)
(* running rows back in the line.                                          *)
LEMMA RequeueIsTyped ==
  ASSUME TypeOK, Requeued
  PROVE  status' \in [Jobs -> Statuses] /\ due' \in [Jobs -> BOOLEAN]
<1>1. status' \in [Jobs -> Statuses]
  BY DEF TypeOK, Requeued
<1>2. due' \in [Jobs -> BOOLEAN]
  BY DEF TypeOK, Requeued
<1>3. QED
  BY <1>1, <1>2

LEMMA MemoryLostIsTyped ==
  ASSUME MemoryLost
  PROVE  /\ held' \in [Jobs -> [attempts : Nat, waits : Nat]]
         /\ tasks' = {} /\ loop' = "idle" /\ free' \in 0..Slots
         /\ lastSeen' \in Reached /\ probe' = "stale"
BY SlotsAssumption DEF MemoryLost, NoRow

LEMMA ProcessPreserves ==
  ASSUME IInv, LoopDies \/ Supervise \/ Crash \/ Stop \/ Boot \/ BootUnrecovered
  PROVE  IInv'
<1> USE DEF IInv, TasksHoldTheirRows, SnapshotFresh, AttemptBudget, RowsStartBlank, DownIsIdle
<1>1. CASE LoopDies
  <2>1. TypeOK'
    BY <1>1, SpendIsBudget, SlotsAssumption DEF LoopDies, TypeOK, rowVars
  <2>2. QED
    BY <1>1, <2>1 DEF LoopDies, WithStatus, rowVars
<1>2. CASE Supervise
  BY <1>2 DEF Supervise, TypeOK, WithStatus, rowVars
<1>3. CASE Crash
  <2>1. TypeOK'
    BY <1>3, MemoryLostIsTyped, SpendIsBudget DEF Crash, TypeOK, rowVars
  <2>2. QED
    BY <1>3, <2>1, MemoryLostIsTyped DEF Crash, WithStatus, rowVars
<1>4. CASE Stop
  <2>1. TypeOK'
    BY <1>4, MemoryLostIsTyped, RequeueIsTyped, SpendIsBudget DEF Stop, Requeued, TypeOK
  <2>2. AttemptBudget' /\ RowsStartBlank'
    BY <1>4 DEF Stop, Requeued, TypeOK
  <2>3. QED
    BY <1>4, <2>1, <2>2, MemoryLostIsTyped DEF Stop
<1>5. CASE Boot
  <2>1. TypeOK'
    BY <1>5, RequeueIsTyped DEF Boot, Requeued, TypeOK, workerVars
  <2>2. AttemptBudget' /\ RowsStartBlank'
    BY <1>5 DEF Boot, Requeued, TypeOK
  <2>3. QED
    BY <1>5, <2>1, <2>2 DEF Boot, workerVars
<1>6. CASE BootUnrecovered
  <2>1. TypeOK'
    BY <1>6, SpendIsBudget DEF BootUnrecovered, TypeOK, rowVars, workerVars
  <2>2. QED
    BY <1>6, <2>1 DEF BootUnrecovered, WithStatus, rowVars, workerVars
<1>7. QED
  BY <1>1, <1>2, <1>3, <1>4, <1>5, <1>6

LEMMA EnvironmentPreserves ==
  ASSUME IInv, \/ \E j \in Jobs : BackoffElapses(j)
               \/ ProbeExpires \/ StatusProbe \/ EndpointChanges
               \/ UNCHANGED vars
  PROVE  IInv'
<1> USE DEF IInv, TasksHoldTheirRows, SnapshotFresh, AttemptBudget, RowsStartBlank, DownIsIdle
<1>1. ASSUME NEW j \in Jobs, BackoffElapses(j) PROVE IInv'
  BY <1>1 DEF BackoffElapses, TypeOK, WithStatus, workerVars
<1>2. CASE ProbeExpires
  BY <1>2 DEF ProbeExpires, TypeOK, WithStatus, rowVars
<1>3. CASE StatusProbe
  BY <1>3 DEF StatusProbe, Endpoint, TypeOK, WithStatus, rowVars
<1>4. CASE EndpointChanges
  BY <1>4 DEF EndpointChanges, TypeOK, WithStatus, rowVars, workerVars
<1>5. CASE UNCHANGED vars
  BY <1>5 DEF vars, TypeOK, WithStatus, rowVars, workerVars
<1>6. QED
  BY <1>1, <1>2, <1>3, <1>4, <1>5

-----------------------------------------------------------------------------
(* IInv holds of every state the queue can be in, whatever the user, the   *)
(* endpoint, the drain loop and the process do.                            *)
LEMMA StepInvariant == IInv /\ [Next]_vars => IInv'
<1> SUFFICES ASSUME IInv, [Next]_vars PROVE IInv'
  OBVIOUS
<1>1. CASE UserAct \/ \E j \in Jobs : RerouteHalf(j)
  BY <1>1, EndpointsPreserve
<1>2. CASE Tick
  BY <1>2, TicksPreserve
<1>3. CASE \E j \in Jobs : Answered(j) \/ LoseWrite(j)
  BY <1>3, AnswersPreserve
<1>4. CASE LoopDies \/ Supervise \/ Crash \/ Stop \/ Boot \/ BootUnrecovered
  BY <1>4, ProcessPreserves
<1>5. CASE \/ \E j \in Jobs : BackoffElapses(j)
           \/ ProbeExpires \/ StatusProbe \/ EndpointChanges \/ UNCHANGED vars
  BY <1>5, EnvironmentPreserves
<1>6. QED
  BY <1>1, <1>2, <1>3, <1>4, <1>5 DEF Next, Failure

THEOREM Invariance == Spec => []IInv
BY InitInvariant, StepInvariant, PTL DEF Spec

(* Every variable keeps its range.                                         *)
THEOREM TypeCorrect == Spec => []TypeOK
<1>1. IInv => TypeOK
  BY DEF IInv
<1>2. QED
  BY <1>1, Invariance, PTL

(* No task works on a row that a user, the parking of queued jobs or a     *)
(* restart has moved, and the counters it took with it are still the row's *)
(* own when it writes them back (_handle_failure).                         *)
THEOREM OwnershipKept == Spec => []TasksOwnTheirRows
<1>1. IInv => TasksOwnTheirRows
  BY DEF IInv, TasksOwnTheirRows
<1>2. QED
  BY <1>1, Invariance, PTL

(* A job that may still run has an attempt left; one given up on had used  *)
(* them all, or was permanently unreadable.                                *)
THEOREM BudgetKept == Spec => []AttemptBudget
<1>1. IInv => AttemptBudget
  BY DEF IInv
<1>2. QED
  BY <1>1, Invariance, PTL

-----------------------------------------------------------------------------
(* Concurrency                                                             *)

(* A round of claims fills no more than the slots it was given.            *)
LEMMA ClaimsFit ==
  ASSUME TypeOK, NEW k \in Nat, k <= FreeSlots, Claims(k)
  PROVE  Cardinality(tasks') <= Slots
<1>1. PICK claimed \in SUBSET Jobs : Cardinality(claimed) <= k /\ tasks' = tasks \cup claimed
  BY DEF Claims, Oldest
<1>2. IsFiniteSet(tasks) /\ IsFiniteSet(claimed) /\ IsFiniteSet(tasks \cap claimed)
  BY JobsAssumption, FS_Subset DEF TypeOK
<1>3. /\ Cardinality(tasks) \in Nat /\ Cardinality(claimed) \in Nat
      /\ Cardinality(tasks \cap claimed) \in Nat
  BY <1>2, FS_CardinalityType
<1>4. Cardinality(tasks') =
        Cardinality(tasks) + Cardinality(claimed) - Cardinality(tasks \cap claimed)
  BY <1>1, <1>2, FS_Union
<1>5. QED
  BY <1>1, <1>3, <1>4, SlotsAssumption DEF FreeSlots

(* A task that ends frees its slot.                                        *)
LEMMA EndTaskFrees ==
  ASSUME TypeOK, ConcurrencyBound, NEW j \in Jobs, EndTask(j)
  PROVE  ConcurrencyBound'
<1>1. IsFiniteSet(tasks) /\ Cardinality(tasks) \in Nat
  BY TasksAreFinite DEF TypeOK
<1>2. Cardinality(tasks') = Cardinality(tasks) - 1
  BY <1>1, FS_RemoveElement DEF EndTask
<1>3. QED
  BY <1>1, <1>2, SlotsAssumption DEF ConcurrencyBound, FreeSlots, EndTask, TypeOK

LEMMA InitBound == Init => ConcurrencyBound
BY FS_EmptySet, SlotsAssumption DEF Init, ConcurrencyBound

LEMMA StepBound == IInv /\ ConcurrencyBound /\ [Next]_vars => ConcurrencyBound'
<1> SUFFICES ASSUME IInv, ConcurrencyBound, [Next]_vars PROVE ConcurrencyBound'
  OBVIOUS
<1> USE DEF ConcurrencyBound, FreeSlots
<1>t. IsFiniteSet(tasks) /\ Cardinality(tasks) \in Nat /\ TypeOK
  BY TasksAreFinite DEF IInv, TypeOK
<1>1. CASE UserAct \/ \E j \in Jobs : RerouteHalf(j)
  <2>1. UNCHANGED <<tasks, loop, free>>
    BY <1>1 DEF UserAct, Enqueue, Cancel, Retry, Reroute, ClearJobs, RerouteHalf, workerVars
  <2>2. QED
    BY <2>1
<1>2. CASE Tick
  <2>1. CASE TickIdle
    BY <2>1 DEF TickIdle
  <2>2. CASE TickProbe
    BY <2>2, <1>t DEF TickProbe
  <2>3. CASE TickPark
    BY <2>3 DEF TickPark, ProbeAnswers
  <2>4. CASE TickClaim
    <3>1. free \in Nat /\ free <= FreeSlots /\ Claims(free) /\ loop' = "idle"
      BY <2>4, <1>t, SlotsAssumption DEF TickClaim, ProbeAnswers, TypeOK
    <3>2. QED
      BY <3>1, <1>t, ClaimsFit
  <2>5. CASE TickBreaks
    <3>1. free \in Nat /\ free <= FreeSlots /\ loop' = "idle"
      BY <2>5, <1>t, SlotsAssumption DEF TickBreaks, TypeOK
    <3>2. CASE UNCHANGED tasks
      BY <3>1, <3>2
    <3>3. ASSUME NEW k \in 0..(free - 1), Claims(k) PROVE Cardinality(tasks') <= Slots
      <4>1. k \in Nat /\ k <= FreeSlots
        BY <3>1, <1>t, SlotsAssumption
      <4>2. QED
        BY <3>3, <4>1, <1>t, ClaimsFit
    <3>4. QED
      BY <2>5, <3>1, <3>2, <3>3 DEF TickBreaks
  <2>6. QED
    BY <1>2, <2>1, <2>2, <2>3, <2>4, <2>5 DEF Tick
<1>3. CASE \E j \in Jobs : Answered(j) \/ LoseWrite(j)
  <2>1. PICK j \in Jobs : EndTask(j)
    BY <1>3 DEF Answered, Succeed, Unreachable, TimedOut, Fails, LoseWrite
  <2>2. QED
    BY <2>1, <1>t, EndTaskFrees
<1>4. CASE LoopDies \/ Supervise \/ Crash \/ Stop \/ Boot \/ BootUnrecovered
  <2>1. tasks' \in {tasks, {}} /\ (loop' # "probing" \/ UNCHANGED <<tasks, loop, free>>)
    BY <1>4 DEF LoopDies, Supervise, Crash, Stop, Boot, BootUnrecovered, MemoryLost, workerVars
  <2>2. QED
    BY <2>1, FS_EmptySet, SlotsAssumption
<1>5. CASE \/ \E j \in Jobs : BackoffElapses(j)
           \/ ProbeExpires \/ StatusProbe \/ EndpointChanges \/ UNCHANGED vars
  BY <1>5 DEF BackoffElapses, ProbeExpires, StatusProbe, EndpointChanges, vars, workerVars
<1>6. QED
  BY <1>1, <1>2, <1>3, <1>4, <1>5 DEF Next, Failure

(* At no time are there more tasks than LOCAL_LLM_MAX_CONCURRENT: jobs may *)
(* end while a tick waits for the probe, but none may start.               *)
THEOREM ConcurrencyBounded == Spec => []ConcurrencyBound
BY InitBound, StepBound, Invariance, PTL DEF Spec

-----------------------------------------------------------------------------
(* An upload is started past an older one only while that one is serving   *)
(* a backoff: the claim takes the oldest claimable jobs, and the older one *)
(* is claimable once its backoff is over.                                  *)
THEOREM OldestFirst == Spec => NoOvertaking
<1> DEFINE Fair == \A i, j \in Jobs :
              i < j /\ j \in tasks' \ tasks /\ status[i] \in Runnable
                => i \in tasks' \/ ~due'[i]
<1>1. IInv /\ [Next]_vars => [Fair]_vars
  <2> SUFFICES ASSUME IInv, [Next]_vars, NEW i \in Jobs, NEW j \in Jobs,
                      i < j, j \in tasks', j \notin tasks, status[i] \in Runnable
               PROVE  i \in tasks' \/ ~due'[i]
    OBVIOUS
  <2>1. TickClaim \/ TickBreaks
    BY DEF Next, UserAct, Tick, Answered, Failure, Enqueue, Cancel, Retry, Reroute,
           ClearJobs, TickIdle, TickProbe, TickPark, EndTask, Succeed, Unreachable, TimedOut,
           Fails, LoseWrite, RerouteHalf, LoopDies, Supervise, MemoryLost, Crash, Stop, Boot,
           BootUnrecovered, BackoffElapses, ProbeExpires, StatusProbe, EndpointChanges,
           vars, workerVars
  <2>2. PICK k : Claims(k)
    BY <2>1 DEF TickClaim, TickBreaks
  <2>3. /\ \E claimed \in SUBSET Jobs :
              Oldest(claimed, Claimable, k) /\ tasks' = tasks \cup claimed
        /\ due' = [n \in Jobs |-> due[n] \/ Resumed(n)]
    BY <2>2 DEF Claims
  <2>4. PICK claimed \in SUBSET Jobs :
          Oldest(claimed, Claimable, k) /\ tasks' = tasks \cup claimed
    BY <2>3
  <2>5. j \in claimed
    BY <2>4
  <2>6. CASE i \in claimed
    BY <2>4, <2>6
  <2>7. CASE i \notin claimed
    <3>1. ~(j < i)
      BY JobsAssumption
    <3>2. i \notin Claimable
      BY <2>4, <2>5, <2>7, <3>1 DEF Oldest
    <3>3. QED
      BY <2>3, <3>2 DEF Claimable, Waiting
  <2>8. QED
    BY <2>6, <2>7
<1>2. QED
  BY <1>1, Invariance, PTL DEF Spec, NoOvertaking

-----------------------------------------------------------------------------
(* DocumentQueue implements JobLifecycle.                                  *)

(* The user's actions.                                                     *)
LEMMA EndpointsRefine ==
  ASSUME IInv, UserAct \/ \E j \in Jobs : RerouteHalf(j)
  PROVE  Lifecycle!Next
<1> USE DEF Lifecycle!Become, Lifecycle!InPhase, Lifecycle!Settled, workerVars
<1>t. /\ status \in [Jobs -> Statuses]
      /\ \A j \in Jobs : status[j] # "running" => j \notin tasks
  BY DEF IInv, TypeOK, TasksHoldTheirRows, WithStatus
<1>1. ASSUME NEW j \in Jobs, Enqueue(j) PROVE Lifecycle!Submit(j)
  BY <1>1, <1>t DEF Enqueue, NewRow, Lifecycle!Submit, Phase
<1>2. ASSUME NEW j \in Jobs, Cancel(j) PROVE Lifecycle!Cancel(j)
  BY <1>2, <1>t DEF Cancel, Lifecycle!Cancel, Phase
<1>3. ASSUME NEW j \in Jobs, Retry(j) PROVE Lifecycle!Retry(j)
  BY <1>3, <1>t DEF Retry, Lifecycle!Retry, Phase
<1>4. ASSUME NEW j \in Jobs, NEW k \in Jobs, Reroute(j, k) PROVE Lifecycle!Swap(j, k)
  BY <1>4, <1>t DEF Reroute, NewRow, Lifecycle!Swap, Phase
<1>5. ASSUME NEW s \in Terminal, ClearJobs(s) PROVE Lifecycle!Clear(s)
  BY <1>5, <1>t DEF ClearJobs, WithStatus, Lifecycle!Clear, Phase
<1>6. ASSUME NEW j \in Jobs, RerouteHalf(j) PROVE Lifecycle!Refile(j)
  BY <1>6, <1>t DEF RerouteHalf, Lifecycle!Refile, Phase
<1>7. QED
  BY <1>1, <1>2, <1>3, <1>4, <1>5, <1>6 DEF UserAct, Lifecycle!Next, Lifecycle!Settled

(* A tick starts the jobs it claims, all at once, or changes no phase.     *)
LEMMA TicksRefine ==
  ASSUME IInv, ConcurrencyBound, Tick, ConcurrencyBound'
  PROVE  Lifecycle!Next \/ UNCHANGED Phase
<1>t. /\ status \in [Jobs -> Statuses] /\ tasks \subseteq Jobs
      /\ \A j \in Jobs : status[j] # "running" => j \notin tasks
  BY DEF IInv, TypeOK, TasksHoldTheirRows, WithStatus
<1>1. CASE TickIdle \/ TickProbe
  BY <1>1 DEF TickIdle, TickProbe, rowVars, Phase
<1>2. CASE TickPark
  BY <1>2, <1>t DEF TickPark, Phase
<1>3. ASSUME NEW k, Claims(k) PROVE Lifecycle!Next
  <2>1. PICK claimed \in SUBSET Jobs :
          /\ claimed \subseteq Waiting
          /\ status' = [j \in Jobs |-> IF j \in claimed THEN "running" ELSE status[j]]
          /\ tasks' = tasks \cup claimed
    BY <1>3 DEF Claims, Oldest, Claimable
  <2>2. claimed \subseteq Lifecycle!InPhase("waiting")
    BY <2>1, <1>t DEF Waiting, Lifecycle!InPhase, Phase
  <2>3. Lifecycle!InPhase("active") \cup claimed = tasks'
    BY <2>1, <1>t DEF Lifecycle!InPhase, Phase
  <2>4. Phase' = [j \in Jobs |-> IF j \in claimed THEN "active" ELSE Phase[j]]
    BY <2>1, <1>t DEF Phase
  <2>5. Lifecycle!Cardinality(tasks') = Cardinality(tasks')
    BY DEF Lifecycle!Cardinality, Cardinality
  <2>6. Lifecycle!Start(claimed)
    BY <2>2, <2>3, <2>4, <2>5 DEF ConcurrencyBound, Lifecycle!Start, Lifecycle!Become
  <2>7. QED
    BY <2>6 DEF Lifecycle!Next
<1>4. CASE TickClaim
  BY <1>3, <1>4 DEF TickClaim
<1>5. CASE TickBreaks
  BY <1>3, <1>5 DEF TickBreaks, Phase
<1>6. QED
  BY <1>1, <1>2, <1>4, <1>5 DEF Tick

(* A task that ends finishes its job, yields it or gives it up.            *)
LEMMA AnswersRefine ==
  ASSUME IInv, NEW j \in Jobs, Answered(j) \/ LoseWrite(j)
  PROVE  Lifecycle!Next
<1>t. /\ status \in [Jobs -> Statuses] /\ tasks \subseteq Jobs
      /\ \A i \in Jobs : i \in tasks => status[i] = "running"
  BY DEF IInv, TypeOK, TasksHoldTheirRows, WithStatus
<1>1. Phase[j] = "active" /\ tasks' = tasks \ {j} /\ status[j] = "running"
  BY <1>t DEF Answered, Succeed, Unreachable, TimedOut, Fails, LoseWrite, EndTask, Phase
<1>2. \A s \in Statuses :
        status' = [status EXCEPT ![j] = s] =>
          Phase' = [i \in Jobs |-> IF i \in {j} THEN IF s \in Pending THEN "waiting" ELSE s
                                   ELSE Phase[i]]
  BY <1>1, <1>t DEF Phase
<1>3. ASSUME status' = [status EXCEPT ![j] = "done"] PROVE Lifecycle!Finish(j)
  BY <1>1, <1>2, <1>3 DEF Lifecycle!Finish, Lifecycle!Become
<1>4. ASSUME NEW s \in Pending, status' = [status EXCEPT ![j] = s] PROVE Lifecycle!Yield(j)
  BY <1>1, <1>2, <1>4 DEF Lifecycle!Yield, Lifecycle!Become
<1>5. ASSUME status' = [status EXCEPT ![j] = "failed"] PROVE Lifecycle!GiveUp(j)
  BY <1>1, <1>2, <1>5 DEF Lifecycle!GiveUp, Lifecycle!Become
<1>6. \/ status' = [status EXCEPT ![j] = "done"]
      \/ \E s \in Pending : status' = [status EXCEPT ![j] = s]
      \/ status' = [status EXCEPT ![j] = "failed"]
  <2>1. CASE Succeed(j)
    BY <2>1 DEF Succeed
  <2>2. CASE LoseWrite(j)
    BY <2>2, <1>1, <1>t DEF LoseWrite, rowVars
  <2>3. ASSUME NEW why, Park(j, why) PROVE status' = [status EXCEPT ![j] = "waiting_for_model"]
    BY <2>3 DEF Park
  <2>4. ASSUME NEW why, Charge(j, why)
        PROVE  status' = [status EXCEPT ![j] = "queued"] \/ status' = [status EXCEPT ![j] = "failed"]
    BY <2>4 DEF Charge
  <2>5. QED
    BY <2>1, <2>2, <2>3, <2>4 DEF Answered, Unreachable, TimedOut, Fails
<1>7. QED
  BY <1>3, <1>4, <1>5, <1>6 DEF Lifecycle!Next

(* Losing the process interrupts whatever was active; everything else the  *)
(* process, the clocks and the endpoint do is invisible.                   *)
LEMMA ProcessRefines ==
  ASSUME IInv, \/ LoopDies \/ Supervise \/ Crash \/ Stop \/ Boot \/ BootUnrecovered
               \/ \E j \in Jobs : BackoffElapses(j)
               \/ ProbeExpires \/ StatusProbe \/ EndpointChanges \/ UNCHANGED vars
  PROVE  Lifecycle!Next \/ UNCHANGED Phase
<1>t. /\ status \in [Jobs -> Statuses] /\ tasks \subseteq Jobs
      /\ \A i \in Jobs : i \in tasks => status[i] = "running"
      /\ ~up => tasks = {}
  BY DEF IInv, TypeOK, TasksHoldTheirRows, WithStatus, DownIsIdle
<1>1. CASE Crash \/ Stop
  <2>1. /\ tasks' = {}
        /\ \/ status' = status
           \/ status' = [j \in Jobs |-> IF status[j] = "running" THEN "queued" ELSE status[j]]
    BY <1>1 DEF Crash, Stop, MemoryLost, Requeued, rowVars
  <2>2. Phase' = [j \in Jobs |-> IF j \in Lifecycle!InPhase("active") THEN "waiting" ELSE Phase[j]]
    BY <2>1, <1>t DEF Lifecycle!InPhase, Phase
  <2>3. QED
    BY <2>2 DEF Lifecycle!Next, Lifecycle!Interrupt, Lifecycle!Become
<1>2. CASE Boot
  BY <1>2, <1>t DEF Boot, Requeued, workerVars, Phase
<1>3. CASE BootUnrecovered \/ LoopDies \/ Supervise
  BY <1>3 DEF BootUnrecovered, LoopDies, Supervise, rowVars, workerVars, Phase
<1>4. CASE \/ \E j \in Jobs : BackoffElapses(j)
           \/ ProbeExpires \/ StatusProbe \/ EndpointChanges \/ UNCHANGED vars
  BY <1>4 DEF BackoffElapses, ProbeExpires, StatusProbe, EndpointChanges, vars,
              rowVars, workerVars, Phase
<1>5. QED
  BY <1>1, <1>2, <1>3, <1>4

(* The queue implements JobLifecycle: jobs wait, are worked on by at most  *)
(* one task within the slots, and settle; a restart is only a pause.       *)
THEOREM ImplementsLifecycle == Spec => LifecycleSpec
<1>1. Init => Lifecycle!Init
  BY DEF Init, Lifecycle!Init, Phase, Pending, Runnable
<1>2. IInv /\ ConcurrencyBound /\ ConcurrencyBound' /\ [Next]_vars => [Lifecycle!Next]_Phase
  <2> SUFFICES ASSUME IInv, ConcurrencyBound, ConcurrencyBound', [Next]_vars
               PROVE  Lifecycle!Next \/ UNCHANGED Phase
    OBVIOUS
  <2>1. CASE UserAct \/ \E j \in Jobs : RerouteHalf(j)
    BY <2>1, EndpointsRefine
  <2>2. CASE Tick
    BY <2>2, TicksRefine
  <2>3. CASE \E j \in Jobs : Answered(j) \/ LoseWrite(j)
    BY <2>3, AnswersRefine
  <2>4. CASE \/ LoopDies \/ Supervise \/ Crash \/ Stop \/ Boot \/ BootUnrecovered
             \/ \E j \in Jobs : BackoffElapses(j)
             \/ ProbeExpires \/ StatusProbe \/ EndpointChanges \/ UNCHANGED vars
    BY <2>4, ProcessRefines
  <2>5. QED
    BY <2>1, <2>2, <2>3, <2>4 DEF Next, Failure
<1>3. QED
  BY <1>1, <1>2, Invariance, ConcurrencyBounded, PTL DEF Spec, LifecycleSpec, Lifecycle!Spec

-----------------------------------------------------------------------------
(* Running rows and the tasks that will settle them                        *)

NoMoreFaults == left["faults"] = 0

LEMMA StepForgetsNone ==
  ASSUME IInv, NoMoreFaults, NoRunningRowForgotten, [Next]_vars
  PROVE  NoMoreFaults' /\ NoRunningRowForgotten'
<1> USE DEF NoMoreFaults, NoRunningRowForgotten, WithStatus
<1>t. /\ status \in [Jobs -> Statuses] /\ tasks \subseteq Jobs
      /\ left \in [{"restarts", "retries", "deaths", "faults"} -> Nat]
      /\ ~Spend("faults")
  BY DEF IInv, TypeOK, Spend
<1>s. ASSUME NEW b \in {"restarts", "retries", "deaths"}, Spend(b) PROVE NoMoreFaults'
  BY <1>s, <1>t DEF Spend
<1>1. CASE UserAct \/ \E j \in Jobs : RerouteHalf(j)
  <2>1. UNCHANGED <<tasks, up>> /\ \A i \in Jobs : status'[i] = "running" => status[i] = "running"
    BY <1>1, <1>t DEF UserAct, Enqueue, Cancel, Retry, Reroute, ClearJobs, RerouteHalf, workerVars
  <2>2. NoMoreFaults'
    BY <1>1, <1>s, <1>t DEF UserAct, Enqueue, Cancel, Retry, Reroute, ClearJobs, RerouteHalf
  <2>3. QED
    BY <2>1, <2>2
<1>2. CASE Tick
  <2>1. CASE TickIdle \/ TickProbe \/ TickPark
    BY <1>t, <2>1 DEF TickIdle, TickProbe, TickPark, rowVars
  <2>2. CASE TickClaim
    BY <1>t, <2>2 DEF TickClaim, Claims
  <2>3. QED
    BY <1>2, <1>t, <2>1, <2>2 DEF Tick, TickBreaks
<1>3. ASSUME NEW j \in Jobs, Answered(j) \/ LoseWrite(j)
      PROVE  NoMoreFaults' /\ NoRunningRowForgotten'
  <2>1. Answered(j) /\ EndTask(j)
    BY <1>3, <1>t DEF LoseWrite, Answered, Succeed, Unreachable, TimedOut, Fails
  <2>2. /\ left' = left /\ status'[j] # "running"
        /\ \A i \in Jobs \ {j} : status'[i] = status[i]
    BY <2>1, <1>t DEF Answered, Succeed, Unreachable, TimedOut, Fails, Park, Charge
  <2>3. QED
    BY <2>1, <2>2, <1>t DEF EndTask
<1>4. CASE LoopDies \/ Supervise \/ Crash \/ Stop \/ Boot \/ BootUnrecovered
  BY <1>4, <1>s, <1>t DEF LoopDies, Supervise, Crash, Stop, Boot, BootUnrecovered, Requeued,
                         rowVars, workerVars
<1>5. CASE \/ \E j \in Jobs : BackoffElapses(j)
           \/ ProbeExpires \/ StatusProbe \/ EndpointChanges \/ UNCHANGED vars
  BY <1>5 DEF BackoffElapses, ProbeExpires, StatusProbe, EndpointChanges, vars, rowVars,
              workerVars
<1>6. QED
  BY <1>1, <1>2, <1>3, <1>4, <1>5 DEF Next, Failure

(* "Nothing is lost to a restart": as long as no database write raises,    *)
(* every running row of a process that serves has the task that will settle*)
(* it. With a write that raises it is false: LoseWrite ends a task whose   *)
(* row stays running, and BootUnrecovered serves with the rows of before.  *)
THEOREM NothingForgotten ==
  ASSUME MaxWriteFaults = 0
  PROVE  Spec => []NoRunningRowForgotten
<1>1. Init => NoMoreFaults /\ NoRunningRowForgotten
  BY DEF Init, NoMoreFaults, NoRunningRowForgotten, WithStatus
<1>2. IInv /\ NoMoreFaults /\ NoRunningRowForgotten /\ [Next]_vars
        => NoMoreFaults' /\ NoRunningRowForgotten'
  BY StepForgetsNone
<1>3. QED
  BY <1>1, <1>2, Invariance, PTL DEF Spec
=============================================================================
