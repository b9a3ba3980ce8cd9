---------------------------- MODULE JobLifecycle ----------------------------
(***************************************************************************)
(* What the document queue promises about one upload, whatever the model   *)
(* endpoint, the drain loop or the process do meanwhile: a job waits, is   *)
(* worked on by at most one task, and settles; work in progress is never   *)
(* taken away from under the task that holds it; a restart is a pause.     *)
(* DocumentQueue implements this; StatementImport is built on top of it.   *)
(***************************************************************************)
EXTENDS Naturals, FiniteSets

CONSTANTS Jobs,    \* identifiers of processing_jobs rows
          Slots    \* LOCAL_LLM_MAX_CONCURRENT

VARIABLE phase     \* [Jobs -> Phases], what an observer of one job sees

Phases == {"absent", "waiting", "active", "done", "failed", "cancelled", "removed"}
Settled == {"done", "failed", "cancelled"}

TypeOK == phase \in [Jobs -> Phases]

InPhase(p) == {j \in Jobs : phase[j] = p}

Become(S, p) == phase' = [j \in Jobs |-> IF j \in S THEN p ELSE phase[j]]

-----------------------------------------------------------------------------
Init == phase = [j \in Jobs |-> "absent"]

Submit(j) == phase[j] = "absent" /\ Become({j}, "waiting")

(* A tick starts several jobs at once, never more than there are slots.    *)
Start(S) ==
  /\ S \subseteq InPhase("waiting")
  /\ Cardinality(InPhase("active") \cup S) <= Slots
  /\ Become(S, "active")

Finish(j) == phase[j] = "active" /\ Become({j}, "done")

(* The run ended without an answer and the job will have another go.       *)
Yield(j) == phase[j] = "active" /\ Become({j}, "waiting")

GiveUp(j) == phase[j] = "active" /\ Become({j}, "failed")

(* The process went away: everything in progress waits again.              *)
Interrupt == Become(InPhase("active"), "waiting")

Cancel(j) == phase[j] = "waiting" /\ Become({j}, "cancelled")

Retry(j) == phase[j] \in {"failed", "cancelled"} /\ Become({j}, "waiting")

(* Re-filing as a receipt deletes the row; so does clearing a settled one. *)
Refile(j) == phase[j] \in {"waiting", "failed"} /\ Become({j}, "removed")

Clear(p) == p \in Settled /\ Become(InPhase(p), "removed")

(* The re-file swap seen as one step: old row out, new row in.             *)
Swap(j, k) ==
  /\ phase[j] \in {"waiting", "failed"} /\ phase[k] = "absent"
  /\ phase' = [phase EXCEPT ![j] = "removed", ![k] = "waiting"]

Next ==
  \/ \E j \in Jobs : \/ Submit(j) \/ Finish(j) \/ Yield(j) \/ GiveUp(j)
                     \/ Cancel(j) \/ Retry(j) \/ Refile(j)
  \/ \E j, k \in Jobs : Swap(j, k)
  \/ \E S \in SUBSET Jobs : Start(S)
  \/ Interrupt
  \/ \E p \in Settled : Clear(p)

Spec == Init /\ [][Next]_phase
=============================================================================
