----------------------------- MODULE Delegation -----------------------------
(***************************************************************************)
(* Background delegation: a turn hands tasks to sub-agents, answers with   *)
(* an acknowledgement, and the batch runs behind a concurrency limit while *)
(* a client polls its persisted row (src/src/agent/delegation-manager.ts,  *)
(* memory/delegation-jobs.ts and enqueueDelegationBatchFromSideEffects in  *)
(* gateway/gateway-service.ts).                                            *)
(*                                                                         *)
(* The queue and the running batches live in memory; the rows live in the  *)
(* database.  A job is one batch: its tasks, parallel or chained, are one  *)
(* await (a task that fails is an entry of the result, not an error).      *)
(* Switch and limit are configuration that is reloaded at run time.        *)
(***************************************************************************)
EXTENDS Naturals, FiniteSets, Sequences

CONSTANTS Jobs,
          Limits,              \* values of PROACTIVE_DELEGATION_MAX_CONCURRENT
          MaxRows,             \* DELEGATION_JOBS_MAX_ROWS
          MaxDelegationFaults  \* bound: crashes and database errors

ASSUME DelegationAssumption ==
  /\ IsFiniteSet(Jobs)
  /\ Limits \subseteq Nat \ {0} /\ Limits # {}
  /\ MaxRows \in Nat \ {0}
  /\ MaxDelegationFaults \in Nat

VARIABLES
  enabled, limit,   \* PROACTIVE_DELEGATION_ENABLED, _MAX_CONCURRENT
  switchedOff,      \* auxiliary: delegation was off at some time
  queue,            \* the array `queue`
  at,               \* at[j]: where the run of j is
  row,              \* row[j]: status in table delegation_jobs, the last one
  deleted,          \*   if prune has deleted the row
  told,             \* told[j]: results of j stored in the parent's conversation
  delegationFaults

memory == <<queue, at>>
database == <<row, deleted, told>>
config == <<enabled, limit, switchedOff>>
delegationVars == <<config, memory, database, delegationFaults>>

Working == {"announce", "tasks", "synthesis", "publish"}
Active == Working \cup {"returned"}
Running == {j \in Jobs : at[j] \in Active}
Terminal == {"completed", "failed", "cancelled"}

DelegationTypeOK ==
  /\ enabled \in BOOLEAN /\ switchedOff \in BOOLEAN /\ limit \in Limits
  /\ queue \in Seq({j \in Jobs : at[j] = "queued"})
  /\ at \in [Jobs -> Active \cup {"none", "queued", "over"}]
  /\ row \in [Jobs -> Terminal \cup {"none", "queued", "in_progress"}]
  /\ deleted \subseteq Jobs
  /\ told \in [Jobs -> Nat]
  /\ delegationFaults \in 0..MaxDelegationFaults

DelegationInit ==
  /\ enabled = TRUE /\ switchedOff = FALSE /\ limit \in Limits
  /\ queue = <<>>
  /\ at = [j \in Jobs |-> "none"]
  /\ row = [j \in Jobs |-> "none"]
  /\ deleted = {}
  /\ told = [j \in Jobs |-> 0]
  /\ delegationFaults = 0

Fault == /\ delegationFaults < MaxDelegationFaults
         /\ delegationFaults' = delegationFaults + 1

(* UPDATE ... WHERE status IN ('queued', 'in_progress'). *)
Settled(r, j, status) ==
  [r EXCEPT ![j] = IF @ \in {"queued", "in_progress"} THEN status ELSE @]

-----------------------------------------------------------------------------
(* How many of the waiting jobs the loop of pump takes. *)
Starting(waiting, active) ==
  LET room == IF enabled /\ limit > active THEN limit - active ELSE 0
  IN  IF room < waiting THEN room ELSE waiting

(* Mutant of Pump: run does not look at the row first. *)
PumpCancelled(q, a, r) ==
  LET n       == Starting(Len(q), Cardinality({j \in Jobs : a[j] \in Active}))
      started == {q[k] : k \in 1..n}
  IN  /\ queue' = SubSeq(q, n + 1, Len(q))
      /\ at' = [j \in Jobs |-> IF j \in started THEN "announce" ELSE a[j]]
      /\ row' = [j \in Jobs |-> IF j \in started /\ r[j] = "queued"
                                THEN "in_progress" ELSE r[j]]
      /\ UNCHANGED delegationFaults

(* Mutant of Pump: the loop looks at the head of the queue and leaves it there. *)
PumpPeeks(q, a, r) ==
  LET n       == Starting(Len(q), Cardinality({j \in Jobs : a[j] \in Active}))
      started == {q[k] : k \in 1..n}
  IN  /\ queue' = q
      /\ at' = [j \in Jobs |-> IF j \in started THEN "announce" ELSE a[j]]
      /\ row' = [j \in Jobs |-> IF j \in started /\ r[j] = "queued"
                                THEN "in_progress" ELSE r[j]]
      /\ UNCHANGED delegationFaults

(* pump, with what run does before its first await: a job whose row says
   cancelled returns, another one is marked as in progress.  A database error
   there ends the run outside of its try block.  The caller leaves the queue
   q, the runs a and the rows r, some of them pruned. *)
Pump(q, a, r) ==
  LET n       == Starting(Len(q), Cardinality({j \in Jobs : a[j] \in Active}))
      started == {q[k] : k \in 1..n}
      skipped == {j \in started : r[j] = "cancelled" /\ j \notin deleted'}
  IN  \E broken \in SUBSET started :
        /\ queue' = SubSeq(q, n + 1, Len(q))
        /\ at' = [j \in Jobs |-> CASE j \notin started -> a[j]
                                   [] j \in broken \cup skipped -> "returned"
                                   [] OTHER -> "announce"]
        /\ row' = [j \in Jobs |-> IF j \in started \ broken /\ r[j] = "queued"
                                  THEN "in_progress" ELSE r[j]]
        /\ delegationFaults' = delegationFaults + Cardinality(broken)
        /\ delegationFaults' <= MaxDelegationFaults

(* prune: finished rows that are too old or too many go; which of them are old
   is left open. *)
Finished == {j \in Jobs : row[j] \in Terminal} \ deleted

(* Mutant of Prunable: the rows of unfinished jobs are pruned as well. *)
PrunableAny == {gone \in SUBSET ({j \in Jobs : row[j] # "none"} \ deleted) :
                  Cardinality(Finished \ gone) <= MaxRows}

Prunable == {gone \in SUBSET Finished : Cardinality(Finished \ gone) <= MaxRows}

(* A turn delegates: the row is written and the table pruned; the job is queued
   and the pump runs, or it is refused while delegation is off. *)
Delegate(j) ==
  /\ row[j] = "none"
  /\ \E gone \in Prunable : deleted' = deleted \cup gone
  /\ IF enabled
     THEN Pump(Append(queue, j), [at EXCEPT ![j] = "queued"],
               [row EXCEPT ![j] = "queued"])
     ELSE /\ row' = [row EXCEPT ![j] = "failed"]
          /\ UNCHANGED <<memory, delegationFaults>>
  /\ UNCHANGED <<config, told>>

-----------------------------------------------------------------------------
(* The awaits of a run, in their order. *)
Advance(j, from, to) == at[j] = from /\ at' = [at EXCEPT ![j] = to]

Announced(j) ==
  /\ Advance(j, "announce", "tasks")
  /\ UNCHANGED <<config, queue, database, delegationFaults>>

(* Mutant of TasksEnd: the row is completed once the tasks are done. *)
TasksEndCompleted(j) ==
  /\ Advance(j, "tasks", "synthesis")
  /\ row' = Settled(row, j, "completed")
  /\ UNCHANGED <<config, queue, deleted, told, delegationFaults>>

TasksEnd(j) ==
  /\ Advance(j, "tasks", "synthesis")
  /\ UNCHANGED <<config, queue, database, delegationFaults>>

(* The synthesis came, or failed and the plain summary stands in for it; the
   result is stored in the conversation and its publication awaited. *)
Synthesized(j) ==
  /\ Advance(j, "synthesis", "publish")
  /\ told' = [told EXCEPT ![j] = @ + 1]
  /\ UNCHANGED <<config, queue, row, deleted, delegationFaults>>

Published(j) ==
  /\ Advance(j, "publish", "returned")
  /\ row' = Settled(row, j, "completed")
  /\ UNCHANGED <<config, queue, deleted, told, delegationFaults>>

(* A database error ends the run, also while the result is being stored.  The
   catch and the finally record the failure if they can. *)
RunFails(j) ==
  /\ Fault
  /\ \E stage \in Working : Advance(j, stage, "returned")
  /\ row' \in {row, Settled(row, j, "failed")}
  /\ \/ UNCHANGED told
     \/ at[j] = "synthesis" /\ told' = [told EXCEPT ![j] = @ + 1]
  /\ UNCHANGED <<config, queue, deleted>>

(* Mutant of JobReturns: a finished job does not pump. *)
JobReturnsQuietly(j) ==
  /\ Advance(j, "returned", "over")
  /\ UNCHANGED <<config, queue, database, delegationFaults>>

(* The finally of pump: the slot is free again. *)
JobReturns(j) ==
  /\ at[j] = "returned"
  /\ UNCHANGED <<config, deleted, told>>
  /\ Pump(queue, [at EXCEPT ![j] = "over"], row)

-----------------------------------------------------------------------------
Cancel(j) ==
  /\ row[j] = "queued" /\ j \notin deleted
  /\ row' = [row EXCEPT ![j] = "cancelled"]
  /\ UNCHANGED <<config, memory, deleted, told, delegationFaults>>

(* The configuration is reloaded; nothing pumps. *)
Configure ==
  /\ enabled' \in BOOLEAN /\ limit' \in Limits
  /\ switchedOff' = (switchedOff \/ ~enabled')
  /\ UNCHANGED <<memory, database, delegationFaults>>

(* Mutant of FailStale: whatever its status. *)
FailStaleAll == [j \in Jobs |-> IF row[j] = "none" THEN "none" ELSE "failed"]

(* failStaleDelegationJobs *)
FailStale == [j \in Jobs |-> Settled(row, j, "failed")[j]]

(* The gateway dies and starts again. *)
Restart ==
  /\ Fault
  /\ queue' = <<>>
  /\ at' = [j \in Jobs |-> IF at[j] = "none" THEN "none" ELSE "over"]
  /\ row' = FailStale
  /\ UNCHANGED <<config, deleted, told>>

Proceed(j) == Announced(j) \/ TasksEnd(j) \/ Synthesized(j) \/ Published(j)

DelegationNext ==
  \/ \E j \in Jobs : \/ Delegate(j) \/ Cancel(j)
                     \/ Proceed(j) \/ RunFails(j) \/ JobReturns(j)
  \/ Configure \/ Restart

DelegationSafety == DelegationInit /\ [][DelegationNext]_delegationVars

(* The awaits end: agents and models answer or run into their timeouts. *)
DelegationSpec ==
  /\ DelegationSafety
  /\ \A j \in Jobs : WF_delegationVars(Proceed(j)) /\ WF_delegationVars(JobReturns(j))

-----------------------------------------------------------------------------
(* A client that reads "completed" finds the result in the conversation, once;
   no failure or restart in between stores it a second time. *)
CompletedIsTold ==
  \A j \in Jobs : told[j] <= 1 /\ (row[j] = "completed" => told[j] = 1)

(* A cancelled job does nothing, however long it has waited in the queue. *)
CancelledIsSilent ==
  \A j \in Jobs : row[j] = "cancelled" /\ j \notin deleted =>
                    at[j] \notin Working /\ told[j] = 0

(* A client that polls finds the row of every job at work, as in progress.  The
   exception: a job that was cancelled, whose row was pruned before its turn
   came, is taken for one that was not cancelled. *)
WorkIsVisible ==
  \A j \in Jobs : at[j] \in Working => IF j \in deleted THEN row[j] = "cancelled"
                                       ELSE row[j] = "in_progress"

(* A verdict that a client may have read stays. *)
VerdictStays ==
  [][\A j \in Jobs : row[j] \in Terminal => row'[j] = row[j]]_delegationVars

(* A queued job gets a verdict, behind any number of others: unless a database
   error keeps its row as it is until the next restart, or delegation was off
   when the last running job returned, so that nothing pumps the queue again. *)
Unrecorded(j) == at[j] = "over" /\ row[j] \in {"queued", "in_progress"}
Stranded(j) == at[j] = "queued" /\ switchedOff /\ Running = {}

EveryJobSettles ==
  \A j \in Jobs : row[j] = "queued" ~>
                    row[j] \in Terminal \/ Unrecorded(j) \/ Stranded(j)
=============================================================================
