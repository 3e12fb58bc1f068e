---------------------------- MODULE SchedulerJobs ----------------------------
(***************************************************************************)
(* Scheduler jobs: the jobs of the admin board, with a schedule, a column  *)
(* of the board and a runtime state of their own                           *)
(* (the scheduler_job half of src/src/scheduler/scheduler.ts, the admin    *)
(* operations of src/src/gateway/gateway-scheduled-task-service.ts).       *)
(*                                                                         *)
(* A job lives twice: its row is in the jobs table, its runtime state (the *)
(* meta of the code) in scheduler-jobs-state.json, written at each change. *)
(* A run that was started carries the branch of the tick that started it   *)
(* and acts on the job as it is when the run ends, whatever the operator   *)
(* did meanwhile.  A tick has no await, so it is one step; cron schedules  *)
(* are as intervals.                                                       *)
(***************************************************************************)
EXTENDS Naturals, FiniteSets

CONSTANTS Jobs,          \* ids of jobs
          Assigned,      \* those with an agent turn and an agent
          MaxRetries,    \* maxRetries of a job that runs once
          MaxFailures,   \* MAX_CONSECUTIVE_FAILURES
          MaxOverlap,    \* bound: runs of one job at once
          MaxOps,        \* bound: steps of the operator
          MaxRestarts    \* bound: restarts of the gateway

ASSUME JobsAssumption ==
  /\ IsFiniteSet(Jobs) /\ Assigned \subseteq Jobs
  /\ MaxRetries \in Nat /\ MaxFailures \in Nat \ {0} /\ MaxOverlap \in Nat \ {0}
  /\ MaxOps \in Nat /\ MaxRestarts \in Nat

Kinds == {"one_shot", "at", "every"}
RunOnce == {"one_shot", "at"}
Columns == {"none", "backlog", "in_progress", "review", "done"}
(* isTerminalConfigJobBoardStatus; cancelled is treated as done. *)
Terminal == {"review", "done"}

(* The branch of the tick that started a run; a tracked one goes to review. *)
Tracked == {"one_shot", "backlog_once", "at_tracked"}
Branches == Tracked \cup {"backlog", "at", "every"}

VARIABLES
  row,       \* row[j]: its row in table jobs
  meta,      \* meta[j]: its runtime state, in memory and on disk
  cooled,    \* cooled[j]: CONFIG_ONESHOT_RETRY_MS went by since its last run
  reached,   \* reached[j]: its schedule, counted from its last run, is there
  runs,      \* runs[j][b]: runs of j in flight that branch b started
  timer,     \* the timer is set
  runner,    \* taskRunner is set: the scheduler was not stopped
  paused,    \* auxiliary: jobs paused by the operator, see Pause
  ops, restarts

clock == <<cooled, reached>>
jobsVars == <<row, meta, clock, runs, timer, runner, paused, ops, restarts>>

DefaultMeta == [ran |-> FALSE, status |-> "none", errors |-> 0,
                disabled |-> FALSE, completed |-> FALSE]
NoRuns == [b \in Branches |-> 0]
MaxErrors == IF MaxRetries + 1 < MaxFailures THEN MaxFailures ELSE MaxRetries + 1
Total(r) == r["one_shot"] + r["backlog_once"] + r["at_tracked"] + r["backlog"] + r["at"]
            + r["every"]
InFlight(j) == Total(runs[j])

JobsTypeOK ==
  /\ row \in [Jobs -> [exists : BOOLEAN, enabled : BOOLEAN, kind : Kinds, board : Columns]]
  /\ meta \in [Jobs -> [ran : BOOLEAN, status : {"none", "success", "error"},
                        errors : 0..MaxErrors, disabled : BOOLEAN, completed : BOOLEAN]]
  /\ cooled \in [Jobs -> BOOLEAN] /\ reached \in [Jobs -> BOOLEAN]
  /\ runs \in [Jobs -> [Branches -> 0..MaxOverlap]]
  /\ \A j \in Jobs : InFlight(j) <= MaxOverlap
  /\ timer \in BOOLEAN /\ runner \in BOOLEAN /\ (timer => runner)
  /\ paused \subseteq Jobs
  /\ ops \in 0..MaxOps /\ restarts \in 0..MaxRestarts

-----------------------------------------------------------------------------
(* Mutant of MoveToReview: the column is not looked at. *)
MoveToReviewAlways(r) == IF r.exists THEN [r EXCEPT !.board = "review"] ELSE r

(* moveConfigJobToReview: a terminal column stays. *)
MoveToReview(r) ==
  IF r.exists /\ r.board \notin Terminal THEN [r EXCEPT !.board = "review"] ELSE r

(* isReviewTrackedRunOnceConfigJob *)
ReviewTracked(r) == r.kind = "one_shot" \/ (r.kind = "at" /\ r.board # "none")

(* Mutant of NextFire: a run-once job that was started is not looked at again. *)
NextFireOnce(r, m) ==
  /\ r.exists /\ r.enabled /\ ~m.disabled
  /\ r.kind = "one_shot" => ~m.completed /\ r.board \notin Terminal /\ ~m.ran
  /\ r.kind = "at" => ~m.completed

(* nextFireMsForConfigJob is not null. *)
NextFire(r, m) ==
  /\ r.exists /\ r.enabled /\ ~m.disabled
  /\ r.kind = "one_shot" => ~m.completed /\ r.board \notin Terminal
  /\ r.kind = "at" => ~m.completed

(* reconcileSuccessfulOneShotConfigJob: a run-once job that succeeded is
   completed, and one left in progress goes to review. *)
Reconciles(r, m) ==
  /\ r.exists /\ ReviewTracked(r) /\ r.board # "backlog"
  /\ m.status = "success" /\ ~m.completed
ReconciledRow(r, m) ==
  IF Reconciles(r, m) /\ r.board = "in_progress" THEN [r EXCEPT !.board = "review"] ELSE r
ReconciledMeta(r, m) == IF Reconciles(r, m) THEN [m EXCEPT !.completed = TRUE] ELSE m

(* arm, with computeNextFireMs: the runtime state of rows that are gone is
   pruned, the others are reconciled, the timer is set when a job has a next
   time. *)
Arm(rows, metas) ==
  /\ row' = [j \in Jobs |-> ReconciledRow(rows[j], metas[j])]
  /\ meta' = [j \in Jobs |-> IF rows[j].exists THEN ReconciledMeta(rows[j], metas[j])
                             ELSE DefaultMeta]
  /\ timer' = \E j \in Jobs : NextFire(row'[j], meta'[j])

(* Mutant of Rearm: a stopped scheduler is armed too. *)
RearmAlways(rows, metas) == Arm(rows, metas)

(* rearmScheduler: only with a task runner. *)
Rearm(rows, metas) ==
  IF runner THEN Arm(rows, metas) ELSE row' = rows /\ meta' = metas /\ timer' = timer

JobsInit ==
  /\ row \in [Jobs -> [exists : {TRUE}, enabled : {TRUE}, kind : Kinds,
                       board : {"none", "backlog"}]]
  /\ meta = [j \in Jobs |-> DefaultMeta]
  /\ cooled = [j \in Jobs |-> TRUE] /\ reached = [j \in Jobs |-> row[j].kind # "at"]
  /\ runs = [j \in Jobs |-> NoRuns]
  /\ timer = \E j \in Jobs : NextFire(row[j], meta[j])
  /\ runner = TRUE /\ paused = {} /\ ops = 0 /\ restarts = 0

-----------------------------------------------------------------------------
(* The tick.  A one-shot and a job assigned in the backlog wait for the retry
   interval only, the latter whatever its schedule and its completion. *)
Waited(j) == ~meta[j].ran \/ cooled[j]
InBacklog(j) == row[j].kind # "one_shot" /\ row[j].board = "backlog" /\ j \in Assigned

Fires(j) ==
  /\ row[j].exists /\ row[j].enabled /\ ~meta[j].disabled
  /\ \/ /\ row[j].kind = "one_shot" /\ Waited(j)
        /\ ~meta[j].completed /\ row[j].board \notin Terminal
     \/ InBacklog(j) /\ Waited(j)
     \/ /\ row[j].kind = "at" /\ ~InBacklog(j)
        /\ ~meta[j].completed /\ reached[j] /\ Waited(j)
     \/ row[j].kind = "every" /\ ~InBacklog(j) /\ (~meta[j].ran \/ reached[j])

Branch(j) ==
  CASE row[j].kind = "one_shot" -> "one_shot"
    [] InBacklog(j) -> IF row[j].kind = "at" THEN "backlog_once" ELSE "backlog"
    [] row[j].kind = "at" /\ ~InBacklog(j) ->
         IF ReviewTracked(row[j]) THEN "at_tracked" ELSE "at"
    [] OTHER -> "every"

ToInProgress(j) == Branch(j) \in {"one_shot", "backlog_once", "backlog"}

(* The job half of tick. *)
StartJobs ==
  /\ \A j \in Jobs : Fires(j) => InFlight(j) < MaxOverlap
  /\ Arm([j \in Jobs |-> IF Fires(j) /\ ToInProgress(j)
                         THEN [row[j] EXCEPT !.board = "in_progress"] ELSE row[j]],
         [j \in Jobs |-> IF Fires(j) THEN [meta[j] EXCEPT !.ran = TRUE] ELSE meta[j]])
  /\ runs' = [j \in Jobs |-> IF Fires(j) THEN [runs[j] EXCEPT ![Branch(j)] = @ + 1]
                             ELSE runs[j]]
  /\ cooled' = [j \in Jobs |-> cooled[j] /\ ~Fires(j)]
  /\ reached' = [j \in Jobs |-> reached[j] /\ (Fires(j) => row[j].kind # "every")]
  /\ UNCHANGED <<runner, paused, ops, restarts>>

(* The timer fires that was set for a job, or the one that was set for a task
   (module ScheduledTasks): one timer serves both. *)
Tick == timer /\ StartJobs
TickForTask == runner /\ StartJobs

TimePasses(j) ==
  /\ ~(cooled[j] /\ reached[j])
  /\ \/ cooled' = [cooled EXCEPT ![j] = TRUE] /\ reached' = reached
     \/ reached' = [reached EXCEPT ![j] = TRUE] /\ cooled' = cooled
  /\ clock' # clock
  /\ UNCHANGED <<row, meta, runs, timer, runner, paused, ops, restarts>>

-----------------------------------------------------------------------------
(* The end of a run.  It does not arm the timer. *)
RunEnds(j, b) ==
  /\ runs[j][b] > 0
  /\ runs' = [runs EXCEPT ![j][b] = @ - 1]
  /\ UNCHANGED <<clock, timer, runner, paused, ops, restarts>>

(* markConfigJobSuccess *)
Succeeded(m, once) ==
  [m EXCEPT !.status = "success", !.errors = 0, !.completed = @ \/ once]

(* The dispatch resolves: the job goes to review, from the backlog branch only
   when it is still in progress, and a run-once job is completed. *)
Succeeds(j, b) ==
  /\ RunEnds(j, b)
  /\ LET backlog == b \in {"backlog_once", "backlog"}
         moves == backlog /\ row[j].exists /\ row[j].board = "in_progress"
         once == IF moves THEN row[j].kind \in RunOnce ELSE b \in Tracked \cup {"at"}
     IN  /\ row' = [row EXCEPT ![j] =
                      IF moves \/ (~backlog /\ b \in Tracked) THEN MoveToReview(@) ELSE @]
         /\ meta' = [meta EXCEPT ![j] = Succeeded(@, once)]

CountError(m) ==
  [m EXCEPT !.status = "error", !.errors = IF @ < MaxErrors THEN @ + 1 ELSE @]

(* Mutant of RunOnceFailure: every failure lets the job run again. *)
RunOnceFailureResumes(m) ==
  LET c == CountError(m)
  IN  [c EXCEPT !.completed = @ \/ c.errors > MaxRetries, !.disabled = FALSE]

(* markRunOnceConfigJobFailure: after the last retry the job is completed. *)
RunOnceFailure(m) ==
  LET c == CountError(m)
  IN  IF c.errors > MaxRetries THEN [c EXCEPT !.completed = TRUE, !.disabled = FALSE]
      ELSE c

(* markConfigJobFailure *)
JobFailure(m) ==
  LET c == CountError(m)
  IN  IF c.errors >= MaxFailures THEN [c EXCEPT !.disabled = TRUE] ELSE c

(* The dispatch rejects. *)
Fails(j, b) ==
  /\ RunEnds(j, b)
  /\ meta' = [meta EXCEPT ![j] = IF b \in Tracked THEN RunOnceFailure(@) ELSE JobFailure(@)]
  /\ row' = [row EXCEPT ![j] =
               IF b \in Tracked /\ meta'[j].errors > MaxRetries THEN MoveToReview(@) ELSE @]

-----------------------------------------------------------------------------
(* The operator. *)
Operates(j) == ops < MaxOps /\ ops' = ops + 1 /\ UNCHANGED <<runs, runner, restarts>>

(* pauseConfigJob.  A run-once run that outlives a change of the kind to a
   recurring one may clear the flag of a job that can still run: such a job is
   not counted as paused. *)
Pause(j) ==
  /\ Operates(j) /\ row[j].exists
  /\ Rearm(row, [meta EXCEPT ![j].disabled = TRUE])
  /\ paused' = IF row[j].kind = "every" /\ \E b \in Tracked : runs[j][b] > 0
               THEN paused \ {j} ELSE paused \cup {j}
  /\ UNCHANGED clock

(* resumeConfigJob *)
Resumed(m) == [m EXCEPT !.disabled = FALSE, !.errors = 0]

Resume(j) ==
  /\ Operates(j) /\ row[j].exists
  /\ Rearm([row EXCEPT ![j] = ReconciledRow(@, meta[j])],
           [meta EXCEPT ![j] = ReconciledMeta(row[j], Resumed(@))])
  /\ paused' = paused \ {j}
  /\ UNCHANGED clock

(* moveGatewayAdminSchedulerJob: a run-once job that comes back to the backlog
   is reset. *)
Move(j, column) ==
  /\ Operates(j) /\ row[j].exists
  /\ LET reset == column = "backlog" /\ row[j].kind \in RunOnce /\ row[j].board # "backlog"
     IN  /\ Rearm([row EXCEPT ![j].board = column],
                  [meta EXCEPT ![j] = IF reset THEN DefaultMeta ELSE @])
         /\ paused' = IF reset THEN paused \ {j} ELSE paused
  /\ UNCHANGED clock

(* upsertGatewayAdminSchedulerJob: creates the job or replaces its row, and
   resumes it when it is enabled. *)
Upsert(j, kind, column, enabled) ==
  /\ Operates(j)
  /\ LET new == [exists |-> TRUE, enabled |-> enabled, kind |-> kind, board |-> column]
         reset == /\ row[j].exists /\ kind \in RunOnce /\ column = "backlog"
                  /\ row[j].board # "backlog" \/ row[j].kind # kind
         kept == IF reset THEN DefaultMeta ELSE meta[j]
     IN  /\ IF enabled
            THEN Rearm([row EXCEPT ![j] = ReconciledRow(new, kept)],
                       [meta EXCEPT ![j] = ReconciledMeta(new, Resumed(kept))])
            ELSE Rearm([row EXCEPT ![j] = new], [meta EXCEPT ![j] = kept])
         /\ paused' = IF enabled \/ reset THEN paused \ {j} ELSE paused
  /\ reached' = [reached EXCEPT ![j] = kind # "at"]
  /\ UNCHANGED cooled

Remove(j) ==
  /\ Operates(j) /\ row[j].exists
  /\ Rearm([row EXCEPT ![j].exists = FALSE], meta)
  /\ paused' = paused \ {j}
  /\ UNCHANGED clock

(* stopScheduler at the shutdown. *)
StopScheduler ==
  /\ runner
  /\ timer' = FALSE /\ runner' = FALSE
  /\ UNCHANGED <<row, meta, clock, runs, paused, ops, restarts>>

(* The process ends, with its runs, and a new one loads the state file and
   starts the scheduler. *)
Restart ==
  /\ restarts < MaxRestarts /\ restarts' = restarts + 1
  /\ runs' = [j \in Jobs |-> NoRuns]
  /\ runner' = TRUE
  /\ Arm(row, meta)
  /\ UNCHANGED <<clock, paused, ops>>

JobsNext ==
  \/ Tick \/ TickForTask \/ StopScheduler \/ Restart
  \/ \E j \in Jobs :
       \/ TimePasses(j) \/ Pause(j) \/ Resume(j) \/ Remove(j)
       \/ \E b \in Branches : Succeeds(j, b) \/ Fails(j, b)
       \/ \E column \in Columns : Move(j, column)
       \/ \E kind \in Kinds, column \in Columns, enabled \in BOOLEAN :
            Upsert(j, kind, column, enabled)

(* A set timer fires within five minutes, the clock goes on and a run ends: an
   agent's turn has a timeout.  The operator is not fair. *)
JobsFairness ==
  /\ WF_jobsVars(Tick)
  /\ \A j \in Jobs : /\ WF_jobsVars(TimePasses(j))
                     /\ WF_jobsVars(\E b \in Branches : Succeeds(j, b) \/ Fails(j, b))

JobsSpec == JobsInit /\ [][JobsNext]_jobsVars /\ JobsFairness

-----------------------------------------------------------------------------
(* No step of the scheduler takes a job out of review or done, where its
   operator or a run has put it: a run that ends late does not, nor a tick,
   nor a reconciliation. *)
TerminalIsKept ==
  [][ops' = ops =>
       \A j \in Jobs : row[j].board \in Terminal => row'[j].board = row[j].board]_jobsVars

(* A job the operator has paused is not started, although a late failure may
   clear the flag that pauses it. *)
PausedIsQuiet ==
  [][\A j \in paused, b \in Branches : runs'[j][b] <= runs[j][b]]_jobsVars

(* A run-once job that is enabled comes to an end: its run succeeds, its
   retries are used up, or it is disabled or put aside; a crash that loses its
   run does not leave it in progress. *)
Unsettled(j) ==
  /\ runner /\ row[j].exists /\ row[j].enabled /\ row[j].kind \in RunOnce
  /\ ~meta[j].disabled /\ ~meta[j].completed
  /\ row[j].kind = "one_shot" => row[j].board \notin Terminal

RunOnceSettles == \A j \in Jobs : Unsettled(j) ~> ~Unsettled(j)

(* "one_shot jobs run immediately, retry up to maxRetries, and land in review":
   so no more than the first run and its retries are ever under way.  Refuted,
   without any step of an operator, by a run that takes longer than the retry
   interval: the tick starts the job again while nothing has failed. *)
OneShotWithinRetries == \A j \in Jobs : runs[j]["one_shot"] <= MaxRetries + 1
=============================================================================
