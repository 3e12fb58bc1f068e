--------------------------- MODULE ScheduledTasks ---------------------------
(***************************************************************************)
(* Scheduled tasks: reminders and recurring prompts of a session, kept as  *)
(* rows of the jobs table and started by the timer of the scheduler        *)
(* (src/src/memory/jobs.ts, the scheduled_task half of                     *)
(* src/src/scheduler/scheduler.ts, the schedule commands of                *)
(* gateway/gateway-service.ts and gateway/gateway-scheduled-task-service). *)
(*                                                                         *)
(* A tick has no await, so it is one step that starts every task whose     *)
(* time has come; the runs it starts end later, in any order, while users  *)
(* create, remove and toggle tasks.  Clock arithmetic is reduced to due[t]: *)
(* the time the schedule of t waits for, counted from its last run, is     *)
(* there.  A cron schedule is due when a match lies after the last run, an *)
(* interval when it is over: both start due, both are waiting after a run. *)
(***************************************************************************)
EXTENDS Naturals, FiniteSets

CONSTANTS Tasks,        \* creations of a task
          AtTasks,      \* those with run_at: one shot
          MaxId,        \* bound: row ids that are handed out
          MaxFailures,  \* MAX_CONSECUTIVE_FAILURES
          MaxOverlap,   \* bound: runs of one task at once
          MaxToggles,   \* bound: toggles of a user
          MaxRestarts   \* bound: restarts of the gateway

ASSUME TasksAssumption ==
  /\ IsFiniteSet(Tasks) /\ AtTasks \subseteq Tasks
  /\ MaxId \in Nat \ {0} /\ MaxFailures \in Nat \ {0} /\ MaxOverlap \in Nat \ {0}
  /\ MaxToggles \in Nat /\ MaxRestarts \in Nat

VARIABLES
  row,       \* row[t]: the row of t in table jobs
  idOf,      \* idOf[t]: its legacy_task_id, 0 before the creation
  due,       \* due[t]: the clock against the schedule and the last run of t
  runs,      \* runs[t]: runs of t in flight
  timer,     \* the timer of the scheduler is set
  runner,    \* taskRunner is set: the scheduler was not stopped
  starts,    \* auxiliary: how often t was started, 2 for twice and more
  woken,     \* auxiliary: tasks that a failure enabled since a user's last word
  toggles, restarts

table == <<row, idOf>>
aux == <<starts, woken>>
bounds == <<toggles, restarts>>
tasksVars == <<table, due, runs, timer, runner, aux, bounds>>

Stored == {t \in Tasks : row[t].state = "stored"}
HasId(t, i) == t \in Stored /\ idOf[t] = i

NewRow == [state |-> "stored", enabled |-> TRUE, ran |-> FALSE,
           status |-> "none", errors |-> 0]

TasksTypeOK ==
  /\ row \in [Tasks -> [state : {"none", "stored", "deleted"}, enabled : BOOLEAN,
                        ran : BOOLEAN, status : {"none", "success", "error"},
                        errors : 0..MaxFailures]]
  /\ idOf \in [Tasks -> 0..MaxId]
  /\ \A t \in Tasks : (row[t].state = "none") = (idOf[t] = 0)
  /\ \A t, u \in Stored : idOf[t] = idOf[u] => t = u
  /\ due \in [Tasks -> BOOLEAN]
  /\ runs \in [Tasks -> 0..MaxOverlap]
  /\ timer \in BOOLEAN /\ runner \in BOOLEAN /\ (timer => runner)
  /\ starts \in [Tasks -> 0..2] /\ woken \subseteq Tasks
  /\ toggles \in 0..MaxToggles /\ restarts \in 0..MaxRestarts

-----------------------------------------------------------------------------
(* The writes of jobs.ts.  Each one names a row by its id. *)
MarkJobSuccess(rows, i) ==
  [t \in Tasks |-> IF HasId(t, i) THEN [rows[t] EXCEPT !.status = "success", !.errors = 0]
                   ELSE rows[t]]

(* Mutant of Failed: the count of failures is not written back. *)
FailedForgets(r) ==
  [r EXCEPT !.status = "error", !.enabled = r.errors + 1 < MaxFailures]

(* The count matters up to MaxFailures only.  The row is enabled or disabled
   by the count, whatever it was. *)
Failed(r) ==
  [r EXCEPT !.status = "error",
            !.errors = IF @ < MaxFailures THEN @ + 1 ELSE @,
            !.enabled = r.errors + 1 < MaxFailures]

MarkJobFailure(rows, i) ==
  [t \in Tasks |-> IF HasId(t, i) THEN Failed(rows[t]) ELSE rows[t]]

DeleteJob(rows, i) ==
  [t \in Tasks |-> IF HasId(t, i) THEN [rows[t] EXCEPT !.state = "deleted"] ELSE rows[t]]

(* MAX(legacy_task_id) + 1 over the rows there are: the id of a task that was
   removed may be handed out again. *)
NextLegacyJobId ==
  CHOOSE i \in 1..(MaxId + 1) :
    /\ \A t \in Stored : idOf[t] < i
    /\ i = 1 \/ \E t \in Stored : idOf[t] = i - 1

-----------------------------------------------------------------------------
(* nextFireMsForDbTask is not null. *)
Fireable(r, t) ==
  r.state = "stored" /\ r.enabled /\ (t \in AtTasks => ~r.ran)

(* arm sets the timer when some task has a next time; rearmScheduler only when
   there is a task runner. *)
Arm(rows) == timer' = \E t \in Tasks : Fireable(rows[t], t)
(* Mutant of Rearm: a stopped scheduler is armed too. *)
RearmAlways(rows) == Arm(rows)

Rearm(rows) == IF runner THEN Arm(rows) ELSE UNCHANGED timer

TasksInit ==
  /\ row = [t \in Tasks |-> [NewRow EXCEPT !.state = "none"]]
  /\ idOf = [t \in Tasks |-> 0]
  /\ due = [t \in Tasks |-> FALSE]
  /\ runs = [t \in Tasks |-> 0]
  /\ timer = FALSE /\ runner = TRUE
  /\ starts = [t \in Tasks |-> 0] /\ woken = {}
  /\ toggles = 0 /\ restarts = 0

(* createJob of the command or of a turn's side effect. *)
Create(t) ==
  /\ row[t].state = "none"
  /\ NextLegacyJobId <= MaxId
  /\ idOf' = [idOf EXCEPT ![t] = NextLegacyJobId]
  /\ row' = [row EXCEPT ![t] = NewRow]
  /\ due' = [due EXCEPT ![t] = t \notin AtTasks]
  /\ Rearm(row')
  /\ UNCHANGED <<runs, runner, aux, bounds>>

Remove(t) ==
  /\ t \in Stored
  /\ row' = DeleteJob(row, idOf[t])
  /\ Rearm(row')
  /\ UNCHANGED <<idOf, due, runs, runner, aux, bounds>>

(* Mutant of Toggle: the scheduler is not told. *)
ToggleQuietly(t) ==
  /\ t \in Stored /\ toggles < MaxToggles
  /\ row' = [row EXCEPT ![t].enabled = ~@]
  /\ toggles' = toggles + 1 /\ woken' = woken \ {t}
  /\ UNCHANGED <<idOf, due, runs, timer, runner, starts, restarts>>

(* setJobEnabled, by the command or the admin console. *)
Toggle(t) ==
  /\ t \in Stored /\ toggles < MaxToggles
  /\ row' = [row EXCEPT ![t].enabled = ~@]
  /\ Rearm(row')
  /\ toggles' = toggles + 1 /\ woken' = woken \ {t}
  /\ UNCHANGED <<idOf, due, runs, runner, starts, restarts>>

TimePasses(t) ==
  /\ t \in Stored /\ ~due[t] /\ runs[t] < MaxOverlap
  /\ due' = [due EXCEPT ![t] = TRUE]
  /\ UNCHANGED <<table, runs, timer, runner, aux, bounds>>

-----------------------------------------------------------------------------
(* Mutant of Fires: the last run of a one-shot is not looked at. *)
FiresAgain(t) == t \in Stored /\ row[t].enabled /\ due[t] /\ runs[t] < MaxOverlap

(* The tick takes t: it is enabled and its time has come; a one-shot has not
   run before. *)
Fires(t) == Fireable(row[t], t) /\ due[t]

(* The task half of tick: markJobRunStarted and dispatchDbTask for each task
   whose time has come, then arm.  A time that was reached stays so for a
   one-shot. *)
StartTasks ==
  /\ row' = [t \in Tasks |-> IF Fires(t) THEN [row[t] EXCEPT !.ran = TRUE] ELSE row[t]]
  /\ runs' = [t \in Tasks |-> IF Fires(t) THEN runs[t] + 1 ELSE runs[t]]
  /\ starts' = [t \in Tasks |-> IF Fires(t) /\ starts[t] < 2 THEN starts[t] + 1
                                ELSE starts[t]]
  /\ due' = [t \in Tasks |-> due[t] /\ (Fires(t) => t \in AtTasks)]
  /\ Arm(row')
  /\ UNCHANGED <<idOf, runner, woken, bounds>>

(* The timer fires that was set for a task, or the one that was set for a job
   of the board (module SchedulerJobs): one timer serves both. *)
Tick == timer /\ StartTasks
TickForJob == runner /\ StartTasks

RunEnds(t) ==
  /\ runs[t] > 0
  /\ runs' = [runs EXCEPT ![t] = @ - 1]
  /\ UNCHANGED <<idOf, due, timer, runner, starts, bounds>>

(* The dispatch resolves: a run that delivered, and also one whose agent failed
   (onError of runScheduledTask writes a log line and returns). *)
Resolves(t) ==
  /\ RunEnds(t)
  /\ LET marked == MarkJobSuccess(row, idOf[t])
     IN  row' = IF t \in AtTasks THEN DeleteJob(marked, idOf[t]) ELSE marked
  /\ UNCHANGED woken

(* The dispatch rejects: the session, the model or the chatbot of the task
   could not be resolved.  The scheduler is not rearmed. *)
Rejects(t) ==
  /\ RunEnds(t)
  /\ row' = MarkJobFailure(row, idOf[t])
  /\ woken' = woken \cup {u \in Stored : row'[u].enabled /\ ~row[u].enabled}

(* stopScheduler at the shutdown. *)
StopScheduler ==
  /\ runner
  /\ timer' = FALSE /\ runner' = FALSE
  /\ UNCHANGED <<table, due, runs, aux, bounds>>

(* The process ends, by the shutdown or a crash, and a new one starts the
   scheduler: runs in flight are gone, the rows stay. *)
Restart ==
  /\ restarts < MaxRestarts
  /\ runs' = [t \in Tasks |-> 0]
  /\ runner' = TRUE
  /\ Arm(row)
  /\ restarts' = restarts + 1
  /\ UNCHANGED <<table, due, aux, toggles>>

TasksNext ==
  \/ \E t \in Tasks : \/ Create(t) \/ Remove(t) \/ Toggle(t) \/ TimePasses(t)
                      \/ Resolves(t) \/ Rejects(t)
  \/ Tick \/ TickForJob \/ StopScheduler \/ Restart

(* A set timer fires within five minutes, and a run ends: an agent's turn has
   an inactivity timeout.  The clock goes on.  Users are not fair. *)
TasksFairness ==
  /\ WF_tasksVars(Tick)
  /\ \A t \in Tasks : /\ WF_tasksVars(TimePasses(t))
                      /\ WF_tasksVars(Resolves(t) \/ Rejects(t))

TasksSpec == TasksInit /\ [][TasksNext]_tasksVars /\ TasksFairness

-----------------------------------------------------------------------------
(* A one-shot is started at most once: over restarts, toggles, failures that
   enable its row again and ids that are handed out twice. *)
AtTaskStartsOnce == \A t \in AtTasks : starts[t] <= 1

(* A task whose time has come is started, unless it is removed or disabled or
   the scheduler stops: no command and no tick leaves the timer unset.  A
   failure may: one that comes after the task was disabled enables it and sets
   no timer. *)
Waits(t) == Fires(t) /\ runner /\ t \notin woken

DueTaskStarts == \A t \in Tasks : Waits(t) ~> ~Waits(t)

(* A task that only fails is not started for ever, although each failure
   writes its enabled flag and late ones may set it again. *)
FailingTaskStops ==
  \A t \in Tasks : <>[](row[t].status = "error") => <>[](runs[t] = 0)
=============================================================================
