------------------------ MODULE ScheduledTasksProofs ------------------------
(***************************************************************************)
(* Safety of the scheduled tasks, for every number of tasks, failures,     *)
(* overlapping runs and restarts.                                          *)
(*                                                                         *)
(* A one-shot starts once because markJobRunStarted sets last_run before   *)
(* the dispatch and no write of the table takes it back: whatever a        *)
(* failure, a toggle or a restart does to the row, it stays unfit to fire. *)
(***************************************************************************)
EXTENDS ScheduledTasks, WellFoundedInduction, TLAPS

Row == [state : {"none", "stored", "deleted"}, enabled : BOOLEAN, ran : BOOLEAN,
        status : {"none", "success", "error"}, errors : 0..MaxFailures]

UncreatedIsIdle ==
  \A t \in Tasks : row[t].state = "none" => runs[t] = 0 /\ starts[t] = 0

(* A task that may fire is below the bound on its runs, enabled or not. *)
HasRoom ==
  \A t \in Tasks :
    row[t].state = "stored" /\ due[t] /\ (t \in AtTasks => ~row[t].ran)
      => runs[t] < MaxOverlap

StartedHasRun == \A t \in AtTasks : starts[t] > 0 => row[t].ran

(* The safety half of DueTaskStarts. *)
WaitingIsArmed ==
  \A t \in Tasks : Fireable(row[t], t) /\ runner /\ t \notin woken => timer

TasksInv ==
  /\ TasksTypeOK /\ UncreatedIsIdle /\ HasRoom /\ StartedHasRun /\ AtTaskStartsOnce
  /\ WaitingIsArmed

-----------------------------------------------------------------------------
(* nextLegacyJobId returns an id above every id in the table: there is a
   least one, and CHOOSE returns it. *)
LEMMA NextIdIsFresh ==
  ASSUME idOf \in [Tasks -> 0..MaxId]
  PROVE  /\ NextLegacyJobId \in 1..(MaxId + 1)
         /\ \A t \in Stored : idOf[t] < NextLegacyJobId
<1> DEFINE Free == {i \in 1..(MaxId + 1) : \A t \in Stored : idOf[t] < i}
<1>1. MaxId \in Nat \ {0}
  BY TasksAssumption
<1>2. MaxId + 1 \in Free
  BY <1>1 DEF Stored
<1>3. Free \subseteq Nat
  BY <1>1
<1>4. PICK m \in Free : \A i \in Free : ~(<<i, m>> \in OpToRel(<, Nat))
  BY <1>2, <1>3, NatLessThanWellFounded, WFMin
<1>5. \A i \in Free : ~(i < m)
  BY <1>3, <1>4 DEF OpToRel
<1>6. m = 1 \/ \E t \in Stored : idOf[t] = m - 1
  <2> SUFFICES ASSUME m # 1 PROVE \E t \in Stored : idOf[t] = m - 1
    OBVIOUS
  <2>1. m - 1 \in 1..(MaxId + 1) /\ m - 1 < m
    BY <1>1
  <2>2. PICK t \in Stored : ~(idOf[t] < m - 1)
    BY <1>5, <2>1
  <2>3. idOf[t] \in 0..MaxId /\ idOf[t] < m
    BY DEF Stored
  <2> QED
    BY <1>1, <2>2, <2>3
<1> QED
  BY <1>6 DEF NextLegacyJobId

(* The table of tasks is empty at first. *)
LEMMA TasksInitInv == TasksInit => TasksInv
<1> SUFFICES ASSUME TasksInit PROVE TasksInv
  OBVIOUS
<1> DEFINE none == [NewRow EXCEPT !.state = "none"]
<1>1. none \in Row /\ none.state = "none"
  <2>1. NewRow \in Row
    BY TasksAssumption DEF Row, NewRow
  <2> QED
    BY <2>1 DEF Row
<1>2. row = [t \in Tasks |-> none]
  BY DEF TasksInit
<1> HIDE DEF none
<1>3. row \in [Tasks -> Row] /\ Stored = {} /\ \A t \in Tasks : row[t].state = "none"
  BY <1>1, <1>2 DEF Stored
<1>4. TasksTypeOK
  <2>1. \A t \in Tasks : (row[t].state = "none") = (idOf[t] = 0)
    BY <1>3 DEF TasksInit
  <2>2. /\ idOf \in [Tasks -> 0..MaxId] /\ runs \in [Tasks -> 0..MaxOverlap]
        /\ toggles \in 0..MaxToggles /\ restarts \in 0..MaxRestarts
    BY TasksAssumption DEF TasksInit
  <2>3. due \in [Tasks -> BOOLEAN]
    BY DEF TasksInit
  <2>4. starts \in [Tasks -> 0..2] /\ woken \subseteq Tasks
    BY DEF TasksInit
  <2>5. /\ timer \in BOOLEAN /\ runner \in BOOLEAN /\ (timer => runner)
    BY DEF TasksInit
  <2>6. \A t, u \in Stored : idOf[t] = idOf[u] => t = u
    BY <1>3
  <2> QED
    BY <1>3, <2>1, <2>2, <2>3, <2>4, <2>5, <2>6 DEF TasksTypeOK, Row
<1> QED
  BY <1>3, <1>4, TasksAssumption
  DEF TasksInit, TasksInv, UncreatedIsIdle, HasRoom, StartedHasRun, AtTaskStartsOnce,
      WaitingIsArmed, Fireable, NewRow

(* arm sets the timer for whatever may fire; rearmScheduler does so while the
   scheduler runs. *)
LEMMA RearmArms ==
  ASSUME TasksInv, runner' = runner, Rearm(row')
  PROVE  /\ timer' \in BOOLEAN /\ (timer' => runner')
         /\ \A t \in Tasks : Fireable(row'[t], t) /\ runner' => timer'
  BY DEF TasksInv, TasksTypeOK, Rearm, Arm

(* createJob: the new row has an id of its own. *)
LEMMA CreateKeeps ==
  ASSUME TasksInv, NEW t \in Tasks, Create(t)
  PROVE  TasksInv'
<1>1. /\ NextLegacyJobId \in 1..MaxId
      /\ \A u \in Stored : idOf[u] < NextLegacyJobId
  BY NextIdIsFresh, TasksAssumption DEF TasksInv, TasksTypeOK, Create
<1>2. NewRow \in Row /\ NewRow.state = "stored"
  BY TasksAssumption DEF Row, NewRow
<1>3. row' \in [Tasks -> Row] /\ idOf' \in [Tasks -> 0..MaxId]
  BY <1>1, <1>2, TasksAssumption DEF TasksInv, TasksTypeOK, Row, Create
<1>4. \A u \in Tasks : (row'[u].state = "none") = (idOf'[u] = 0)
  BY <1>1, <1>2, <1>3, TasksAssumption DEF TasksInv, TasksTypeOK, Create
<1>5. \A u, v \in Stored' : idOf'[u] = idOf'[v] => u = v
  BY <1>1, <1>2, <1>3 DEF TasksInv, TasksTypeOK, Create, Stored
<1>6. due' \in [Tasks -> BOOLEAN]
  BY DEF TasksInv, TasksTypeOK, Create
<1>7. TasksTypeOK'
  BY <1>3, <1>4, <1>5, <1>6, RearmArms
  DEF TasksInv, TasksTypeOK, Row, Create, aux, bounds
<1>8. UncreatedIsIdle' /\ HasRoom' /\ StartedHasRun' /\ AtTaskStartsOnce'
  BY <1>2, TasksAssumption
  DEF TasksInv, TasksTypeOK, UncreatedIsIdle, HasRoom, StartedHasRun, AtTaskStartsOnce,
      Create, aux
<1>9. WaitingIsArmed'
  BY RearmArms DEF WaitingIsArmed, Create
<1> QED
  BY <1>7, <1>8, <1>9 DEF TasksInv

(* A write of the row of t that keeps last_run and does not create it. *)
RowKept(t) ==
  /\ row'[t] \in Row /\ row'[t].ran = row[t].ran
  /\ row'[t].state = row[t].state \/ (row[t].state = "stored" /\ row'[t].state = "deleted")

(* Such writes, while no run starts, keep everything but what is said of the
   timer. *)
LEMMA WriteKeeps ==
  ASSUME TasksInv,
         row' = [t \in Tasks |-> row'[t]], \A t \in Tasks : RowKept(t),
         runs' \in [Tasks -> 0..MaxOverlap], \A t \in Tasks : runs'[t] <= runs[t],
         idOf' = idOf, due' = due, starts' = starts,
         timer' \in BOOLEAN, runner' \in BOOLEAN, timer' => runner', woken' \subseteq Tasks,
         toggles' \in 0..MaxToggles, restarts' \in 0..MaxRestarts
  PROVE  TasksTypeOK' /\ UncreatedIsIdle' /\ HasRoom' /\ StartedHasRun' /\ AtTaskStartsOnce'
<1>1. row' \in [Tasks -> Row]
  BY DEF RowKept
<1>2. Stored' \subseteq Stored
  BY DEF RowKept, Stored
<1>3. \A t \in Tasks : (row'[t].state = "none") = (row[t].state = "none")
  BY DEF RowKept
<1>4. TasksTypeOK'
  BY <1>1, <1>2, <1>3 DEF TasksInv, TasksTypeOK, Row
<1>5. UncreatedIsIdle' /\ StartedHasRun' /\ AtTaskStartsOnce'
  BY <1>3, TasksAssumption
  DEF TasksInv, TasksTypeOK, UncreatedIsIdle, StartedHasRun, AtTaskStartsOnce, RowKept
<1>6. HasRoom'
  <2> SUFFICES ASSUME NEW t \in Tasks, row'[t].state = "stored", due[t],
                      t \in AtTasks => ~row[t].ran
               PROVE  runs'[t] < MaxOverlap
    BY DEF HasRoom, RowKept
  <2>1. row[t].state = "stored"
    BY DEF RowKept
  <2>2. runs[t] < MaxOverlap
    BY <2>1 DEF TasksInv, HasRoom
  <2> QED
    BY <2>2, TasksAssumption DEF TasksInv, TasksTypeOK
<1> QED
  BY <1>4, <1>5, <1>6

(* setJobStatus and removeTask of a task by its id. *)
LEMMA MarksKeep ==
  ASSUME TasksInv, NEW i
  PROVE  /\ \A t \in Tasks : /\ MarkJobSuccess(row, i)[t] \in Row
                             /\ MarkJobSuccess(row, i)[t].ran = row[t].ran
                             /\ MarkJobSuccess(row, i)[t].state = row[t].state
                             /\ MarkJobSuccess(row, i)[t].enabled = row[t].enabled
         /\ \A t \in Tasks : /\ MarkJobFailure(row, i)[t] \in Row
                             /\ MarkJobFailure(row, i)[t].ran = row[t].ran
                             /\ MarkJobFailure(row, i)[t].state = row[t].state
<1> SUFFICES ASSUME NEW t \in Tasks
             PROVE  /\ MarkJobSuccess(row, i)[t] \in Row
                    /\ MarkJobSuccess(row, i)[t].ran = row[t].ran
                    /\ MarkJobSuccess(row, i)[t].state = row[t].state
                    /\ MarkJobSuccess(row, i)[t].enabled = row[t].enabled
                    /\ MarkJobFailure(row, i)[t] \in Row
                    /\ MarkJobFailure(row, i)[t].ran = row[t].ran
                    /\ MarkJobFailure(row, i)[t].state = row[t].state
  OBVIOUS
<1>1. row[t] \in Row
  BY DEF TasksInv, TasksTypeOK, Row
<1>2. 0 \in 0..MaxFailures
  BY TasksAssumption
<1>3. /\ Failed(row[t]) \in Row /\ Failed(row[t]).ran = row[t].ran
      /\ Failed(row[t]).state = row[t].state
  <2> DEFINE n == IF row[t].errors < MaxFailures THEN row[t].errors + 1 ELSE row[t].errors
             on == row[t].errors + 1 < MaxFailures
  <2>1. n \in 0..MaxFailures /\ on \in BOOLEAN
    BY <1>1, TasksAssumption DEF Row
  <2>2. Failed(row[t]) = [row[t] EXCEPT !.status = "error", !.errors = n, !.enabled = on]
    BY DEF Failed
  <2> HIDE DEF n, on
  <2> QED
    BY <1>1, <2>1, <2>2 DEF Row
<1> QED
  BY <1>1, <1>2, <1>3 DEF MarkJobSuccess, MarkJobFailure, Row

(* deleteJob takes rows away and leaves last_run and enabled of the others. *)
LEMMA DeleteKeeps ==
  ASSUME NEW rows, \A t \in Tasks : rows[t] \in Row /\ rows[t].state = row[t].state, NEW i
  PROVE  \A t \in Tasks :
           LET r == DeleteJob(rows, i)[t]
           IN  /\ r \in Row /\ r.ran = rows[t].ran /\ r.enabled = rows[t].enabled
               /\ r.state = row[t].state \/ (row[t].state = "stored" /\ r.state = "deleted")
  BY DEF DeleteJob, HasId, Stored, Row

(* removeTask by a user. *)
LEMMA RemoveKeeps ==
  ASSUME TasksInv, NEW t \in Tasks, Remove(t)
  PROVE  TasksInv'
<1>1. \A u \in Tasks : row[u] \in Row
  BY DEF TasksInv, TasksTypeOK, Row
<1>2. row' = [u \in Tasks |-> row'[u]] /\ \A u \in Tasks : RowKept(u)
  BY <1>1, DeleteKeeps DEF Remove, RowKept, DeleteJob
<1>3. /\ timer' \in BOOLEAN /\ (timer' => runner') /\ runner' = runner
      /\ \A u \in Tasks : Fireable(row'[u], u) /\ runner' => timer'
  BY RearmArms DEF Remove
<1>4. TasksTypeOK' /\ UncreatedIsIdle' /\ HasRoom' /\ StartedHasRun' /\ AtTaskStartsOnce'
  BY <1>2, <1>3, WriteKeeps, TasksAssumption
  DEF Remove, TasksInv, TasksTypeOK, aux, bounds
<1>5. WaitingIsArmed'
  BY <1>3 DEF WaitingIsArmed
<1> QED
  BY <1>4, <1>5 DEF TasksInv

(* setJobEnabled by a user. *)
LEMMA ToggleKeeps ==
  ASSUME TasksInv, NEW t \in Tasks, Toggle(t)
  PROVE  TasksInv'
<1>1. /\ row' = [row EXCEPT ![t].enabled = ~@]
      /\ row \in [Tasks -> Row]
  BY DEF TasksInv, TasksTypeOK, Row, Toggle
<1>2. row' = [u \in Tasks |-> row'[u]] /\ \A u \in Tasks : RowKept(u)
  BY <1>1 DEF RowKept, Row
<1>3. /\ timer' \in BOOLEAN /\ (timer' => runner') /\ runner' = runner
      /\ \A u \in Tasks : Fireable(row'[u], u) /\ runner' => timer'
  BY RearmArms DEF Toggle
<1>4. toggles' \in 0..MaxToggles
  BY TasksAssumption DEF Toggle, TasksInv, TasksTypeOK
<1>5. TasksTypeOK' /\ UncreatedIsIdle' /\ HasRoom' /\ StartedHasRun' /\ AtTaskStartsOnce'
  BY <1>2, <1>3, <1>4, WriteKeeps, TasksAssumption
  DEF Toggle, TasksInv, TasksTypeOK
<1>6. WaitingIsArmed'
  BY <1>3 DEF WaitingIsArmed
<1> QED
  BY <1>5, <1>6 DEF TasksInv

(* The clock: a task becomes due only below the bound on its runs. *)
LEMMA TimeKeeps ==
  ASSUME TasksInv, NEW t \in Tasks, TimePasses(t)
  PROVE  TasksInv'
<1>1. /\ due' = [due EXCEPT ![t] = TRUE] /\ runs[t] < MaxOverlap
      /\ UNCHANGED <<row, idOf, runs, timer, runner, starts, woken, toggles, restarts>>
  BY DEF TimePasses, table, aux, bounds
<1>2. TasksTypeOK'
  BY <1>1 DEF TasksInv, TasksTypeOK, Stored
<1>3. HasRoom'
  BY <1>1 DEF TasksInv, TasksTypeOK, HasRoom
<1>4. UncreatedIsIdle' /\ StartedHasRun' /\ AtTaskStartsOnce' /\ WaitingIsArmed'
  BY <1>1
  DEF TasksInv, UncreatedIsIdle, StartedHasRun, AtTaskStartsOnce, WaitingIsArmed, Fireable
<1> QED
  BY <1>2, <1>3, <1>4 DEF TasksInv

(* tick: a one-shot that starts has its last_run set, so it has started once
   and is not started again. *)
LEMMA StartTasksKeeps ==
  ASSUME TasksInv, runner, StartTasks
  PROVE  TasksInv'
<1>1. /\ row' = [t \in Tasks |-> IF Fires(t) THEN [row[t] EXCEPT !.ran = TRUE] ELSE row[t]]
      /\ runs' = [t \in Tasks |-> IF Fires(t) THEN runs[t] + 1 ELSE runs[t]]
      /\ starts' = [t \in Tasks |-> IF Fires(t) /\ starts[t] < 2 THEN starts[t] + 1
                                    ELSE starts[t]]
      /\ due' = [t \in Tasks |-> due[t] /\ (Fires(t) => t \in AtTasks)]
      /\ UNCHANGED <<idOf, runner, woken, toggles, restarts>>
      /\ Arm(row')
  BY DEF StartTasks, bounds
<1>2. \A t \in Tasks : Fires(t) => /\ row[t].state = "stored" /\ due[t]
                                   /\ runs[t] < MaxOverlap
                                   /\ (t \in AtTasks => ~row[t].ran /\ starts[t] = 0)
  BY DEF TasksInv, TasksTypeOK, HasRoom, StartedHasRun, Fires, Fireable
<1>3. \A t \in Tasks : /\ row[t] \in Row /\ row'[t] \in Row /\ row'[t].state = row[t].state
                       /\ (row'[t].ran <=> Fires(t) \/ row[t].ran)
  BY <1>1 DEF TasksInv, TasksTypeOK, Row
<1>4. \A t \in Tasks : /\ runs[t] \in 0..MaxOverlap /\ starts[t] \in 0..2
                       /\ runs'[t] \in 0..MaxOverlap /\ starts'[t] \in 0..2
  <2>1. \A t \in Tasks : runs[t] \in 0..MaxOverlap /\ starts[t] \in 0..2
    BY DEF TasksInv, TasksTypeOK
  <2> QED
    BY <1>1, <1>2, <2>1, TasksAssumption
<1>5. TasksTypeOK'
  <2>1. /\ row' \in [Tasks -> Row] /\ runs' \in [Tasks -> 0..MaxOverlap]
        /\ starts' \in [Tasks -> 0..2]
    BY <1>1, <1>3, <1>4
  <2>2. due' \in [Tasks -> BOOLEAN]
    BY <1>1, Zenon DEF TasksInv, TasksTypeOK
  <2>3. Stored' = Stored /\ \A t \in Tasks : (row'[t].state = "none") = (row[t].state = "none")
    BY <1>3 DEF Stored
  <2>4. timer' \in BOOLEAN /\ (timer' => runner')
    BY <1>1 DEF Arm
  <2> QED
    BY <1>1, <2>1, <2>2, <2>3, <2>4 DEF TasksInv, TasksTypeOK, Row
<1>6. UncreatedIsIdle'
  BY <1>1, <1>2, <1>3 DEF TasksInv, UncreatedIsIdle
<1>7. HasRoom'
  <2> SUFFICES ASSUME NEW t \in Tasks, row[t].state = "stored", due'[t],
                      t \in AtTasks => ~row'[t].ran
               PROVE  runs'[t] < MaxOverlap
    BY <1>3 DEF HasRoom
  <2>1. due[t] /\ ~Fires(t)
    BY <1>1, <1>3
  <2> QED
    BY <1>1, <1>3, <2>1 DEF TasksInv, HasRoom
<1>8. StartedHasRun' /\ AtTaskStartsOnce'
  <2> SUFFICES ASSUME NEW t \in AtTasks
               PROVE  (starts'[t] > 0 => row'[t].ran) /\ starts'[t] <= 1
    BY DEF StartedHasRun, AtTaskStartsOnce
  <2>1. t \in Tasks
    BY TasksAssumption
  <2>2. CASE Fires(t)
    <3>1. starts[t] = 0
      BY <1>2, <2>1, <2>2
    <3>2. starts'[t] = 1
      BY <1>1, <2>1, <2>2, <3>1
    <3>3. row'[t].ran
      BY <1>3, <2>1, <2>2
    <3> QED
      BY <3>2, <3>3
  <2>3. CASE ~Fires(t)
    BY <1>1, <1>3, <2>1, <2>3 DEF TasksInv, StartedHasRun, AtTaskStartsOnce
  <2> QED
    BY <2>2, <2>3
<1>9. WaitingIsArmed'
  BY <1>1 DEF WaitingIsArmed, Arm
<1> QED
  BY <1>5, <1>6, <1>7, <1>8, <1>9 DEF TasksInv

(* A run that ends leaves last_run alone, and a failure that enables the row
   of a task sets no timer: the task is counted as woken. *)
LEMMA ResolvesKeeps ==
  ASSUME TasksInv, NEW t \in Tasks, Resolves(t)
  PROVE  TasksInv'
<1> DEFINE marked == MarkJobSuccess(row, idOf[t])
<1>1. /\ runs[t] > 0 /\ runs' = [runs EXCEPT ![t] = @ - 1]
      /\ row' = (IF t \in AtTasks THEN DeleteJob(marked, idOf[t]) ELSE marked)
      /\ UNCHANGED <<idOf, due, timer, runner, starts, woken, toggles, restarts>>
  BY DEF Resolves, RunEnds, bounds
<1>2. \A u \in Tasks : /\ marked[u] \in Row /\ marked[u].ran = row[u].ran
                       /\ marked[u].state = row[u].state
                       /\ marked[u].enabled = row[u].enabled
  BY MarksKeep
<1>3. marked = [u \in Tasks |-> marked[u]]
  BY DEF MarkJobSuccess
<1> HIDE DEF marked
<1>4. \A u \in Tasks : RowKept(u) /\ row'[u].enabled = row[u].enabled
  <2>1. CASE t \in AtTasks
    BY <1>1, <1>2, <2>1, DeleteKeeps DEF RowKept
  <2>2. CASE t \notin AtTasks
    BY <1>1, <1>2, <2>2 DEF RowKept
  <2> QED
    BY <2>1, <2>2
<1>5. row' = [u \in Tasks |-> row'[u]]
  <2>1. CASE t \in AtTasks
    BY <1>1, <2>1 DEF DeleteJob
  <2>2. CASE t \notin AtTasks
    BY <1>1, <1>3, <2>2
  <2> QED
    BY <2>1, <2>2
<1>6. /\ runs' \in [Tasks -> 0..MaxOverlap]
      /\ \A u \in Tasks : runs'[u] <= runs[u]
  BY <1>1, TasksAssumption DEF TasksInv, TasksTypeOK
<1>7. TasksTypeOK' /\ UncreatedIsIdle' /\ HasRoom' /\ StartedHasRun' /\ AtTaskStartsOnce'
  BY <1>1, <1>4, <1>5, <1>6, WriteKeeps DEF TasksInv, TasksTypeOK
<1>8. WaitingIsArmed'
  BY <1>1, <1>4 DEF TasksInv, WaitingIsArmed, Fireable, RowKept
<1> QED
  BY <1>7, <1>8 DEF TasksInv

(* A run fails before its turn: its row counts the failure, and may be enabled
   again. *)
LEMMA RejectsKeeps ==
  ASSUME TasksInv, NEW t \in Tasks, Rejects(t)
  PROVE  TasksInv'
<1>1. /\ runs[t] > 0 /\ runs' = [runs EXCEPT ![t] = @ - 1]
      /\ row' = MarkJobFailure(row, idOf[t])
      /\ woken' = woken \cup {u \in Stored : row'[u].enabled /\ ~row[u].enabled}
      /\ UNCHANGED <<idOf, due, timer, runner, starts, toggles, restarts>>
  BY DEF Rejects, RunEnds, bounds
<1>2. /\ row' = [u \in Tasks |-> row'[u]]
      /\ \A u \in Tasks : RowKept(u) /\ row'[u].state = row[u].state
  BY <1>1, MarksKeep DEF RowKept, MarkJobFailure
<1>3. /\ runs' \in [Tasks -> 0..MaxOverlap]
      /\ \A u \in Tasks : runs'[u] <= runs[u]
  BY <1>1, TasksAssumption DEF TasksInv, TasksTypeOK
<1>4. woken' \subseteq Tasks
  BY <1>1 DEF TasksInv, TasksTypeOK, Stored
<1>5. TasksTypeOK' /\ UncreatedIsIdle' /\ HasRoom' /\ StartedHasRun' /\ AtTaskStartsOnce'
  BY <1>1, <1>2, <1>3, <1>4, WriteKeeps DEF TasksInv, TasksTypeOK
<1>6. WaitingIsArmed'
  <2> SUFFICES ASSUME NEW u \in Tasks, Fireable(row'[u], u), runner, u \notin woken'
               PROVE  timer
    BY <1>1 DEF WaitingIsArmed
  <2>1. Fireable(row[u], u) /\ u \notin woken
    BY <1>1, <1>2 DEF Fireable, RowKept, Stored
  <2> QED
    BY <2>1 DEF TasksInv, WaitingIsArmed
<1> QED
  BY <1>5, <1>6 DEF TasksInv

(* stopScheduler, and a new process over the same table. *)
LEMMA StopKeeps ==
  ASSUME TasksInv, StopScheduler
  PROVE  TasksInv'
<1>1. UNCHANGED <<row, idOf, due, runs, starts, woken, toggles, restarts>>
      /\ timer' = FALSE /\ runner' = FALSE
  BY DEF StopScheduler, table, aux, bounds
<1> QED
  BY <1>1
  DEF TasksInv, TasksTypeOK, UncreatedIsIdle, HasRoom, StartedHasRun, AtTaskStartsOnce,
      WaitingIsArmed, Stored

(* The process ends, the next one reads the table and arms its timer. *)
LEMMA RestartKeeps ==
  ASSUME TasksInv, Restart
  PROVE  TasksInv'
<1>1. /\ UNCHANGED <<row, idOf, due, starts, woken, toggles>>
      /\ runs' = [t \in Tasks |-> 0] /\ runner' = TRUE
      /\ restarts < MaxRestarts /\ restarts' = restarts + 1
      /\ timer' = \E t \in Tasks : Fireable(row[t], t)
  BY DEF Restart, table, aux, Arm
<1>2. \A t \in Tasks : RowKept(t)
  BY <1>1 DEF TasksInv, TasksTypeOK, Row, RowKept
<1>3. /\ runs' \in [Tasks -> 0..MaxOverlap] /\ restarts' \in 0..MaxRestarts
      /\ \A t \in Tasks : runs'[t] <= runs[t]
  BY <1>1, TasksAssumption DEF TasksInv, TasksTypeOK
<1>4. timer' \in BOOLEAN /\ runner' \in BOOLEAN /\ (timer' => runner')
  BY <1>1
<1>5. row' = [t \in Tasks |-> row'[t]]
  BY <1>1 DEF TasksInv, TasksTypeOK
<1>6. TasksTypeOK' /\ UncreatedIsIdle' /\ HasRoom' /\ StartedHasRun' /\ AtTaskStartsOnce'
  BY <1>1, <1>2, <1>3, <1>4, <1>5, WriteKeeps DEF TasksInv, TasksTypeOK
<1>7. WaitingIsArmed'
  BY <1>1 DEF WaitingIsArmed
<1> QED
  BY <1>6, <1>7 DEF TasksInv

(* Every step of the tasks, their users and the process. *)
LEMMA TasksStepInv == TasksInv /\ [TasksNext]_tasksVars => TasksInv'
<1> SUFFICES ASSUME TasksInv, [TasksNext]_tasksVars PROVE TasksInv'
  OBVIOUS
<1>1. CASE UNCHANGED tasksVars
  BY <1>1
  DEF tasksVars, table, aux, bounds, TasksInv, TasksTypeOK, UncreatedIsIdle, HasRoom,
      StartedHasRun, AtTaskStartsOnce, WaitingIsArmed, Stored
<1>2. ASSUME NEW t \in Tasks,
             Create(t) \/ Remove(t) \/ Toggle(t) \/ TimePasses(t) \/ Resolves(t) \/ Rejects(t)
      PROVE  TasksInv'
  BY <1>2, CreateKeeps, RemoveKeeps, ToggleKeeps, TimeKeeps, ResolvesKeeps, RejectsKeeps
<1>3. CASE Tick \/ TickForJob
  BY <1>3, StartTasksKeeps DEF Tick, TickForJob, TasksInv, TasksTypeOK
<1>4. CASE StopScheduler \/ Restart
  BY <1>4, StopKeeps, RestartKeeps
<1> QED
  BY <1>1, <1>2, <1>3, <1>4 DEF TasksNext

-----------------------------------------------------------------------------
(* The inductive invariant holds in every state of the scheduled tasks. *)
THEOREM TasksInvariant == TasksSpec => []TasksInv
  BY TasksInitInv, TasksStepInv, PTL DEF TasksSpec

(* The state keeps its shape; above all, no two rows of the table have the
   same id, although an id is handed out again after its row is gone. *)
THEOREM TasksTypeCorrect == TasksSpec => []TasksTypeOK
<1>1. TasksInv => TasksTypeOK
  BY DEF TasksInv
<1> QED
  BY <1>1, TasksInvariant, PTL

(* A one-shot is started at most once, over restarts, toggles, failures that
   enable its row again and ids handed out twice. *)
THEOREM OneShotsStartOnce == TasksSpec => []AtTaskStartsOnce
<1>1. TasksInv => AtTaskStartsOnce
  BY DEF TasksInv
<1> QED
  BY <1>1, TasksInvariant, PTL

(* While the scheduler runs its timer is set as long as a task may fire, but
   for tasks that a failure enabled: what DueTaskStarts needs of every step. *)
THEOREM WaitingTasksAreArmed == TasksSpec => []WaitingIsArmed
<1>1. TasksInv => WaitingIsArmed
  BY DEF TasksInv
<1> QED
  BY <1>1, TasksInvariant, PTL
=============================================================================
