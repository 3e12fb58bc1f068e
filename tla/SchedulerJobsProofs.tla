------------------------ MODULE SchedulerJobsProofs ------------------------
(***************************************************************************)
(* Safety of the scheduler jobs, for every number of jobs, retries,        *)
(* failures, operator steps and restarts.                                  *)
(*                                                                         *)
(* A paused job is quiet by its disabled flag.  One failure clears that    *)
(* flag: the last of a run-once job, and it completes the job and takes it *)
(* out of the backlog in the same step, so that no branch of the tick      *)
(* starts it.                                                              *)
(***************************************************************************)
EXTENDS SchedulerJobs, TLAPS

Row == [exists : BOOLEAN, enabled : BOOLEAN, kind : Kinds, board : Columns]
Meta == [ran : BOOLEAN, status : {"none", "success", "error"}, errors : 0..MaxErrors,
         disabled : BOOLEAN, completed : BOOLEAN]
RunCounts == [Branches -> 0..MaxOverlap]

(* No branch of the tick starts a job with this row and this runtime state. *)
Held(r, m) ==
  /\ r.exists
  /\ r.enabled => \/ m.disabled
                  \/ r.kind \in RunOnce /\ m.completed /\ r.board # "backlog"

PausedHolds ==
  \A j \in paused :
    /\ Held(row[j], meta[j])
    /\ row[j].enabled /\ row[j].kind = "every" => \A b \in Tracked : runs[j][b] = 0

JobsInv == JobsTypeOK /\ PausedHolds

-----------------------------------------------------------------------------
(* The state getConfigJobMeta makes up for a job that has none. *)
LEMMA DefaultMetaType == DefaultMeta \in Meta /\ MaxErrors \in Nat
<1>1. MaxErrors \in Nat
  BY JobsAssumption DEF MaxErrors
<1> QED
  BY <1>1 DEF DefaultMeta, Meta

(* The runs of a job in flight, after one more or one fewer of a branch. *)
LEMMA TotalOfOneMore ==
  ASSUME NEW r \in RunCounts, NEW b \in Branches, Total(r) < MaxOverlap
  PROVE  /\ [r EXCEPT ![b] = @ + 1] \in RunCounts
         /\ Total([r EXCEPT ![b] = @ + 1]) = Total(r) + 1
<1>1. \A c \in Branches : r[c] \in 0..MaxOverlap
  BY DEF RunCounts
<1>2. r[b] < MaxOverlap
  BY <1>1, JobsAssumption DEF Total, Branches, Tracked
<1>3. r[b] + 1 \in 0..MaxOverlap
  BY <1>1, <1>2, JobsAssumption
<1> QED
  BY <1>1, <1>3, JobsAssumption DEF Total, Branches, Tracked, RunCounts

(* The same for a run that has ended. *)
LEMMA TotalOfOneFewer ==
  ASSUME NEW r \in RunCounts, NEW b \in Branches, r[b] > 0
  PROVE  /\ [r EXCEPT ![b] = @ - 1] \in RunCounts
         /\ Total([r EXCEPT ![b] = @ - 1]) = Total(r) - 1
<1>1. \A c \in Branches : r[c] \in 0..MaxOverlap
  BY DEF RunCounts
<1>2. r[b] - 1 \in 0..MaxOverlap
  BY <1>1, JobsAssumption
<1> QED
  BY <1>1, <1>2, JobsAssumption DEF Total, Branches, Tracked, RunCounts

(* After a restart nothing is in flight. *)
LEMMA TotalOfNoRuns == NoRuns \in RunCounts /\ Total(NoRuns) = 0
<1>1. NoRuns \in RunCounts /\ \A b \in Branches : NoRuns[b] = 0
  BY JobsAssumption DEF NoRuns, RunCounts
<1>2. Total(NoRuns) = 0 + 0 + 0 + 0 + 0 + 0
  BY <1>1 DEF Total, Branches, Tracked
<1> QED
  BY <1>1, <1>2

(* arm keeps the rows and the flags of the jobs, but for a column that goes
   from in progress to review and for a job that becomes completed. *)
LEMMA RearmKeeps ==
  ASSUME NEW rows \in [Jobs -> Row], NEW metas \in [Jobs -> Meta],
         Arm(rows, metas) \/ (Rearm(rows, metas) /\ timer \in BOOLEAN)
  PROVE  /\ row' \in [Jobs -> Row] /\ meta' \in [Jobs -> Meta] /\ timer' \in BOOLEAN
         /\ \A j \in Jobs :
              /\ row'[j].exists = rows[j].exists /\ row'[j].enabled = rows[j].enabled
              /\ row'[j].kind = rows[j].kind
              /\ \/ row'[j].board = rows[j].board
                 \/ rows[j].board = "in_progress" /\ row'[j].board = "review"
              /\ Held(rows[j], metas[j]) => Held(row'[j], meta'[j])
<1>1. CASE Rearm(rows, metas) /\ ~runner /\ timer \in BOOLEAN
  BY <1>1 DEF Rearm
<1>2. CASE Arm(rows, metas)
  <2>1. ASSUME NEW j \in Jobs
        PROVE  /\ ReconciledRow(rows[j], metas[j]) \in Row
               /\ ReconciledMeta(rows[j], metas[j]) \in Meta
               /\ ReconciledMeta(rows[j], metas[j]).disabled = metas[j].disabled
               /\ metas[j].completed => ReconciledMeta(rows[j], metas[j]).completed
               /\ ReconciledRow(rows[j], metas[j]).exists = rows[j].exists
               /\ ReconciledRow(rows[j], metas[j]).enabled = rows[j].enabled
               /\ ReconciledRow(rows[j], metas[j]).kind = rows[j].kind
               /\ \/ ReconciledRow(rows[j], metas[j]).board = rows[j].board
                  \/ /\ rows[j].board = "in_progress"
                     /\ ReconciledRow(rows[j], metas[j]).board = "review"
    BY DEF ReconciledRow, ReconciledMeta, Row, Meta, Columns
  <2>2. /\ row' = [j \in Jobs |-> ReconciledRow(rows[j], metas[j])]
        /\ meta' = [j \in Jobs |-> IF rows[j].exists THEN ReconciledMeta(rows[j], metas[j])
                                   ELSE DefaultMeta]
        /\ timer' \in BOOLEAN
    BY <1>2 DEF Arm
  <2>3. row' \in [Jobs -> Row] /\ meta' \in [Jobs -> Meta]
    BY <2>1, <2>2, DefaultMetaType
  <2>4. ASSUME NEW j \in Jobs, Held(rows[j], metas[j])
        PROVE  Held(row'[j], meta'[j])
    BY <2>1, <2>2, <2>4 DEF Held
  <2> QED
    BY <2>1, <2>2, <2>3, <2>4
<1> QED
  BY <1>1, <1>2 DEF Rearm

(* The jobs of the configuration, enabled and never run. *)
LEMMA JobsInitInv == JobsInit => JobsInv
<1> SUFFICES ASSUME JobsInit PROVE JobsInv
  OBVIOUS
<1>1. row \in [Jobs -> Row] /\ meta \in [Jobs -> Meta]
  BY DefaultMetaType DEF JobsInit, Row, Columns
<1>2. runs \in [Jobs -> RunCounts] /\ \A j \in Jobs : InFlight(j) = 0
  BY TotalOfNoRuns DEF JobsInit, InFlight
<1>3. cooled \in [Jobs -> BOOLEAN] /\ reached \in [Jobs -> BOOLEAN]
  BY DEF JobsInit
<1>4. timer \in BOOLEAN /\ runner = TRUE /\ paused = {} /\ ops = 0 /\ restarts = 0
  BY DEF JobsInit
<1>5. ops \in 0..MaxOps /\ restarts \in 0..MaxRestarts /\ 0 <= MaxOverlap
  BY <1>4, JobsAssumption
<1>6. JobsTypeOK
  BY <1>1, <1>2, <1>3, <1>4, <1>5 DEF JobsTypeOK, Row, Meta, RunCounts
<1>7. PausedHolds
  BY <1>4 DEF PausedHolds
<1> QED
  BY <1>6, <1>7 DEF JobsInv

(* The state as the lemmas use it. *)
LEMMA JobsTypes ==
  ASSUME JobsInv
  PROVE  /\ row \in [Jobs -> Row] /\ meta \in [Jobs -> Meta]
         /\ runs \in [Jobs -> RunCounts] /\ timer \in BOOLEAN /\ runner \in BOOLEAN
         /\ cooled \in [Jobs -> BOOLEAN] /\ reached \in [Jobs -> BOOLEAN]
  BY DEF JobsInv, JobsTypeOK, Row, Meta, RunCounts

(* A step of the operator writes job j and rearms; j stays paused only if the
   write holds it. *)
LEMMA OperatorKeeps ==
  ASSUME JobsInv, NEW j \in Jobs, Operates(j),
         NEW rows \in [Jobs -> Row], NEW metas \in [Jobs -> Meta], Rearm(rows, metas),
         \A k \in Jobs \ {j} : rows[k] = row[k] /\ metas[k] = meta[k],
         cooled' \in [Jobs -> BOOLEAN], reached' \in [Jobs -> BOOLEAN],
         paused' \subseteq paused \cup {j},
         j \in paused' => /\ Held(rows[j], metas[j])
                          /\ rows[j].enabled /\ rows[j].kind = "every" =>
                               \A b \in Tracked : runs[j][b] = 0
  PROVE  JobsInv'
<1>1. /\ row' \in [Jobs -> Row] /\ meta' \in [Jobs -> Meta] /\ timer' \in BOOLEAN
      /\ \A k \in Jobs :
           /\ row'[k].enabled = rows[k].enabled /\ row'[k].kind = rows[k].kind
           /\ Held(rows[k], metas[k]) => Held(row'[k], meta'[k])
  BY JobsTypes, RearmKeeps
<1>2. ops' \in 0..MaxOps /\ UNCHANGED <<runs, runner, restarts>>
  BY JobsAssumption DEF Operates, JobsInv, JobsTypeOK
<1>3. timer' => runner'
  BY <1>2 DEF JobsInv, JobsTypeOK, Rearm
<1>4. \A k \in Jobs : InFlight(k)' = InFlight(k)
  BY <1>2 DEF InFlight
<1>5. JobsTypeOK'
  BY <1>1, <1>2, <1>3, <1>4 DEF JobsInv, JobsTypeOK, Row, Meta
<1>6. PausedHolds'
  <2> SUFFICES ASSUME NEW k \in paused'
               PROVE  /\ Held(row'[k], meta'[k])
                      /\ row'[k].enabled /\ row'[k].kind = "every" =>
                           \A b \in Tracked : runs'[k][b] = 0
    BY DEF PausedHolds
  <2>1. CASE k = j
    <3>1. Held(row'[j], meta'[j])
      BY <1>1, <2>1
    <3>2. row'[j].enabled /\ row'[j].kind = "every" => \A b \in Tracked : runs[j][b] = 0
      BY <1>1, <2>1
    <3> QED
      BY <1>2, <2>1, <3>1, <3>2
  <2>2. CASE k # j
    <3>1. k \in Jobs \ {j} /\ k \in paused
      BY <2>2 DEF JobsInv, JobsTypeOK
    <3> QED
      BY <1>1, <1>2, <3>1 DEF JobsInv, PausedHolds
  <2> QED
    BY <2>1, <2>2
<1> QED
  BY <1>5, <1>6 DEF JobsInv

(* pauseConfigJob *)
LEMMA PauseKeeps ==
  ASSUME JobsInv, NEW j \in Jobs, Pause(j)
  PROVE  JobsInv'
<1> DEFINE metas == [meta EXCEPT ![j].disabled = TRUE]
<1>1. metas \in [Jobs -> Meta] /\ metas[j].disabled /\ \A k \in Jobs \ {j} : metas[k] = meta[k]
  BY JobsTypes DEF Meta
<1>2. Operates(j) /\ row[j].exists /\ Rearm(row, metas) /\ UNCHANGED <<cooled, reached>>
  BY DEF Pause, clock
<1> HIDE DEF metas
<1>3. Held(row[j], metas[j])
  BY <1>1, <1>2 DEF Held
<1>4. paused' \subseteq paused \cup {j}
  BY DEF Pause
<1>5. j \in paused' /\ row[j].kind = "every" => \A b \in Tracked : ~(runs[j][b] > 0)
  BY DEF Pause
<1>6. \A b \in Tracked : runs[j][b] \in 0..MaxOverlap
  BY JobsTypes DEF RunCounts, Branches
<1>7. j \in paused' /\ row[j].kind = "every" => \A b \in Tracked : runs[j][b] = 0
  BY <1>5, <1>6, JobsAssumption
<1> QED
  BY <1>1, <1>2, <1>3, <1>4, <1>7, JobsTypes, OperatorKeeps

(* Reconciling a row or a runtime state, and resuming it, keeps its shape. *)
LEMMA ReconcileTypes ==
  ASSUME NEW r \in Row, NEW m \in Meta
  PROVE  /\ ReconciledRow(r, m) \in Row /\ Resumed(m) \in Meta
         /\ \A n \in Meta : ReconciledMeta(r, n) \in Meta
<1>1. 0 \in 0..MaxErrors
  BY DefaultMetaType
<1> QED
  BY <1>1 DEF ReconciledRow, ReconciledMeta, Resumed, Row, Meta, Columns

(* resumeConfigJob *)
LEMMA ResumeKeeps ==
  ASSUME JobsInv, NEW j \in Jobs, Resume(j)
  PROVE  JobsInv'
<1> DEFINE rows == [row EXCEPT ![j] = ReconciledRow(@, meta[j])]
           metas == [meta EXCEPT ![j] = ReconciledMeta(row[j], Resumed(@))]
<1>1. row[j] \in Row /\ meta[j] \in Meta
  BY JobsTypes
<1>2. /\ rows \in [Jobs -> Row] /\ metas \in [Jobs -> Meta]
      /\ \A k \in Jobs \ {j} : rows[k] = row[k] /\ metas[k] = meta[k]
  BY <1>1, JobsTypes, ReconcileTypes
<1>3. /\ Operates(j) /\ Rearm(rows, metas) /\ UNCHANGED <<cooled, reached>>
      /\ paused' = paused \ {j}
  BY DEF Resume, clock
<1> HIDE DEF rows, metas
<1> QED
  BY <1>2, <1>3, JobsTypes, OperatorKeeps

(* moveGatewayAdminSchedulerJob: what comes back to the backlog unpaused was
   reset, what stays paused is held by its flag or was not in the backlog. *)
LEMMA MoveKeeps ==
  ASSUME JobsInv, NEW j \in Jobs, NEW column \in Columns, Move(j, column)
  PROVE  JobsInv'
<1> DEFINE reset == column = "backlog" /\ row[j].kind \in RunOnce /\ row[j].board # "backlog"
           rows == [row EXCEPT ![j].board = column]
           metas == [meta EXCEPT ![j] = IF reset THEN DefaultMeta ELSE @]
<1>1. /\ rows \in [Jobs -> Row] /\ metas \in [Jobs -> Meta]
      /\ \A k \in Jobs \ {j} : rows[k] = row[k] /\ metas[k] = meta[k]
  BY JobsTypes, DefaultMetaType DEF Row
<1>2. /\ rows[j].exists = row[j].exists /\ rows[j].enabled = row[j].enabled
      /\ rows[j].kind = row[j].kind /\ rows[j].board = column
      /\ metas[j] = IF reset THEN DefaultMeta ELSE meta[j]
  BY JobsTypes DEF Row
<1>3. /\ Operates(j) /\ Rearm(rows, metas) /\ UNCHANGED <<cooled, reached>>
      /\ paused' = IF reset THEN paused \ {j} ELSE paused
  BY DEF Move, clock
<1>4. j \in paused' => /\ j \in paused /\ ~reset
                       /\ Held(row[j], meta[j])
                       /\ row[j].enabled /\ row[j].kind = "every" =>
                            \A b \in Tracked : runs[j][b] = 0
  BY <1>3 DEF JobsInv, PausedHolds
<1>5. j \in paused' => /\ Held(rows[j], metas[j])
                       /\ rows[j].enabled /\ rows[j].kind = "every" =>
                            \A b \in Tracked : runs[j][b] = 0
  <2> SUFFICES ASSUME j \in paused'
               PROVE  /\ Held(rows[j], metas[j])
                      /\ rows[j].enabled /\ rows[j].kind = "every" =>
                           \A b \in Tracked : runs[j][b] = 0
    OBVIOUS
  <2>1. metas[j] = meta[j] /\ ~reset /\ Held(row[j], meta[j])
    BY <1>2, <1>4
  <2>2. Held(rows[j], metas[j])
    BY <1>2, <2>1 DEF Held
  <2> QED
    BY <1>2, <1>4, <2>2
<1>6. paused' \subseteq paused \cup {j}
  BY <1>3
<1> HIDE DEF rows, metas, reset
<1> QED
  BY <1>1, <1>3, <1>5, <1>6, JobsTypes, OperatorKeeps

(* upsertGatewayAdminSchedulerJob: a job that stays paused is not enabled. *)
LEMMA UpsertKeeps ==
  ASSUME JobsInv, NEW j \in Jobs, NEW kind \in Kinds, NEW column \in Columns,
         NEW enabled \in BOOLEAN, Upsert(j, kind, column, enabled)
  PROVE  JobsInv'
<1> DEFINE new == [exists |-> TRUE, enabled |-> enabled, kind |-> kind, board |-> column]
           reset == /\ row[j].exists /\ kind \in RunOnce /\ column = "backlog"
                    /\ row[j].board # "backlog" \/ row[j].kind # kind
           kept == IF reset THEN DefaultMeta ELSE meta[j]
           rows == [row EXCEPT ![j] = IF enabled THEN ReconciledRow(new, kept) ELSE new]
           metas == [meta EXCEPT ![j] = IF enabled THEN ReconciledMeta(new, Resumed(kept))
                                        ELSE kept]
<1>1. new \in Row /\ kept \in Meta /\ new.exists /\ new.enabled = enabled
  BY JobsTypes, DefaultMetaType DEF Row
<1>2. /\ Operates(j)
      /\ IF enabled
         THEN Rearm([row EXCEPT ![j] = ReconciledRow(new, kept)],
                    [meta EXCEPT ![j] = ReconciledMeta(new, Resumed(kept))])
         ELSE Rearm([row EXCEPT ![j] = new], [meta EXCEPT ![j] = kept])
      /\ paused' = (IF enabled \/ reset THEN paused \ {j} ELSE paused)
      /\ reached' = [reached EXCEPT ![j] = kind # "at"] /\ cooled' = cooled
  BY DEF Upsert
<1> HIDE DEF new, reset, kept
<1>3. /\ rows \in [Jobs -> Row] /\ metas \in [Jobs -> Meta]
      /\ \A k \in Jobs \ {j} : rows[k] = row[k] /\ metas[k] = meta[k]
  BY <1>1, JobsTypes, ReconcileTypes
<1>4. Rearm(rows, metas)
  BY <1>2
<1>5. j \in paused' => ~enabled /\ rows[j] = new
  BY <1>2, JobsTypes
<1>6. j \in paused' => Held(rows[j], metas[j]) /\ ~rows[j].enabled
  BY <1>1, <1>5 DEF Held
<1>7. /\ cooled' \in [Jobs -> BOOLEAN] /\ reached' \in [Jobs -> BOOLEAN]
      /\ paused' \subseteq paused \cup {j}
  BY <1>2, JobsTypes
<1> HIDE DEF rows, metas
<1> QED
  BY <1>2, <1>3, <1>4, <1>6, <1>7, OperatorKeeps

(* removeGatewayAdminSchedulerJob *)
LEMMA RemoveKeeps ==
  ASSUME JobsInv, NEW j \in Jobs, Remove(j)
  PROVE  JobsInv'
<1> DEFINE rows == [row EXCEPT ![j].exists = FALSE]
<1>1. rows \in [Jobs -> Row] /\ \A k \in Jobs \ {j} : rows[k] = row[k]
  BY JobsTypes DEF Row
<1>2. /\ Operates(j) /\ Rearm(rows, meta) /\ UNCHANGED <<cooled, reached>>
      /\ paused' = paused \ {j}
  BY DEF Remove, clock
<1> HIDE DEF rows
<1> QED
  BY <1>1, <1>2, JobsTypes, OperatorKeeps

(* The tick: a job that a branch starts is not held. *)
LEMMA FiresIsNotHeld ==
  ASSUME NEW j \in Jobs, Fires(j)
  PROVE  /\ ~Held(row[j], meta[j]) /\ Branch(j) \in Branches
         /\ ToInProgress(j) => row[j].board \notin Terminal
<1>1. ~Held(row[j], meta[j])
  BY DEF Fires, Held, InBacklog, RunOnce
<1>2. Branch(j) \in Branches
  BY DEF Fires, Branch, Branches, Tracked
<1>3. ToInProgress(j) => row[j].board \notin Terminal
  BY DEF Fires, ToInProgress, Branch, InBacklog, Terminal
<1> QED
  BY <1>1, <1>2, <1>3

(* A tick starts what is due, and nothing that is held. *)
LEMMA StartJobsKeeps ==
  ASSUME JobsInv, runner, StartJobs
  PROVE  JobsInv'
<1> DEFINE rows == [j \in Jobs |-> IF Fires(j) /\ ToInProgress(j)
                                   THEN [row[j] EXCEPT !.board = "in_progress"] ELSE row[j]]
           metas == [j \in Jobs |-> IF Fires(j) THEN [meta[j] EXCEPT !.ran = TRUE] ELSE meta[j]]
<1>1. /\ \A j \in Jobs : Fires(j) => InFlight(j) < MaxOverlap
      /\ Arm(rows, metas)
      /\ runs' = [j \in Jobs |-> IF Fires(j) THEN [runs[j] EXCEPT ![Branch(j)] = @ + 1]
                                 ELSE runs[j]]
      /\ UNCHANGED <<runner, paused, ops, restarts>>
  BY DEF StartJobs
<1>2. cooled' \in [Jobs -> BOOLEAN] /\ reached' \in [Jobs -> BOOLEAN]
  <2>1. /\ cooled' = [j \in Jobs |-> cooled[j] /\ ~Fires(j)]
        /\ reached' = [j \in Jobs |-> reached[j] /\ (Fires(j) => row[j].kind # "every")]
    BY DEF StartJobs
  <2> QED
    BY <2>1, Zenon
<1>3. rows \in [Jobs -> Row] /\ metas \in [Jobs -> Meta]
  BY JobsTypes DEF Row, Meta, Columns
<1>4. \A j \in Jobs : ~Fires(j) => rows[j] = row[j] /\ metas[j] = meta[j] /\ runs'[j] = runs[j]
  BY <1>1
<1> HIDE DEF rows, metas
<1>5. /\ row' \in [Jobs -> Row] /\ meta' \in [Jobs -> Meta] /\ timer' \in BOOLEAN
      /\ \A k \in Jobs :
           /\ row'[k].enabled = rows[k].enabled /\ row'[k].kind = rows[k].kind
           /\ Held(rows[k], metas[k]) => Held(row'[k], meta'[k])
  BY <1>1, <1>3, RearmKeeps
<1>6. \A j \in Jobs : /\ runs'[j] \in RunCounts
                      /\ Total(runs'[j]) <= MaxOverlap
  <2> SUFFICES ASSUME NEW j \in Jobs
               PROVE  runs'[j] \in RunCounts /\ Total(runs'[j]) <= MaxOverlap
    OBVIOUS
  <2>1. runs[j] \in RunCounts /\ Total(runs[j]) <= MaxOverlap
    BY JobsTypes DEF JobsInv, JobsTypeOK, InFlight
  <2>2. Total(runs[j]) \in Nat
    BY <2>1 DEF RunCounts, Total, Branches, Tracked
  <2>3. CASE Fires(j)
    <3>1. Total(runs[j]) < MaxOverlap /\ Branch(j) \in Branches
      BY <1>1, <2>3, FiresIsNotHeld DEF InFlight
    <3> QED
      BY <1>1, <2>1, <2>2, <2>3, <3>1, TotalOfOneMore, JobsAssumption
  <2>4. CASE ~Fires(j)
    BY <1>4, <2>1, <2>4
  <2> QED
    BY <2>3, <2>4
<1>7. runs' \in [Jobs -> RunCounts] /\ \A j \in Jobs : InFlight(j)' <= MaxOverlap
  BY <1>1, <1>6 DEF InFlight
<1>8. JobsTypeOK'
  BY <1>1, <1>2, <1>5, <1>7 DEF JobsInv, JobsTypeOK, Row, Meta, RunCounts
<1>9. PausedHolds'
  <2> SUFFICES ASSUME NEW j \in paused
               PROVE  /\ Held(row'[j], meta'[j])
                      /\ row'[j].enabled /\ row'[j].kind = "every" =>
                           \A b \in Tracked : runs'[j][b] = 0
    BY <1>1 DEF PausedHolds
  <2>1. j \in Jobs /\ Held(row[j], meta[j])
    BY DEF JobsInv, JobsTypeOK, PausedHolds
  <2>2. ~Fires(j)
    BY <2>1, FiresIsNotHeld
  <2> QED
    BY <1>4, <1>5, <2>1, <2>2 DEF JobsInv, PausedHolds
<1> QED
  BY <1>8, <1>9 DEF JobsInv

(* The clock. *)
LEMMA TimeKeeps ==
  ASSUME JobsInv, NEW j \in Jobs, TimePasses(j)
  PROVE  JobsInv'
<1>1. /\ UNCHANGED <<row, meta, runs, timer, runner, paused, ops, restarts>>
      /\ cooled' \in [Jobs -> BOOLEAN] /\ reached' \in [Jobs -> BOOLEAN]
  BY JobsTypes DEF TimePasses
<1> QED
  BY <1>1 DEF JobsInv, JobsTypeOK, PausedHolds, InFlight, Held

(* The end of a run writes the job it belongs to and starts none. *)
LEMMA RunEndsKeeps ==
  ASSUME JobsInv, NEW j \in Jobs, NEW b \in Branches, RunEnds(j, b),
         row' \in [Jobs -> Row], meta' \in [Jobs -> Meta],
         \A k \in Jobs \ {j} : row'[k] = row[k] /\ meta'[k] = meta[k],
         row'[j].enabled = row[j].enabled /\ row'[j].kind = row[j].kind,
         j \in paused => Held(row'[j], meta'[j])
  PROVE  JobsInv'
<1> DEFINE fewer == [runs[j] EXCEPT ![b] = @ - 1]
<1>1. /\ runs[j][b] > 0 /\ runs' = [runs EXCEPT ![j] = fewer]
      /\ UNCHANGED <<cooled, reached, timer, runner, paused, ops, restarts>>
  <2>1. runs' = [runs EXCEPT ![j][b] = @ - 1]
    BY DEF RunEnds
  <2>2. runs' = [runs EXCEPT ![j] = fewer]
    BY <2>1, JobsTypes DEF RunCounts
  <2> QED
    BY <2>2 DEF RunEnds, clock
<1>2. /\ runs[j] \in RunCounts /\ Total(runs[j]) <= MaxOverlap
      /\ \A c \in Branches : runs[j][c] \in 0..MaxOverlap
  BY JobsTypes DEF JobsInv, JobsTypeOK, InFlight, RunCounts
<1>3. Total(runs[j]) \in Nat
  BY <1>2 DEF RunCounts, Total, Branches, Tracked
<1>4. runs' \in [Jobs -> RunCounts] /\ Total(runs'[j]) <= MaxOverlap
  <2>1. fewer \in RunCounts /\ Total(fewer) = Total(runs[j]) - 1
    BY <1>1, <1>2, TotalOfOneFewer
  <2> HIDE DEF fewer
  <2>2. runs' \in [Jobs -> RunCounts] /\ runs'[j] = fewer
    BY <1>1, <2>1, JobsTypes
  <2> QED
    BY <1>2, <1>3, <2>1, <2>2, JobsAssumption
<1>5. \A k \in Jobs : InFlight(k)' <= MaxOverlap
  BY <1>1, <1>4, JobsTypes DEF JobsInv, JobsTypeOK, InFlight
<1>6. JobsTypeOK'
  BY <1>1, <1>4, <1>5 DEF JobsInv, JobsTypeOK, Row, Meta, RunCounts
<1>7. PausedHolds'
  <2> SUFFICES ASSUME NEW k \in paused
               PROVE  /\ Held(row'[k], meta'[k])
                      /\ row'[k].enabled /\ row'[k].kind = "every" =>
                           \A c \in Tracked : runs'[k][c] = 0
    BY <1>1 DEF PausedHolds
  <2>1. /\ k \in Jobs /\ Held(row[k], meta[k])
        /\ row[k].enabled /\ row[k].kind = "every" => \A c \in Tracked : runs[k][c] = 0
    BY DEF JobsInv, JobsTypeOK, PausedHolds
  <2>2. CASE k = j
    <3>1. row[j].enabled /\ row[j].kind = "every" => b \notin Tracked
      BY <1>1, <2>1, <2>2
    <3>2. \A c \in Tracked : c # b => runs'[j][c] = runs[j][c]
      BY <1>1, JobsTypes
    <3> QED
      BY <2>1, <2>2, <3>1, <3>2
  <2>3. CASE k # j
    BY <1>1, <2>1, <2>3, JobsTypes
  <2> QED
    BY <2>2, <2>3
<1> QED
  BY <1>6, <1>7 DEF JobsInv

(* The columns and the flags that the end of a run writes. *)
LEMMA FailureTypes ==
  ASSUME NEW m \in Meta
  PROVE  /\ CountError(m) \in Meta /\ RunOnceFailure(m) \in Meta /\ JobFailure(m) \in Meta
         /\ RunOnceFailure(m).errors = CountError(m).errors
         /\ m.disabled => JobFailure(m).disabled
         /\ m.completed => JobFailure(m).completed /\ RunOnceFailure(m).completed
         /\ \/ RunOnceFailure(m).disabled = m.disabled
            \/ CountError(m).errors > MaxRetries /\ RunOnceFailure(m).completed
<1> DEFINE n == IF m.errors < MaxErrors THEN m.errors + 1 ELSE m.errors
           c == CountError(m)
<1>1. n \in 0..MaxErrors
  BY DefaultMetaType DEF Meta
<1>2. c = [m EXCEPT !.status = "error", !.errors = n]
  BY DEF CountError
<1> HIDE DEF n
<1>3. c \in Meta /\ c.disabled = m.disabled /\ c.completed = m.completed
  BY <1>1, <1>2 DEF Meta
<1> HIDE DEF c
<1>4. RunOnceFailure(m) = IF c.errors > MaxRetries
                          THEN [c EXCEPT !.completed = TRUE, !.disabled = FALSE] ELSE c
  BY DEF RunOnceFailure, c
<1>5. JobFailure(m) = IF c.errors >= MaxFailures THEN [c EXCEPT !.disabled = TRUE] ELSE c
  BY DEF JobFailure, c
<1>6. /\ RunOnceFailure(m) \in Meta /\ RunOnceFailure(m).errors = c.errors
      /\ m.completed => RunOnceFailure(m).completed
      /\ \/ RunOnceFailure(m).disabled = m.disabled
         \/ c.errors > MaxRetries /\ RunOnceFailure(m).completed
  <2>1. CASE c.errors > MaxRetries
    BY <1>3, <1>4, <2>1 DEF Meta
  <2>2. CASE ~(c.errors > MaxRetries)
    BY <1>3, <1>4, <2>2
  <2> QED
    BY <2>1, <2>2
<1>7. /\ JobFailure(m) \in Meta
      /\ m.disabled => JobFailure(m).disabled /\ (m.completed => JobFailure(m).completed)
      /\ m.completed => JobFailure(m).completed
  BY <1>3, <1>5 DEF Meta
<1> QED
  BY <1>3, <1>6, <1>7 DEF c

(* moveConfigJobToReview changes the column only, and no terminal one. *)
LEMMA MoveToReviewKeeps ==
  ASSUME NEW r \in Row
  PROVE  /\ MoveToReview(r) \in Row /\ MoveToReview(r).exists = r.exists
         /\ MoveToReview(r).enabled = r.enabled /\ MoveToReview(r).kind = r.kind
         /\ r.board \in Terminal => MoveToReview(r).board = r.board
         /\ MoveToReview(r).board = r.board \/ MoveToReview(r).board = "review"
         /\ r.exists => MoveToReview(r).board \in Terminal
  BY DEF MoveToReview, Row, Columns, Terminal

(* The continuation of a run that ended well. *)
LEMMA SucceedsKeeps ==
  ASSUME JobsInv, NEW j \in Jobs, NEW b \in Branches, Succeeds(j, b)
  PROVE  JobsInv'
<1>1. row[j] \in Row /\ meta[j] \in Meta
  BY JobsTypes
<1>2. PICK moved \in BOOLEAN, m \in Meta :
        /\ row' = [row EXCEPT ![j] = IF moved THEN MoveToReview(@) ELSE @]
        /\ meta' = [meta EXCEPT ![j] = m]
        /\ m.disabled = meta[j].disabled /\ (meta[j].completed => m.completed)
  <2> DEFINE backlog == b \in {"backlog_once", "backlog"}
             moves == backlog /\ row[j].exists /\ row[j].board = "in_progress"
             once == IF moves THEN row[j].kind \in RunOnce ELSE b \in Tracked \cup {"at"}
             moved == moves \/ (~backlog /\ b \in Tracked)
             m == Succeeded(meta[j], once)
  <2>0. row' = [row EXCEPT ![j] = IF moves \/ (~backlog /\ b \in Tracked)
                                  THEN MoveToReview(@) ELSE @]
    BY DEF Succeeds
  <2>1. row' = [row EXCEPT ![j] = IF moved THEN MoveToReview(@) ELSE @]
    BY <2>0
  <2>2. meta' = [meta EXCEPT ![j] = m]
    BY DEF Succeeds
  <2>3. moved \in BOOLEAN /\ 0 \in 0..MaxErrors
    BY DefaultMetaType
  <2> HIDE DEF moved, once
  <2>4. m \in Meta /\ m.disabled = meta[j].disabled /\ (meta[j].completed => m.completed)
    BY <1>1, <2>3 DEF Meta, Succeeded
  <2> HIDE DEF m
  <2> QED
    BY <2>1, <2>2, <2>3, <2>4
<1>3. RunEnds(j, b)
  BY DEF Succeeds
<1>5. /\ row' \in [Jobs -> Row] /\ meta' \in [Jobs -> Meta]
      /\ \A k \in Jobs \ {j} : row'[k] = row[k] /\ meta'[k] = meta[k]
      /\ meta'[j] = m /\ row'[j] = IF moved THEN MoveToReview(row[j]) ELSE row[j]
  BY <1>1, <1>2, JobsTypes, MoveToReviewKeeps
<1>6. row'[j].enabled = row[j].enabled /\ row'[j].kind = row[j].kind
  BY <1>1, <1>5, MoveToReviewKeeps
<1>7. Held(row[j], meta[j]) => Held(row'[j], meta'[j])
  BY <1>1, <1>2, <1>5, MoveToReviewKeeps DEF Held, Terminal
<1> QED
  BY <1>3, <1>5, <1>6, <1>7, RunEndsKeeps DEF JobsInv, PausedHolds

(* The failure that clears the flag of a paused job completes a run-once job
   and moves it out of the backlog. *)
LEMMA FailsKeeps ==
  ASSUME JobsInv, NEW j \in Jobs, NEW b \in Branches, Fails(j, b)
  PROVE  JobsInv'
<1> DEFINE m == IF b \in Tracked THEN RunOnceFailure(meta[j]) ELSE JobFailure(meta[j])
           last == b \in Tracked /\ m.errors > MaxRetries
<1>1. /\ row[j] \in Row /\ meta[j] \in Meta
      /\ RunEnds(j, b) /\ meta' = [meta EXCEPT ![j] = m]
  BY JobsTypes DEF Fails
<1>2. m \in Meta /\ meta'[j] = m
  BY <1>1, JobsTypes, FailureTypes
<1>3. row' = [row EXCEPT ![j] = IF last THEN MoveToReview(@) ELSE @]
  BY <1>2 DEF Fails
<1>4. \/ /\ meta[j].disabled => m.disabled
         /\ meta[j].completed => m.completed
      \/ last /\ m.completed
  BY <1>1, FailureTypes
<1>5. meta[j].completed => m.completed
  BY <1>1, FailureTypes
<1> HIDE DEF m, last
<1>6. /\ row' \in [Jobs -> Row] /\ meta' \in [Jobs -> Meta]
      /\ \A k \in Jobs \ {j} : row'[k] = row[k] /\ meta'[k] = meta[k]
      /\ row'[j] = IF last THEN MoveToReview(row[j]) ELSE row[j]
  BY <1>1, <1>2, <1>3, JobsTypes, MoveToReviewKeeps
<1>7. row'[j].enabled = row[j].enabled /\ row'[j].kind = row[j].kind
  BY <1>1, <1>6, MoveToReviewKeeps
<1>8. ASSUME j \in paused PROVE Held(row'[j], meta'[j])
  <2>1. /\ Held(row[j], meta[j])
        /\ row[j].enabled /\ row[j].kind = "every" => \A c \in Tracked : runs[j][c] = 0
    BY <1>8 DEF JobsInv, PausedHolds
  <2>2. row'[j].exists /\ (row'[j].board # "backlog" \/ row'[j].board = row[j].board)
    BY <1>1, <1>6, <2>1, MoveToReviewKeeps DEF Held
  <2>3. CASE last
    <3>1. runs[j][b] > 0 /\ b \in Tracked
      BY <1>1, <2>3 DEF RunEnds, last
    <3>2. row[j].enabled => row[j].kind \in RunOnce
      BY <1>1, <2>1, <3>1 DEF Row, Kinds, RunOnce
    <3>3. row'[j].board # "backlog"
      BY <1>1, <1>6, <2>1, <2>3, MoveToReviewKeeps DEF Held, Terminal
    <3>4. CASE m.completed
      BY <1>2, <1>7, <2>2, <3>2, <3>3, <3>4 DEF Held
    <3>5. CASE ~m.completed
      BY <1>2, <1>4, <1>5, <1>7, <2>1, <2>2, <3>5 DEF Held
    <3> QED
      BY <3>4, <3>5
  <2>4. CASE ~last
    BY <1>2, <1>4, <1>6, <2>1, <2>4 DEF Held
  <2> QED
    BY <2>3, <2>4
<1> QED
  BY <1>1, <1>6, <1>7, <1>8, RunEndsKeeps

(* stopScheduler, and the restart that loads the state file and arms. *)
LEMMA StopKeeps ==
  ASSUME JobsInv, StopScheduler
  PROVE  JobsInv'
<1>1. /\ timer' = FALSE /\ runner' = FALSE
      /\ UNCHANGED <<row, meta, cooled, reached, runs, paused, ops, restarts>>
  BY DEF StopScheduler, clock
<1>2. \A j \in Jobs : InFlight(j)' = InFlight(j)
  BY <1>1 DEF InFlight
<1>3. JobsTypeOK'
  BY <1>1, <1>2 DEF JobsInv, JobsTypeOK
<1>4. PausedHolds'
  BY <1>1 DEF JobsInv, PausedHolds
<1> QED
  BY <1>3, <1>4 DEF JobsInv

(* The process ends and with it its runs; the next one arms its timer. *)
LEMMA RestartKeeps ==
  ASSUME JobsInv, Restart
  PROVE  JobsInv'
<1>1. /\ restarts < MaxRestarts /\ restarts' = restarts + 1
      /\ runs' = [j \in Jobs |-> NoRuns] /\ runner' = TRUE
      /\ Arm(row, meta) /\ UNCHANGED <<cooled, reached, paused, ops>>
  BY DEF Restart, clock
<1>2. /\ row' \in [Jobs -> Row] /\ meta' \in [Jobs -> Meta] /\ timer' \in BOOLEAN
      /\ \A j \in Jobs : Held(row[j], meta[j]) => Held(row'[j], meta'[j])
  BY <1>1, JobsTypes, RearmKeeps
<1>3. /\ runs' \in [Jobs -> RunCounts] /\ \A j \in Jobs : InFlight(j)' = 0
  BY <1>1, TotalOfNoRuns DEF InFlight
<1>4. restarts' \in 0..MaxRestarts /\ 0 <= MaxOverlap
  BY <1>1, JobsAssumption DEF JobsInv, JobsTypeOK
<1>5. JobsTypeOK'
  BY <1>1, <1>2, <1>3, <1>4 DEF JobsInv, JobsTypeOK, Row, Meta, RunCounts
<1>6. \A j \in Jobs : \A b \in Tracked : runs'[j][b] = 0
  BY <1>1 DEF NoRuns, Branches
<1>7. paused' \subseteq Jobs /\ paused' = paused
  BY <1>1 DEF JobsInv, JobsTypeOK
<1>8. PausedHolds'
  BY <1>2, <1>6, <1>7 DEF JobsInv, PausedHolds
<1> QED
  BY <1>5, <1>8 DEF JobsInv

(* Every step of the jobs, the operator and the process. *)
LEMMA JobsStepInv ==
  ASSUME JobsInv, [JobsNext]_jobsVars
  PROVE  JobsInv'
<1>1. CASE Tick \/ TickForTask
  <2>1. runner /\ StartJobs
    BY <1>1 DEF Tick, TickForTask, JobsInv, JobsTypeOK
  <2> QED
    BY <2>1, StartJobsKeeps
<1>2. CASE StopScheduler
  BY <1>2, StopKeeps
<1>3. CASE Restart
  BY <1>3, RestartKeeps
<1>4. ASSUME NEW j \in Jobs, TimePasses(j) \/ Pause(j) \/ Resume(j) \/ Remove(j)
      PROVE  JobsInv'
  BY <1>4, TimeKeeps, PauseKeeps, ResumeKeeps, RemoveKeeps
<1>5. ASSUME NEW j \in Jobs, NEW b \in Branches, Succeeds(j, b) \/ Fails(j, b)
      PROVE  JobsInv'
  BY <1>5, SucceedsKeeps, FailsKeeps
<1>6. ASSUME NEW j \in Jobs, NEW column \in Columns, Move(j, column)
      PROVE  JobsInv'
  BY <1>6, MoveKeeps
<1>7. ASSUME NEW j \in Jobs, NEW kind \in Kinds, NEW column \in Columns,
             NEW enabled \in BOOLEAN, Upsert(j, kind, column, enabled)
      PROVE  JobsInv'
  BY <1>7, UpsertKeeps
<1>8. CASE UNCHANGED jobsVars
  <2>1. UNCHANGED <<row, meta, cooled, reached, runs, timer, runner, paused, ops, restarts>>
    BY <1>8 DEF jobsVars, clock
  <2>2. \A j \in Jobs : InFlight(j)' = InFlight(j)
    BY <2>1 DEF InFlight
  <2> QED
    BY <2>1, <2>2 DEF JobsInv, JobsTypeOK, PausedHolds
<1> QED
  BY <1>1, <1>2, <1>3, <1>4, <1>5, <1>6, <1>7, <1>8 DEF JobsNext

-----------------------------------------------------------------------------
(* JobsInv holds in every state: the records of the state file are well formed,
   and what the operator has paused is held. *)
THEOREM JobsInvariant == JobsSpec => []JobsInv
<1>1. JobsInv /\ [JobsNext]_jobsVars => JobsInv'
  BY JobsStepInv
<1> QED
  BY JobsInitInv, <1>1, PTL DEF JobsSpec

(* JobsTypeOK: rows, runtime states and runs in flight stay in their domains, no
   job has more runs than the bound, and the timer of a stopped scheduler is
   never set (rearmScheduler). *)
THEOREM JobsTypeCorrect == JobsSpec => []JobsTypeOK
<1>1. JobsInv => JobsTypeOK
  BY DEF JobsInv
<1> QED
  BY JobsInvariant, <1>1, PTL

(* What a tick, a restart and the end of a run do to a terminal column: each
   moves a job to review at most, and only one that is not in review or done. *)
LEMMA StartJobsKeepsTerminal ==
  ASSUME JobsInv, StartJobs, NEW j \in Jobs, row[j].board \in Terminal
  PROVE  row'[j].board = row[j].board
<1> DEFINE rows == [k \in Jobs |-> IF Fires(k) /\ ToInProgress(k)
                                   THEN [row[k] EXCEPT !.board = "in_progress"] ELSE row[k]]
           metas == [k \in Jobs |-> IF Fires(k) THEN [meta[k] EXCEPT !.ran = TRUE] ELSE meta[k]]
<1>1. Arm(rows, metas)
  BY DEF StartJobs
<1>2. rows \in [Jobs -> Row] /\ metas \in [Jobs -> Meta]
  BY JobsTypes DEF Row, Meta, Columns
<1>3. rows[j] = row[j]
  BY FiresIsNotHeld
<1> HIDE DEF rows, metas
<1>4. \/ row'[j].board = rows[j].board
      \/ rows[j].board = "in_progress" /\ row'[j].board = "review"
  BY <1>1, <1>2, RearmKeeps
<1> QED
  BY <1>3, <1>4 DEF Terminal

(* The end of a run, also of one started before the operator moved its job. *)
LEMMA RunEndKeepsTerminal ==
  ASSUME JobsInv, NEW k \in Jobs, NEW b \in Branches, Succeeds(k, b) \/ Fails(k, b),
         NEW j \in Jobs, row[j].board \in Terminal
  PROVE  row'[j].board = row[j].board
<1>1. \E moved \in BOOLEAN : row' = [row EXCEPT ![k] = IF moved THEN MoveToReview(@) ELSE @]
  <2>1. CASE Succeeds(k, b)
    <3> DEFINE backlog == b \in {"backlog_once", "backlog"}
               moves == backlog /\ row[k].exists /\ row[k].board = "in_progress"
               moved == moves \/ (~backlog /\ b \in Tracked)
    <3>1. row' = [row EXCEPT ![k] = IF moves \/ (~backlog /\ b \in Tracked)
                                    THEN MoveToReview(@) ELSE @]
      BY <2>1, Zenon DEF Succeeds
    <3>2. moved \in BOOLEAN /\ row' = [row EXCEPT ![k] = IF moved THEN MoveToReview(@) ELSE @]
      BY <3>1
    <3> HIDE DEF moved
    <3> QED
      BY <3>2
  <2>2. CASE Fails(k, b)
    <3> DEFINE moved == b \in Tracked /\ meta'[k].errors > MaxRetries
    <3>1. moved \in BOOLEAN /\ row' = [row EXCEPT ![k] = IF moved THEN MoveToReview(@) ELSE @]
      BY <2>2 DEF Fails
    <3> HIDE DEF moved
    <3> QED
      BY <3>1
  <2> QED
    BY <2>1, <2>2
<1>2. row[k] \in Row /\ row \in [Jobs -> Row]
  BY JobsTypes
<1> QED
  BY <1>1, <1>2, MoveToReviewKeeps

(* TerminalIsKept: only a step of the operator takes a job out of review or
   done; every step of an operator is counted (Operates). *)
THEOREM TerminalColumnsStay == JobsSpec => TerminalIsKept
<1> DEFINE A == ops' = ops => \A j \in Jobs : row[j].board \in Terminal =>
                                                row'[j].board = row[j].board
<1>1. JobsInv /\ [JobsNext]_jobsVars => [A]_jobsVars
  <2> SUFFICES ASSUME JobsInv, JobsNext, ops' = ops,
                      NEW j \in Jobs, row[j].board \in Terminal
               PROVE  row'[j].board = row[j].board
    OBVIOUS
  <2>1. ops \in Nat /\ row \in [Jobs -> Row] /\ meta \in [Jobs -> Meta]
    BY JobsTypes, JobsAssumption DEF JobsInv, JobsTypeOK
  <2>2. \A k \in Jobs : ~Operates(k)
    BY <2>1 DEF Operates
  <2>3. CASE Tick \/ TickForTask
    BY <2>3, StartJobsKeepsTerminal DEF Tick, TickForTask
  <2>4. CASE Restart
    BY <2>1, <2>4, RearmKeeps DEF Restart, Terminal
  <2>5. CASE StopScheduler
    BY <2>5 DEF StopScheduler
  <2>6. ASSUME NEW k \in Jobs, NEW b \in Branches, Succeeds(k, b) \/ Fails(k, b)
        PROVE  row'[j].board = row[j].board
    BY <2>6, RunEndKeepsTerminal
  <2>7. ASSUME NEW k \in Jobs, TimePasses(k)
        PROVE  row'[j].board = row[j].board
    BY <2>7 DEF TimePasses
  <2>8. ASSUME NEW k \in Jobs PROVE ~Pause(k) /\ ~Resume(k) /\ ~Remove(k)
    BY <2>2 DEF Pause, Resume, Remove
  <2>9. ASSUME NEW k \in Jobs, NEW column \in Columns PROVE ~Move(k, column)
    BY <2>2 DEF Move
  <2>10. ASSUME NEW k \in Jobs, NEW kind \in Kinds, NEW column \in Columns,
                NEW enabled \in BOOLEAN
         PROVE ~Upsert(k, kind, column, enabled)
    BY <2>2 DEF Upsert
  <2> QED
    BY <2>3, <2>4, <2>5, <2>6, <2>7, <2>8, <2>9, <2>10 DEF JobsNext
<1> QED
  BY JobsInvariant, <1>1, PTL DEF JobsSpec, TerminalIsKept

(* PausedIsQuiet: no branch of the tick starts a job that the operator has
   paused, although the last failure of a run-once job clears its flag. *)
THEOREM PausedJobsStayQuiet == JobsSpec => PausedIsQuiet
<1> DEFINE A == \A j \in paused, b \in Branches : runs'[j][b] <= runs[j][b]
<1>1. JobsInv /\ [JobsNext]_jobsVars => [A]_jobsVars
  <2> SUFFICES ASSUME JobsInv, JobsNext, NEW j \in paused, NEW b \in Branches
               PROVE  runs'[j][b] <= runs[j][b]
    OBVIOUS
  <2>1. /\ j \in Jobs /\ Held(row[j], meta[j]) /\ runs \in [Jobs -> RunCounts]
        /\ runs[j] \in RunCounts
    BY JobsTypes DEF JobsInv, JobsTypeOK, PausedHolds
  <2>2. runs[j][b] \in Nat
    BY <2>1, JobsAssumption DEF RunCounts
  <2>3. CASE StartJobs
    <3>1. ~Fires(j)
      BY <2>1, FiresIsNotHeld
    <3>2. runs'[j] = runs[j]
      BY <2>1, <2>3, <3>1 DEF StartJobs
    <3> QED
      BY <2>2, <3>2
  <2>4. CASE Restart
    <3>1. runs'[j][b] = 0
      BY <2>1, <2>4 DEF Restart, NoRuns
    <3> QED
      BY <2>2, <3>1
  <2>5. ASSUME NEW k \in Jobs, NEW c \in Branches, RunEnds(k, c)
        PROVE  runs'[j][b] <= runs[j][b]
    <3>1. runs[k] \in RunCounts /\ runs' = [runs EXCEPT ![k][c] = @ - 1]
      BY <2>1, <2>5 DEF RunEnds
    <3>2. runs'[j][b] = runs[j][b] \/ runs'[j][b] = runs[j][b] - 1
      BY <2>1, <3>1 DEF RunCounts
    <3> QED
      BY <2>2, <3>2
  <2>6. CASE UNCHANGED runs
    BY <2>2, <2>6
  <2>7. ASSUME NEW k \in Jobs, NEW c \in Branches, Succeeds(k, c) \/ Fails(k, c)
        PROVE  RunEnds(k, c)
    BY <2>7 DEF Succeeds, Fails
  <2>8. ASSUME NEW k \in Jobs,
               \/ Operates(k) \/ TimePasses(k) \/ Pause(k) \/ Resume(k) \/ Remove(k)
        PROVE  UNCHANGED runs
    BY <2>8 DEF Operates, TimePasses, Pause, Resume, Remove
  <2>9. ASSUME NEW k \in Jobs, NEW column \in Columns, Move(k, column)
        PROVE  UNCHANGED runs
    BY <2>8, <2>9 DEF Move
  <2>10. ASSUME NEW k \in Jobs, NEW kind \in Kinds, NEW column \in Columns,
                NEW enabled \in BOOLEAN, Upsert(k, kind, column, enabled)
         PROVE  UNCHANGED runs
    BY <2>8, <2>10 DEF Upsert
  <2>11. StopScheduler => UNCHANGED runs
    BY DEF StopScheduler
  <2>12. \/ StartJobs \/ Restart \/ UNCHANGED runs
         \/ \E k \in Jobs, c \in Branches : RunEnds(k, c)
    BY <2>7, <2>8, <2>9, <2>10, <2>11 DEF JobsNext, Tick, TickForTask
  <2> QED
    BY <2>3, <2>4, <2>5, <2>6, <2>12
<1> QED
  BY JobsInvariant, <1>1, PTL DEF JobsSpec, PausedIsQuiet

-----------------------------------------------------------------------------
(* The safety half of RunOnceSettles. *)
UnsettledIsArmed == \A j \in Jobs : Unsettled(j) => timer

(* An unsettled job has a next fire time. *)
LEMMA UnsettledHasNextFire ==
  ASSUME JobsInv, NEW j \in Jobs
  PROVE  Unsettled(j) => runner /\ row[j].kind \in RunOnce /\ NextFire(row[j], meta[j])
<1>1. row[j].kind \in Kinds
  BY JobsTypes DEF Row
<1> QED
  BY <1>1 DEF Unsettled, NextFire, RunOnce, Kinds

(* The end of a run, which does not arm, only takes next fire times away. *)
LEMMA RunEndAddsNoFire ==
  ASSUME JobsInv, NEW k \in Jobs, NEW b \in Branches, Succeeds(k, b) \/ Fails(k, b),
         NEW j \in Jobs, Unsettled(j)'
  PROVE  Unsettled(j)
<1>0. /\ row \in [Jobs -> Row] /\ meta \in [Jobs -> Meta]
      /\ row[k] \in Row /\ meta[k] \in Meta /\ runner' = runner
  BY JobsTypes DEF Succeeds, Fails, RunEnds
<1>1. PICK moved \in BOOLEAN, m \in Meta :
        /\ row' = [row EXCEPT ![k] = IF moved THEN MoveToReview(@) ELSE @]
        /\ meta' = [meta EXCEPT ![k] = m]
        /\ meta[k].disabled => m.disabled \/ m.completed
        /\ meta[k].completed => m.completed
  <2>1. CASE Succeeds(k, b)
    <3> DEFINE backlog == b \in {"backlog_once", "backlog"}
               moves == backlog /\ row[k].exists /\ row[k].board = "in_progress"
               once == IF moves THEN row[k].kind \in RunOnce ELSE b \in Tracked \cup {"at"}
               moved == moves \/ (~backlog /\ b \in Tracked)
               m == Succeeded(meta[k], once)
    <3>1. row' = [row EXCEPT ![k] = IF moves \/ (~backlog /\ b \in Tracked)
                                    THEN MoveToReview(@) ELSE @]
      BY <2>1, Zenon DEF Succeeds
    <3>2. row' = [row EXCEPT ![k] = IF moved THEN MoveToReview(@) ELSE @]
      BY <3>1
    <3>3. meta' = [meta EXCEPT ![k] = m]
      BY <2>1 DEF Succeeds
    <3>4. moved \in BOOLEAN /\ 0 \in 0..MaxErrors
      BY DefaultMetaType
    <3> HIDE DEF moved, once
    <3>5. m \in Meta /\ m.disabled = meta[k].disabled /\ (meta[k].completed => m.completed)
      BY <1>0, <3>4 DEF Meta, Succeeded
    <3> HIDE DEF m
    <3> QED
      BY <3>2, <3>3, <3>4, <3>5
  <2>2. CASE Fails(k, b)
    <3> DEFINE m == IF b \in Tracked THEN RunOnceFailure(meta[k]) ELSE JobFailure(meta[k])
               moved == b \in Tracked /\ meta'[k].errors > MaxRetries
    <3>1. moved \in BOOLEAN /\ row' = [row EXCEPT ![k] = IF moved THEN MoveToReview(@) ELSE @]
      BY <2>2 DEF Fails
    <3>2. meta' = [meta EXCEPT ![k] = m]
      BY <2>2 DEF Fails
    <3>3. /\ m \in Meta /\ (meta[k].completed => m.completed)
          /\ meta[k].disabled => m.disabled \/ m.completed
      BY <1>0, FailureTypes DEF Meta
    <3> HIDE DEF m, moved
    <3> QED
      BY <3>1, <3>2, <3>3
  <2> QED
    BY <2>1, <2>2
<1>2. CASE j # k
  <2>1. row'[j] = row[j] /\ meta'[j] = meta[j]
    BY <1>0, <1>1, <1>2
  <2> QED
    BY <1>0, <2>1 DEF Unsettled
<1>3. CASE j = k
  <2>1. /\ row'[k] = IF moved THEN MoveToReview(row[k]) ELSE row[k]
        /\ meta'[k] = m
    BY <1>0, <1>1
  <2>2. /\ row'[k].exists = row[k].exists /\ row'[k].enabled = row[k].enabled
        /\ row'[k].kind = row[k].kind
        /\ row[k].board \in Terminal => row'[k].board \in Terminal
    BY <1>0, <2>1, MoveToReviewKeeps
  <2>3. ~m.disabled /\ ~m.completed
    BY <1>3, <2>1 DEF Unsettled
  <2>4. ~meta[k].disabled /\ ~meta[k].completed
    BY <1>0, <1>1, <2>3 DEF Meta
  <2> QED
    BY <1>0, <1>3, <2>2, <2>4 DEF Unsettled
<1> QED
  BY <1>2, <1>3

(* A step that arms finds every unsettled job. *)
LEMMA ArmFindsUnsettled ==
  ASSUME JobsInv, JobsInv', NEW rows, NEW metas, Arm(rows, metas)
  PROVE  UnsettledIsArmed'
<1> SUFFICES ASSUME NEW j \in Jobs, Unsettled(j)' PROVE timer'
  BY DEF UnsettledIsArmed
<1>1. row'[j].kind \in Kinds
  BY DEF JobsInv, JobsTypeOK
<1>2. NextFire(row'[j], meta'[j])
  BY <1>1 DEF Unsettled, NextFire, RunOnce, Kinds
<1> QED
  BY <1>2 DEF Arm

(* Every step leaves a set timer for a job that is to run once. *)
LEMMA ArmedStep ==
  ASSUME JobsInv, UnsettledIsArmed, [JobsNext]_jobsVars
  PROVE  UnsettledIsArmed'
<1>0. JobsInv'
  BY JobsStepInv
<1>1. CASE StartJobs \/ Restart
  BY <1>0, <1>1, ArmFindsUnsettled DEF StartJobs, Restart
<1>2. ASSUME NEW rows, NEW metas, Rearm(rows, metas), runner' = runner
      PROVE  UnsettledIsArmed'
  <2>1. CASE runner
    BY <1>0, <1>2, <2>1, ArmFindsUnsettled DEF Rearm
  <2>2. CASE ~runner
    BY <1>2, <2>2 DEF UnsettledIsArmed, Unsettled
  <2> QED
    BY <2>1, <2>2
<1>3. CASE StopScheduler
  BY <1>3 DEF StopScheduler, UnsettledIsArmed, Unsettled
<1>4. ASSUME UNCHANGED <<row, meta, timer, runner>>
      PROVE  UnsettledIsArmed'
  BY <1>4 DEF UnsettledIsArmed, Unsettled
<1>5. ASSUME NEW k \in Jobs, TimePasses(k)
      PROVE  UnsettledIsArmed'
  BY <1>4, <1>5 DEF TimePasses
<1>6. ASSUME NEW k \in Jobs, NEW b \in Branches, Succeeds(k, b) \/ Fails(k, b)
      PROVE  UnsettledIsArmed'
  <2>1. timer' = timer
    BY <1>6 DEF Succeeds, Fails, RunEnds
  <2>2. \A j \in Jobs : Unsettled(j)' => Unsettled(j)
    BY <1>6, RunEndAddsNoFire
  <2> QED
    BY <2>1, <2>2 DEF UnsettledIsArmed
<1>7. ASSUME NEW k \in Jobs, Pause(k) \/ Resume(k) \/ Remove(k)
      PROVE  UnsettledIsArmed'
  <2>1. runner' = runner /\ \E rows, metas : Rearm(rows, metas)
    BY <1>7 DEF Pause, Resume, Remove, Operates
  <2> QED
    BY <1>2, <2>1
<1>8. ASSUME NEW k \in Jobs, NEW column \in Columns, Move(k, column)
      PROVE  UnsettledIsArmed'
  <2>1. runner' = runner /\ \E rows, metas : Rearm(rows, metas)
    BY <1>8 DEF Move, Operates
  <2> QED
    BY <1>2, <2>1
<1>9. ASSUME NEW k \in Jobs, NEW kind \in Kinds, NEW column \in Columns,
             NEW enabled \in BOOLEAN, Upsert(k, kind, column, enabled)
      PROVE  UnsettledIsArmed'
  <2>1. runner' = runner /\ \E rows, metas : Rearm(rows, metas)
    BY <1>9 DEF Upsert, Operates
  <2> QED
    BY <1>2, <2>1
<1>10. CASE UNCHANGED jobsVars
  BY <1>4, <1>10 DEF jobsVars
<1> QED
  BY <1>1, <1>3, <1>5, <1>6, <1>7, <1>8, <1>9, <1>10 DEF JobsNext, Tick, TickForTask

(* A job that runs once and has not come to its end has a set timer as long as
   the scheduler is not stopped: a run that ends without arming, or a restart that
   loses the run, leaves no job that is never looked at again (arm,
   rearmScheduler). *)
THEOREM UnsettledJobsAreArmed == JobsSpec => []UnsettledIsArmed
<1>1. JobsInit => UnsettledIsArmed
  <2> SUFFICES ASSUME JobsInit, NEW j \in Jobs, Unsettled(j) PROVE timer
    BY DEF UnsettledIsArmed
  <2>1. NextFire(row[j], meta[j])
    BY JobsInitInv, UnsettledHasNextFire
  <2> QED
    BY <2>1 DEF JobsInit
<1>2. JobsInv /\ UnsettledIsArmed /\ [JobsNext]_jobsVars => UnsettledIsArmed'
  BY ArmedStep
<1> QED
  BY <1>1, <1>2, JobsInvariant, PTL DEF JobsSpec
=============================================================================
