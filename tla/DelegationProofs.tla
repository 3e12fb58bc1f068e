-------------------------- MODULE DelegationProofs --------------------------
(***************************************************************************)
(* Safety of background delegation for every number of jobs, every limit   *)
(* and retention and every number of faults.                               *)
(*                                                                         *)
(* The row of a job, its place in memory and its results in the parent's   *)
(* conversation are written at different moments.  The invariant says, job *)
(* by job, how they fit each other; it also needs the queue to hold a job  *)
(* once, so that what the pump leaves there it has not started.            *)
(***************************************************************************)
EXTENDS Delegation, FiniteSetTheorems, TLAPS

Places == Active \cup {"none", "queued", "over"}
RowStatuses == Terminal \cup {"none", "queued", "in_progress"}

(* A job at place w, with t results told, and its row: r, pruned when gone. *)
JobFits(w, r, t, gone) ==
  /\ t \in {0, 1}
  /\ r = "none" => w = "none" /\ t = 0
  /\ r = "queued" => w # "none" /\ t = 0
  /\ r = "completed" => t = 1
  /\ gone => r \in Terminal
  /\ r = "cancelled" /\ ~gone => w \notin Working /\ t = 0
  /\ w = "none" => r \in {"none", "failed"}
  /\ w = "queued" => r \in {"queued", "cancelled"} /\ t = 0
  /\ w \in Working => /\ r = IF gone THEN "cancelled" ELSE "in_progress"
                      /\ t = IF w = "publish" THEN 1 ELSE 0

JobsFit == \A j \in Jobs : JobFits(at[j], row[j], told[j], j \in deleted)

Once(q) == \A k, l \in 1..Len(q) : q[k] = q[l] => k = l

DelegationInv == DelegationTypeOK /\ JobsFit /\ Once(queue)

-----------------------------------------------------------------------------
(* Nothing is delegated at the start. *)
LEMMA DelegationInitInv == DelegationInit => DelegationInv
<1> SUFFICES ASSUME DelegationInit PROVE DelegationInv
  OBVIOUS
<1>1. DelegationTypeOK
  <2>1. 0 \in 0..MaxDelegationFaults
    BY DelegationAssumption
  <2>2. queue = <<>> /\ queue \in Seq({j \in Jobs : at[j] = "queued"})
    BY DEF DelegationInit
  <2>3. at \in [Jobs -> Places] /\ row \in [Jobs -> RowStatuses]
    BY DEF DelegationInit, Places, RowStatuses
  <2> QED
    BY <2>1, <2>2, <2>3 DEF DelegationInit, DelegationTypeOK, Places, RowStatuses
<1>2. JobsFit
  BY DEF DelegationInit, JobsFit, JobFits, Working
<1>3. Once(queue)
  BY DEF DelegationInit, Once
<1> QED
  BY <1>1, <1>2, <1>3 DEF DelegationInv

(* The state as the lemmas use it. *)
LEMMA DelegationTypes ==
  ASSUME DelegationInv
  PROVE  /\ at \in [Jobs -> Places] /\ row \in [Jobs -> RowStatuses]
         /\ told \in [Jobs -> Nat] /\ deleted \subseteq Jobs
         /\ queue \in Seq(Jobs) /\ Len(queue) \in Nat
         /\ \A k \in 1..Len(queue) : queue[k] \in Jobs /\ at[queue[k]] = "queued"
<1>1. queue \in Seq({j \in Jobs : at[j] = "queued"})
  BY DEF DelegationInv, DelegationTypeOK
<1> QED
  BY <1>1 DEF DelegationInv, DelegationTypeOK, Places, RowStatuses

(* The pump takes no more than what waits. *)
LEMMA StartingBounds ==
  ASSUME DelegationInv, NEW w \in Nat, NEW a
  PROVE  Starting(w, Cardinality({j \in Jobs : a[j] \in Active})) \in 0..w
<1> DEFINE active == {j \in Jobs : a[j] \in Active}
<1>1. Cardinality(active) \in Nat
  BY DelegationAssumption, FS_Subset, FS_CardinalityType
<1>2. limit \in Nat
  BY DelegationAssumption DEF DelegationInv, DelegationTypeOK
<1> HIDE DEF active
<1>3. Starting(w, Cardinality(active)) \in 0..w
  BY <1>1, <1>2 DEF Starting
<1> QED
  BY <1>3 DEF active

(* pump: what the caller left fits, and so does what the pump leaves. *)
LEMMA PumpKeeps ==
  ASSUME DelegationInv, NEW q \in Seq(Jobs), Once(q),
         NEW a \in [Jobs -> Places], NEW r \in [Jobs -> RowStatuses],
         \A k \in 1..Len(q) : a[q[k]] = "queued",
         told' = told, UNCHANGED config, deleted' \subseteq Jobs,
         \A j \in Jobs : JobFits(a[j], r[j], told[j], j \in deleted'),
         Pump(q, a, r)
  PROVE  DelegationInv'
<1> DEFINE n == Starting(Len(q), Cardinality({j \in Jobs : a[j] \in Active}))
           started == {q[k] : k \in 1..n}
           skipped == {j \in started : r[j] = "cancelled" /\ j \notin deleted'}
<1>1. n \in 0..Len(q) /\ Len(q) \in Nat
  BY StartingBounds
<1>2. PICK broken \in SUBSET started :
        /\ queue' = SubSeq(q, n + 1, Len(q))
        /\ at' = [j \in Jobs |-> CASE j \notin started -> a[j]
                                   [] j \in broken \cup skipped -> "returned"
                                   [] OTHER -> "announce"]
        /\ row' = [j \in Jobs |-> IF j \in started \ broken /\ r[j] = "queued"
                                  THEN "in_progress" ELSE r[j]]
        /\ delegationFaults' = delegationFaults + Cardinality(broken)
        /\ delegationFaults' <= MaxDelegationFaults
  BY DEF Pump
<1> HIDE DEF n
<1>3. \A j \in started : j \in Jobs /\ a[j] = "queued"
  BY <1>1
<1> HIDE DEF started
<1>4. /\ \A j \in Jobs \ started : at'[j] = a[j] /\ row'[j] = r[j]
      /\ \A j \in started :
           \/ at'[j] = "returned" /\ row'[j] = r[j]
           \/ at'[j] = "returned" /\ r[j] = "queued" /\ row'[j] = "in_progress"
           \/ /\ at'[j] = "announce" /\ (r[j] = "cancelled" => j \in deleted')
              /\ row'[j] = IF r[j] = "queued" THEN "in_progress" ELSE r[j]
  BY <1>2, <1>3
<1>5. at' \in [Jobs -> Places] /\ row' \in [Jobs -> RowStatuses]
  BY <1>2, <1>3 DEF Places, RowStatuses, Active, Working
<1>6. JobsFit'
  <2> SUFFICES ASSUME NEW j \in Jobs
               PROVE  JobFits(at'[j], row'[j], told[j], j \in deleted')
    BY DEF JobsFit
  <2>1. CASE j \notin started
    BY <1>4, <2>1
  <2>2. CASE j \in started
    <3>1. JobFits("queued", r[j], told[j], j \in deleted')
      BY <1>3, <2>2
    <3> QED
      BY <1>4, <2>2, <3>1 DEF JobFits, Working, Terminal
  <2> QED
    BY <2>1, <2>2
<1>7. queue' \in Seq({j \in Jobs : at'[j] = "queued"}) /\ Once(queue')
  <2>1. /\ Len(queue') = Len(q) - n
        /\ \A k \in 1..Len(queue') : queue'[k] = q[n + k]
    BY <1>1, <1>2
  <2>2. ASSUME NEW k \in 1..Len(queue') PROVE queue'[k] \in Jobs /\ at'[queue'[k]] = "queued"
    <3>1. n + k \in 1..Len(q) /\ queue'[k] = q[n + k] /\ q[n + k] \in Jobs
      BY <1>1, <2>1
    <3>2. q[n + k] \notin started
      BY <1>1, <3>1 DEF started, Once
    <3> QED
      BY <1>4, <3>1, <3>2
  <2>3. queue' \in Seq(Jobs)
    BY <1>1, <1>2
  <2>4. queue' \in Seq({j \in Jobs : at'[j] = "queued"})
    BY <2>2, <2>3
  <2>5. Once(queue')
    BY <1>1, <2>1 DEF Once
  <2> QED
    BY <2>4, <2>5
<1>8. delegationFaults' \in 0..MaxDelegationFaults
  <2>1. Cardinality(broken) \in Nat
    BY <1>3, DelegationAssumption, FS_Subset, FS_CardinalityType
  <2> QED
    BY <1>2, <2>1, DelegationAssumption DEF DelegationInv, DelegationTypeOK
<1>9. DelegationTypeOK'
  BY <1>5, <1>7, <1>8 DEF DelegationInv, DelegationTypeOK, Places, RowStatuses, config
<1> QED
  BY <1>6, <1>7, <1>9 DEF DelegationInv

(* A turn delegates; a pruned row is one that a client could have read as
   finished, and no job at work has such a row. *)
LEMMA DelegateKeeps ==
  ASSUME DelegationInv, NEW j \in Jobs, Delegate(j)
  PROVE  DelegationInv'
<1>1. row[j] = "none" /\ at[j] = "none" /\ told[j] = 0 /\ j \notin deleted
  BY DelegationTypes DEF Delegate, DelegationInv, JobsFit, JobFits, Terminal
<1>2. PICK gone \in SUBSET Finished : deleted' = deleted \cup gone
  BY DEF Delegate, Prunable
<1>3. gone \subseteq Jobs /\ \A k \in gone : row[k] \in Terminal /\ k \notin deleted
  BY <1>2 DEF Finished
<1>4. /\ deleted' \subseteq Jobs /\ j \notin deleted'
      /\ \A k \in Jobs : JobFits(at[k], row[k], told[k], k \in deleted')
  <2>1. ASSUME NEW k \in Jobs PROVE JobFits(at[k], row[k], told[k], k \in deleted')
    <3>1. JobFits(at[k], row[k], told[k], k \in deleted)
      BY DEF DelegationInv, JobsFit
    <3>2. CASE k \in gone
      <4>1. at[k] \notin Working
        BY <1>3, <3>1, <3>2 DEF JobFits, Terminal
      <4> QED
        BY <1>2, <1>3, <3>1, <3>2, <4>1 DEF JobFits
    <3>3. CASE k \notin gone
      BY <1>2, <3>1, <3>3
    <3> QED
      BY <3>2, <3>3
  <2> QED
    BY <1>1, <1>2, <1>3, <2>1, DelegationTypes DEF Terminal
<1>5. UNCHANGED config /\ told' = told
  BY DEF Delegate
<1>6. CASE enabled
  <2> DEFINE q == Append(queue, j)
             a == [at EXCEPT ![j] = "queued"]
             r == [row EXCEPT ![j] = "queued"]
  <2>1. Pump(q, a, r)
    BY <1>6 DEF Delegate
  <2>2. /\ a \in [Jobs -> Places] /\ r \in [Jobs -> RowStatuses]
        /\ a[j] = "queued" /\ r[j] = "queued"
        /\ \A k \in Jobs \ {j} : a[k] = at[k] /\ r[k] = row[k]
    BY DelegationTypes DEF Places, RowStatuses
  <2>3. /\ q \in Seq(Jobs) /\ Len(q) = Len(queue) + 1 /\ q[Len(queue) + 1] = j
        /\ \A k \in 1..Len(queue) : q[k] = queue[k] /\ queue[k] \in Jobs \ {j}
    BY <1>1, DelegationTypes
  <2> HIDE DEF q, a, r
  <2>4. \A k \in 1..Len(q) : k = Len(queue) + 1 \/ k \in 1..Len(queue)
    BY <2>3, DelegationTypes
  <2>5. Once(q)
    BY <2>3, <2>4 DEF Once, DelegationInv
  <2>6. \A k \in 1..Len(q) : a[q[k]] = "queued"
    BY <2>2, <2>3, <2>4, DelegationTypes
  <2>7. ASSUME NEW k \in Jobs PROVE JobFits(a[k], r[k], told[k], k \in deleted')
    <3>1. CASE k = j
      BY <1>1, <1>4, <2>2, <3>1 DEF JobFits, Working, Terminal
    <3>2. CASE k # j
      BY <1>4, <2>2, <3>2
    <3> QED
      BY <3>1, <3>2
  <2> QED
    BY <1>4, <1>5, <2>1, <2>2, <2>3, <2>5, <2>6, <2>7, PumpKeeps
<1>7. CASE ~enabled
  <2>1. row' = [row EXCEPT ![j] = "failed"] /\ UNCHANGED <<queue, at, delegationFaults>>
    BY <1>7 DEF Delegate, memory
  <2>2. /\ row' \in [Jobs -> RowStatuses] /\ row'[j] = "failed"
        /\ \A k \in Jobs \ {j} : row'[k] = row[k]
    BY <2>1, DelegationTypes DEF RowStatuses, Terminal
  <2>3. DelegationTypeOK'
    BY <1>4, <1>5, <2>1, <2>2 DEF DelegationInv, DelegationTypeOK, RowStatuses, config
  <2>4. JobsFit'
    <3> SUFFICES ASSUME NEW k \in Jobs
                 PROVE  JobFits(at[k], row'[k], told[k], k \in deleted')
      BY <1>5, <2>1 DEF JobsFit
    <3>1. CASE k = j
      BY <1>1, <1>4, <2>2, <3>1 DEF JobFits, Working
    <3>2. CASE k # j
      BY <1>4, <2>2, <3>2
    <3> QED
      BY <3>1, <3>2
  <2> QED
    BY <2>1, <2>3, <2>4 DEF DelegationInv
<1> QED
  BY <1>6, <1>7

(* JobReturns: the job that frees its slot is over, and the pump goes on. *)
LEMMA JobReturnsKeeps ==
  ASSUME DelegationInv, NEW j \in Jobs, JobReturns(j)
  PROVE  DelegationInv'
<1> DEFINE a == [at EXCEPT ![j] = "over"]
<1>1. at[j] = "returned" /\ UNCHANGED <<config, deleted, told>> /\ Pump(queue, a, row)
  BY DEF JobReturns
<1>2. /\ a \in [Jobs -> Places] /\ a[j] = "over" /\ \A k \in Jobs \ {j} : a[k] = at[k]
  BY DelegationTypes DEF Places
<1> HIDE DEF a
<1>3. \A k \in 1..Len(queue) : a[queue[k]] = "queued"
  BY <1>1, <1>2, DelegationTypes
<1>4. ASSUME NEW k \in Jobs PROVE JobFits(a[k], row[k], told[k], k \in deleted')
  <2>1. JobFits(at[k], row[k], told[k], k \in deleted)
    BY DEF DelegationInv, JobsFit
  <2>2. CASE k = j
    BY <1>1, <1>2, <2>1, <2>2 DEF JobFits, Working
  <2>3. CASE k # j
    BY <1>1, <1>2, <2>1, <2>3
  <2> QED
    BY <2>2, <2>3
<1>5. Once(queue) /\ deleted' \subseteq Jobs
  BY <1>1, DelegationTypes DEF DelegationInv
<1> QED
  BY <1>1, <1>2, <1>3, <1>4, <1>5, DelegationTypes, PumpKeeps

(* Every other step of a job writes that job only, which waits on if it waited. *)
LEMMA OneJobKeeps ==
  ASSUME DelegationInv, NEW j \in Jobs, NEW w \in Places, NEW r \in RowStatuses, NEW t \in Nat,
         at' = [at EXCEPT ![j] = w], row' = [row EXCEPT ![j] = r],
         told' = [told EXCEPT ![j] = t], JobFits(w, r, t, j \in deleted),
         at[j] = "queued" => w = "queued",
         UNCHANGED <<config, queue, deleted>>, delegationFaults' \in 0..MaxDelegationFaults
  PROVE  DelegationInv'
<1>1. /\ at' \in [Jobs -> Places] /\ row' \in [Jobs -> RowStatuses] /\ told' \in [Jobs -> Nat]
      /\ at'[j] = w /\ row'[j] = r /\ told'[j] = t
      /\ \A k \in Jobs \ {j} : at'[k] = at[k] /\ row'[k] = row[k] /\ told'[k] = told[k]
  BY DelegationTypes
<1>2. queue' \in Seq({k \in Jobs : at'[k] = "queued"})
  <2>1. \A k \in 1..Len(queue) : queue[k] \in Jobs /\ at'[queue[k]] = "queued"
    BY <1>1, DelegationTypes
  <2> QED
    BY <2>1, DelegationTypes
<1>3. DelegationTypeOK'
  BY <1>1, <1>2 DEF DelegationInv, DelegationTypeOK, Places, RowStatuses, config
<1>4. JobsFit'
  BY <1>1 DEF DelegationInv, JobsFit
<1> QED
  BY <1>3, <1>4 DEF DelegationInv

(* The awaits of a run. *)
LEMMA ProceedKeeps ==
  ASSUME DelegationInv, NEW j \in Jobs, Proceed(j)
  PROVE  DelegationInv'
<1>1. JobFits(at[j], row[j], told[j], j \in deleted)
  BY DEF DelegationInv, JobsFit
<1>2. at[j] \in Places /\ row[j] \in RowStatuses /\ told[j] \in Nat
  BY DelegationTypes
<1>3. delegationFaults' \in 0..MaxDelegationFaults /\ UNCHANGED <<config, queue, deleted>>
  BY DEF Proceed, Announced, TasksEnd, Synthesized, Published, Advance, database,
         DelegationInv, DelegationTypeOK
<1>4. CASE Announced(j) \/ TasksEnd(j)
  <2>1. PICK w \in {"tasks", "synthesis"} :
          /\ at[j] \in {"announce", "tasks"} /\ at' = [at EXCEPT ![j] = w]
          /\ UNCHANGED <<row, told>>
    BY <1>4 DEF Announced, TasksEnd, Advance, database
  <2>2. row' = [row EXCEPT ![j] = row[j]] /\ told' = [told EXCEPT ![j] = told[j]]
    BY <2>1, DelegationTypes
  <2>3. JobFits(w, row[j], told[j], j \in deleted) /\ w \in Places
    BY <1>1, <2>1 DEF JobFits, Working, Places, Active
  <2> QED
    BY <1>2, <1>3, <2>1, <2>2, <2>3, OneJobKeeps, Zenon
<1>5. CASE Synthesized(j)
  <2>1. /\ at[j] = "synthesis" /\ at' = [at EXCEPT ![j] = "publish"]
        /\ told' = [told EXCEPT ![j] = told[j] + 1] /\ row' = row
    BY <1>5 DEF Synthesized, Advance
  <2>2. row' = [row EXCEPT ![j] = row[j]] /\ told[j] = 0
    BY <1>1, <2>1, DelegationTypes DEF JobFits, Working
  <2>3. JobFits("publish", row[j], told[j] + 1, j \in deleted) /\ "publish" \in Places
    BY <1>1, <2>1, <2>2 DEF JobFits, Working, Places, Active
  <2>4. told[j] + 1 \in Nat
    BY <1>2
  <2> QED
    BY <1>2, <1>3, <2>1, <2>2, <2>3, <2>4, OneJobKeeps
<1>6. CASE Published(j)
  <2> DEFINE r == IF row[j] \in {"queued", "in_progress"} THEN "completed" ELSE row[j]
  <2>1. /\ at[j] = "publish" /\ at' = [at EXCEPT ![j] = "returned"]
        /\ row' = [row EXCEPT ![j] = r] /\ told' = told
    BY <1>6 DEF Published, Advance, Settled
  <2>2. told' = [told EXCEPT ![j] = told[j]] /\ r \in RowStatuses
    BY <1>2, <2>1, DelegationTypes DEF RowStatuses, Terminal
  <2>3. JobFits("returned", r, told[j], j \in deleted) /\ "returned" \in Places
    BY <1>1, <2>1 DEF JobFits, Working, Places, Active, Terminal
  <2> HIDE DEF r
  <2> QED
    BY <1>2, <1>3, <2>1, <2>2, <2>3, OneJobKeeps
<1> QED
  BY <1>4, <1>5, <1>6 DEF Proceed

(* A database error ends the run, before or after the result was stored. *)
LEMMA DelegationRunFailsKeeps ==
  ASSUME DelegationInv, NEW j \in Jobs, RunFails(j)
  PROVE  DelegationInv'
<1>1. JobFits(at[j], row[j], told[j], j \in deleted)
  BY DEF DelegationInv, JobsFit
<1>2. at[j] \in Places /\ row[j] \in RowStatuses /\ told[j] \in Nat
  BY DelegationTypes
<1>3. delegationFaults' \in 0..MaxDelegationFaults /\ UNCHANGED <<config, queue, deleted>>
  BY DelegationAssumption DEF RunFails, Fault, DelegationInv, DelegationTypeOK
<1>4. at[j] \in Working /\ at' = [at EXCEPT ![j] = "returned"]
  BY DEF RunFails, Advance
<1>5. PICK r \in RowStatuses :
        /\ row' = [row EXCEPT ![j] = r]
        /\ r = row[j] \/ (row[j] \in {"queued", "in_progress"} /\ r = "failed")
  <2>1. CASE row' = row
    <3>1. row' = [row EXCEPT ![j] = row[j]]
      BY <2>1, DelegationTypes
    <3> QED
      BY <1>2, <3>1
  <2>2. CASE row' = Settled(row, j, "failed")
    <3> DEFINE r == IF row[j] \in {"queued", "in_progress"} THEN "failed" ELSE row[j]
    <3>1. row' = [row EXCEPT ![j] = r] /\ r \in RowStatuses
      BY <1>2, <2>2 DEF Settled, RowStatuses, Terminal
    <3> QED
      BY <3>1
  <2> QED
    BY <2>1, <2>2 DEF RunFails
<1>6. PICK t \in {0, 1} :
        /\ told' = [told EXCEPT ![j] = t]
        /\ t = told[j] \/ at[j] = "synthesis"
  <2>1. CASE told' = told
    <3>1. told' = [told EXCEPT ![j] = told[j]] /\ told[j] \in {0, 1}
      BY <1>1, <2>1, DelegationTypes DEF JobFits
    <3> QED
      BY <3>1
  <2>2. CASE at[j] = "synthesis" /\ told' = [told EXCEPT ![j] = @ + 1]
    <3>1. told[j] = 0
      BY <1>1, <2>2 DEF JobFits, Working
    <3>2. told' = [told EXCEPT ![j] = 1]
      BY <2>2, <3>1
    <3> QED
      BY <2>2, <3>2
  <2> QED
    BY <2>1, <2>2 DEF RunFails
<1>7. JobFits("returned", r, t, j \in deleted) /\ "returned" \in Places
  BY <1>1, <1>4, <1>5, <1>6 DEF JobFits, Working, Places, Active, Terminal
<1>8. t \in Nat /\ at[j] # "queued"
  BY <1>4 DEF Working
<1> QED
  BY <1>3, <1>4, <1>5, <1>6, <1>7, <1>8, OneJobKeeps

(* cancelDelegationJob: the row of a queued job, whose run has not begun or is
   over by a database error. *)
LEMMA CancelKeeps ==
  ASSUME DelegationInv, NEW j \in Jobs, Cancel(j)
  PROVE  DelegationInv'
<1>1. /\ row[j] = "queued" /\ j \notin deleted /\ row' = [row EXCEPT ![j] = "cancelled"]
      /\ UNCHANGED <<config, queue, at, deleted, told, delegationFaults>>
  BY DEF Cancel, memory
<1>2. JobFits(at[j], row[j], told[j], j \in deleted)
  BY DEF DelegationInv, JobsFit
<1>3. JobFits(at[j], "cancelled", told[j], j \in deleted) /\ "cancelled" \in RowStatuses
  BY <1>1, <1>2 DEF JobFits, Working, RowStatuses, Terminal
<1>4. at' = [at EXCEPT ![j] = at[j]] /\ told' = [told EXCEPT ![j] = told[j]]
  BY <1>1, DelegationTypes
<1>5. delegationFaults' \in 0..MaxDelegationFaults
  BY <1>1 DEF DelegationInv, DelegationTypeOK
<1>6. at[j] \in Places /\ told[j] \in Nat
  BY DelegationTypes
<1> DEFINE w == at[j]
           t == told[j]
<1>7. /\ w \in Places /\ t \in Nat /\ (at[j] = "queued" => w = "queued")
      /\ at' = [at EXCEPT ![j] = w] /\ told' = [told EXCEPT ![j] = t]
      /\ JobFits(w, "cancelled", t, j \in deleted)
      /\ UNCHANGED <<config, queue, deleted>>
  BY <1>1, <1>3, <1>4, <1>6
<1> HIDE DEF w, t
<1> QED
  BY <1>1, <1>3, <1>5, <1>7, OneJobKeeps

(* applyRuntimeConfig *)
LEMMA ConfigureKeeps ==
  ASSUME DelegationInv, Configure
  PROVE  DelegationInv'
<1>1. /\ UNCHANGED <<queue, at, row, deleted, told, delegationFaults>>
      /\ enabled' \in BOOLEAN /\ switchedOff' \in BOOLEAN /\ limit' \in Limits
  BY DEF Configure, memory, database
<1> QED
  BY <1>1 DEF DelegationInv, DelegationTypeOK, JobsFit

(* A restart forgets the queue and the runs and fails the rows they leave. *)
LEMMA DelegationRestartKeeps ==
  ASSUME DelegationInv, Restart
  PROVE  DelegationInv'
<1>1. /\ queue' = <<>> /\ UNCHANGED <<config, deleted, told>>
      /\ at' = [j \in Jobs |-> IF at[j] = "none" THEN "none" ELSE "over"]
      /\ row' = FailStale /\ delegationFaults' \in 0..MaxDelegationFaults
  BY DelegationAssumption DEF Restart, Fault, DelegationInv, DelegationTypeOK
<1>2. \A j \in Jobs : row'[j] = IF row[j] \in {"queued", "in_progress"} THEN "failed"
                                ELSE row[j]
  BY <1>1, DelegationTypes DEF FailStale, Settled
<1>3. at' \in [Jobs -> Places] /\ row' \in [Jobs -> RowStatuses]
  <2>1. row' = [j \in Jobs |-> row'[j]]
    BY <1>1 DEF FailStale
  <2> QED
    BY <1>1, <1>2, <2>1, DelegationTypes DEF Places, RowStatuses, Terminal
<1>4. DelegationTypeOK' /\ Once(queue')
  BY <1>1, <1>3 DEF DelegationInv, DelegationTypeOK, Places, RowStatuses, config, Once
<1>5. JobsFit'
  <2> SUFFICES ASSUME NEW j \in Jobs
               PROVE  JobFits(at'[j], row'[j], told[j], j \in deleted)
    BY <1>1 DEF JobsFit
  <2>1. JobFits(at[j], row[j], told[j], j \in deleted)
    BY DEF DelegationInv, JobsFit
  <2>2. at'[j] = IF at[j] = "none" THEN "none" ELSE "over"
    BY <1>1
  <2> QED
    BY <1>2, <2>1, <2>2 DEF JobFits, Working, Terminal
<1> QED
  BY <1>4, <1>5 DEF DelegationInv

(* Every step of the delegation keeps the invariant. *)
LEMMA DelegationStepInv ==
  ASSUME DelegationInv, [DelegationNext]_delegationVars
  PROVE  DelegationInv'
<1>1. CASE UNCHANGED delegationVars
  BY <1>1 DEF delegationVars, config, memory, database, DelegationInv, DelegationTypeOK, JobsFit
<1>2. ASSUME NEW j \in Jobs,
             \/ Delegate(j) \/ Cancel(j) \/ Proceed(j) \/ RunFails(j) \/ JobReturns(j)
      PROVE  DelegationInv'
  BY <1>2, DelegateKeeps, CancelKeeps, ProceedKeeps, DelegationRunFailsKeeps, JobReturnsKeeps
<1> QED
  BY <1>1, <1>2, ConfigureKeeps, DelegationRestartKeeps DEF DelegationNext

-----------------------------------------------------------------------------
(* The inductive invariant holds in every state of the delegation. *)
THEOREM DelegationInvariant == DelegationSafety => []DelegationInv
<1>1. DelegationInv /\ [DelegationNext]_delegationVars => DelegationInv'
  BY DelegationStepInv
<1> QED
  BY DelegationInitInv, <1>1, PTL DEF DelegationSafety

(* Queue, places, rows and results keep their types: the queue holds nothing
   but jobs that wait. *)
THEOREM DelegationTypeCorrect == DelegationSafety => []DelegationTypeOK
<1>1. DelegationInv => DelegationTypeOK
  BY DEF DelegationInv
<1> QED
  BY <1>1, DelegationInvariant, PTL

(* completeDelegationJob comes after the result was stored, and no failure or
   restart stores a result again. *)
THEOREM CompletedJobsAreTold == DelegationSafety => []CompletedIsTold
<1>1. DelegationInv => CompletedIsTold
  BY DEF DelegationInv, JobsFit, JobFits, CompletedIsTold
<1> QED
  BY <1>1, DelegationInvariant, PTL

(* run looks at the row before anything else: a job cancelled while it waited
   does nothing, for every length of the queue. *)
THEOREM CancelledJobsAreSilent == DelegationSafety => []CancelledIsSilent
<1>1. DelegationInv => CancelledIsSilent
  BY DEF DelegationInv, JobsFit, JobFits, CancelledIsSilent
<1> QED
  BY <1>1, DelegationInvariant, PTL

(* A client that polls finds every job at work, unless its cancelled row was
   pruned while it waited. *)
THEOREM JobsAtWorkAreVisible == DelegationSafety => []WorkIsVisible
<1>1. DelegationInv => WorkIsVisible
  BY DEF DelegationInv, JobsFit, JobFits, WorkIsVisible
<1> QED
  BY <1>1, DelegationInvariant, PTL

(* No late end of a run, no error and no restart replaces a verdict: the updates
   of the table are guarded by the status. *)
THEOREM VerdictsStay == DelegationSafety => VerdictStays
<1> DEFINE Stays == \A j \in Jobs : row[j] \in Terminal => row'[j] = row[j]
<1>1. DelegationInv /\ [DelegationNext]_delegationVars => [Stays]_delegationVars
  <2> SUFFICES ASSUME DelegationInv, DelegationNext, NEW j \in Jobs, row[j] \in Terminal
               PROVE  row'[j] = row[j]
    OBVIOUS
  <2>1. row \in [Jobs -> RowStatuses] /\ row[j] \notin {"none", "queued", "in_progress"}
    BY DelegationTypes DEF Terminal
  <2>2. ASSUME NEW q, NEW a, NEW r, Pump(q, a, r), r[j] = row[j]
        PROVE  row'[j] = row[j]
    BY <2>1, <2>2 DEF Pump
  <2>3. ASSUME NEW k \in Jobs, Delegate(k) PROVE row'[j] = row[j]
    <3>1. k # j
      BY <2>1, <2>3 DEF Delegate
    <3>2. CASE enabled
      <4> DEFINE r == [row EXCEPT ![k] = "queued"]
      <4>1. Pump(Append(queue, k), [at EXCEPT ![k] = "queued"], r) /\ r[j] = row[j]
        BY <2>1, <2>3, <3>1, <3>2 DEF Delegate
      <4> HIDE DEF r
      <4> QED
        BY <2>2, <4>1
    <3>3. CASE ~enabled
      BY <2>1, <2>3, <3>1, <3>3 DEF Delegate
    <3> QED
      BY <3>2, <3>3
  <2>4. ASSUME NEW k \in Jobs, JobReturns(k) PROVE row'[j] = row[j]
    BY <2>2, <2>4 DEF JobReturns
  <2>5. ASSUME NEW k \in Jobs, Cancel(k) PROVE row'[j] = row[j]
    BY <2>1, <2>5 DEF Cancel
  <2>6. ASSUME NEW k \in Jobs, Proceed(k) \/ RunFails(k) PROVE row'[j] = row[j]
    BY <2>1, <2>6
    DEF Proceed, Announced, TasksEnd, Synthesized, Published, RunFails, Settled, database
  <2>7. CASE Configure \/ Restart
    BY <2>1, <2>7 DEF Configure, Restart, FailStale, Settled, database
  <2> QED
    BY <2>3, <2>4, <2>5, <2>6, <2>7 DEF DelegationNext
<1> QED
  BY <1>1, DelegationInvariant, PTL DEF DelegationSafety, VerdictStays
=============================================================================
