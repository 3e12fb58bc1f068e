-------------------------- MODULE A2AOutboxProofs --------------------------
(***************************************************************************)
(* Safety of the outbox for every number of items, sessions, drains,       *)
(* attempts and faults.                                                    *)
(*                                                                         *)
(* The invariant that carries the proof says what the running flag is for: *)
(* while the timer is armed it is up as long as a drain is open.  So at    *)
(* most one drain is open, and the snapshot it works on is still the       *)
(* record when it writes.                                                  *)
(***************************************************************************)
EXTENDS A2AOutbox, TLAPS

Busy == InFlight \cup {"queued"}

FlagIsUp == \A d \in Drains : timer /\ Open(d) => running

OneDrain == \A d1, d2 \in Drains : Open(d1) /\ Open(d2) => d1 = d2

BusyIsPending ==
  \A d \in Drains, i \in Items :
    stage[d][i] \in Busy => outbox[i].status = "pending"

OutboxInv ==
  /\ OutboxTypeOK /\ FlagIsUp /\ OneDrain /\ NoStaleWrite /\ BusyIsPending
  /\ AttemptsWithinBudget /\ EscalationNamesFailure

(* A record that does not exist yet fits the type of records. *)
LEMMA AbsentIsItem == Absent \in Item
  BY OutboxAssumption DEF Absent, Item, Statuses

(* The initial state: no drain is open, nothing is queued. *)
LEMMA OutboxInitInv == OutboxInit => OutboxInv
<1> SUFFICES ASSUME OutboxInit PROVE OutboxInv
  OBVIOUS
<1>1. OutboxTypeOK
  <2>1. faults \in 0..MaxFaults
    BY OutboxAssumption DEF OutboxInit
  <2>2. outbox \in [Items -> Item] /\ snap \in [Drains -> [Items -> Item]]
    BY AbsentIsItem DEF OutboxInit
  <2>3. stage \in [Drains -> [Items -> Stages]]
    BY DEF OutboxInit, Stages
  <2> QED
    BY <2>1, <2>2, <2>3 DEF OutboxInit, OutboxTypeOK
<1>2. FlagIsUp /\ OneDrain
  BY DEF OutboxInit, FlagIsUp, OneDrain, Open
<1>3. NoStaleWrite /\ BusyIsPending
  BY DEF OutboxInit, NoStaleWrite, BusyIsPending, Busy, InFlight
<1>4. AttemptsWithinBudget /\ EscalationNamesFailure
  BY DEF OutboxInit, AttemptsWithinBudget, EscalationNamesFailure, Absent
<1> QED
  BY <1>1, <1>2, <1>3, <1>4 DEF OutboxInv

(* A drain that has work on item i is the only open one. *)
LEMMA BusyAlone ==
  ASSUME OutboxInv, NEW d \in Drains, NEW i \in Items, stage[d][i] \in Busy,
         NEW e \in Drains, NEW j \in Items, stage[e][j] # "idle"
  PROVE  e = d
  BY DEF OutboxInv, OneDrain, Open, Busy, InFlight

(* A drain at work on an item has read the record as it still is, and the
   record after the attempt counts one attempt more. *)
LEMMA AttemptRecord ==
  ASSUME OutboxInv, NEW d \in Drains, NEW i \in Items, stage[d][i] \in InFlight,
         NEW status \in {"pending", "delivered", "failed"}
  PROVE  /\ snap[d][i] = outbox[i] /\ outbox[i].status = "pending"
         /\ outbox[i].attempts + 1 \in 1..MaxAttempts
         /\ Attempted(snap[d][i], status) \in Item
         /\ Attempted(snap[d][i], status).status = status
         /\ Attempted(snap[d][i], status).attempts = outbox[i].attempts + 1
<1>1. /\ snap[d][i] = outbox[i] /\ outbox[i].status = "pending"
      /\ outbox[i].attempts < MaxAttempts /\ outbox[i] \in Item
  BY DEF OutboxInv, NoStaleWrite, BusyIsPending, Busy, AttemptsWithinBudget, OutboxTypeOK
<1>2. outbox[i].attempts + 1 \in 1..MaxAttempts
  BY <1>1, OutboxAssumption DEF Item
<1> QED
  BY <1>1, <1>2, OutboxAssumption DEF Item, Statuses, Attempted

(* A write over the snapshot of an item in flight, by the only open drain,
   keeps everything but the part about escalations. *)
LEMMA SettleKeeps ==
  ASSUME OutboxInv, NEW d \in Drains, NEW i \in Items, stage[d][i] \in InFlight,
         NEW status \in {"pending", "delivered", "failed"},
         status = "pending" => snap[d][i].attempts + 1 < MaxAttempts,
         Settle(d, i, status),
         escalation' \in [Sessions -> Items \cup {None}]
  PROVE  /\ OutboxTypeOK' /\ FlagIsUp' /\ OneDrain' /\ NoStaleWrite'
         /\ BusyIsPending' /\ AttemptsWithinBudget'
<1> DEFINE new == Attempted(snap[d][i], status)
<1>1. /\ snap[d][i] = outbox[i]
      /\ outbox[i].attempts + 1 \in 1..MaxAttempts
      /\ new \in Item /\ new.status = status /\ new.attempts = outbox[i].attempts + 1
  BY AttemptRecord
<1>2. /\ outbox' = [outbox EXCEPT ![i] = new]
      /\ stage' = [stage EXCEPT ![d][i] = "settled"]
      /\ snap' = [snap EXCEPT ![d][i] = Absent]
      /\ running' = running /\ timer' = timer /\ faults' = faults
  BY DEF Settle
<1> HIDE DEF new
<1>3. OutboxTypeOK'
  BY <1>1, <1>2, AbsentIsItem DEF OutboxInv, OutboxTypeOK, Stages
<1>4. \A e \in Drains : Open(e)' => Open(e)
  BY <1>2 DEF Open, OutboxInv, OutboxTypeOK, InFlight
<1>5. FlagIsUp' /\ OneDrain'
  BY <1>2, <1>4 DEF OutboxInv, FlagIsUp, OneDrain
<1>6. ASSUME NEW e \in Drains, NEW j \in Items, stage'[e][j] \in Busy
      PROVE  /\ stage[e][j] \in Busy
             /\ snap'[e][j] = snap[e][j] /\ outbox'[j] = outbox[j]
  <2>1. stage[e][j] \in Busy /\ ~(e = d /\ j = i)
    BY <1>2, <1>6 DEF OutboxInv, OutboxTypeOK, Busy, InFlight
  <2>2. e = d
    BY <2>1, BusyAlone DEF Busy, InFlight
  <2> QED
    BY <1>2, <2>1, <2>2 DEF OutboxInv, OutboxTypeOK
<1>7. NoStaleWrite' /\ BusyIsPending'
  BY <1>6 DEF OutboxInv, NoStaleWrite, BusyIsPending, Busy
<1>8. AttemptsWithinBudget'
  BY <1>1, <1>2, OutboxAssumption
  DEF OutboxInv, AttemptsWithinBudget, OutboxTypeOK, Item
<1> QED
  BY <1>3, <1>5, <1>7, <1>8

(* An escalation that was open, or that the failed item i opens, still names a
   failed item of its session when i's failure is all that was recorded. *)
LEMMA EscalationKept ==
  ASSUME OutboxInv, NEW i \in Items, outbox[i].status = "pending",
         NEW new \in Item, new.status = "failed",
         outbox' = [outbox EXCEPT ![i] = new],
         Escalate(i) \/ escalation' = escalation
  PROVE  /\ escalation' \in [Sessions -> Items \cup {None}]
         /\ EscalationNamesFailure'
<1>1. SessionOf[i] \in Sessions
  BY OutboxAssumption
<1>2. \/ escalation' = escalation
      \/ escalation' = [escalation EXCEPT ![SessionOf[i]] = i]
  BY DEF Escalate
<1>3. escalation' \in [Sessions -> Items \cup {None}]
  BY <1>1, <1>2 DEF OutboxInv, OutboxTypeOK
<1>4. \A s \in Sessions :
        \/ escalation'[s] = escalation[s]
        \/ escalation'[s] = i /\ SessionOf[i] = s
  BY <1>2 DEF OutboxInv, OutboxTypeOK
<1>5. \A j \in Items : outbox[j].status = "failed" => outbox'[j].status = "failed"
  BY DEF OutboxInv, OutboxTypeOK
<1>6. outbox'[i].status = "failed"
  BY DEF OutboxInv, OutboxTypeOK
<1>7. EscalationNamesFailure'
  <2> SUFFICES ASSUME NEW s \in Sessions, escalation'[s] # None
               PROVE  /\ SessionOf[escalation'[s]] = s
                      /\ outbox'[escalation'[s]].status = "failed"
    BY DEF EscalationNamesFailure
  <2>1. CASE escalation'[s] = escalation[s]
    BY <2>1, <1>5 DEF OutboxInv, OutboxTypeOK, EscalationNamesFailure
  <2>2. CASE escalation'[s] = i /\ SessionOf[i] = s
    BY <2>2, <1>6
  <2> QED
    BY <1>4, <2>1, <2>2
<1> QED
  BY <1>3, <1>7

(* Recording a success or a retry leaves the escalations true: the item was
   pending, so none of them names it. *)
LEMMA EscalationUntouched ==
  ASSUME OutboxInv, NEW i \in Items, outbox[i].status # "failed", NEW new,
         outbox' = [outbox EXCEPT ![i] = new], escalation' = escalation
  PROVE  EscalationNamesFailure'
<1>1. \A j \in Items : outbox[j].status = "failed" => outbox'[j] = outbox[j]
  BY DEF OutboxInv, OutboxTypeOK
<1> QED
  BY <1>1 DEF OutboxInv, OutboxTypeOK, EscalationNamesFailure

(* An attempt that fails, for good or for now, or succeeds. *)
LEMMA AttemptEndsInv ==
  ASSUME OutboxInv, NEW d \in Drains, NEW i \in Items, AttemptEnds(d, i)
  PROVE  OutboxInv'
<1>1. stage[d][i] \in InFlight
  BY DEF AttemptEnds, AttemptSucceeds, AttemptFails, InFlight
<1>2. outbox[i].status = "pending"
  BY <1>1, AttemptRecord
<1>3. CASE FailItem(d, i)
  <2>1. /\ Settle(d, i, "failed") /\ Escalate(i)
        /\ outbox' = [outbox EXCEPT ![i] = Attempted(snap[d][i], "failed")]
    BY <1>3 DEF FailItem, Settle
  <2>2. /\ Attempted(snap[d][i], "failed") \in Item
        /\ Attempted(snap[d][i], "failed").status = "failed"
    BY <1>1, AttemptRecord
  <2>3. escalation' \in [Sessions -> Items \cup {None}] /\ EscalationNamesFailure'
    BY <1>2, <2>1, <2>2, EscalationKept
  <2> QED
    BY <1>1, <2>1, <2>3, SettleKeeps DEF OutboxInv
<1>4. ASSUME NEW status \in {"pending", "delivered"},
             status = "pending" => snap[d][i].attempts + 1 < MaxAttempts,
             Settle(d, i, status), escalation' = escalation
      PROVE  OutboxInv'
  <2>1. outbox' = [outbox EXCEPT ![i] = Attempted(snap[d][i], status)]
    BY <1>4 DEF Settle
  <2>2. EscalationNamesFailure'
    BY <1>2, <1>4, <2>1, EscalationUntouched
  <2>3. escalation' \in [Sessions -> Items \cup {None}]
    BY <1>4 DEF OutboxInv, OutboxTypeOK
  <2> QED
    BY <1>1, <1>4, <2>2, <2>3, SettleKeeps DEF OutboxInv
<1>5. CASE AttemptSucceeds(d, i)
  BY <1>4, <1>5 DEF AttemptSucceeds
<1>6. CASE RetryItem(d, i) /\ snap[d][i].attempts + 1 < MaxAttempts
  BY <1>4, <1>6 DEF RetryItem
<1> QED
  BY <1>3, <1>5, <1>6 DEF AttemptEnds, AttemptFails, RetryOrFail

(* A step that leaves the records, the snapshots and the escalations alone,
   opens no drain and queues nothing keeps the invariant. *)
LEMMA QuietStep ==
  ASSUME OutboxInv,
         outbox' = outbox, snap' = snap, escalation' = escalation, timer' \in BOOLEAN,
         faults' \in 0..MaxFaults,
         stage' \in [Drains -> [Items -> Stages]], running' \in BOOLEAN,
         \A d \in Drains : Open(d)' => Open(d) /\ (timer' => running'),
         \A d \in Drains, i \in Items :
           stage'[d][i] \in Busy => stage[d][i] \in Busy
  PROVE  OutboxInv'
<1>1. OutboxTypeOK'
  BY DEF OutboxInv, OutboxTypeOK
<1>2. FlagIsUp' /\ OneDrain'
  BY DEF OutboxInv, FlagIsUp, OneDrain
<1>3. NoStaleWrite' /\ BusyIsPending'
  BY DEF OutboxInv, NoStaleWrite, BusyIsPending, Busy
<1>4. AttemptsWithinBudget' /\ EscalationNamesFailure'
  BY DEF OutboxInv, AttemptsWithinBudget, EscalationNamesFailure
<1> QED
  BY <1>1, <1>2, <1>3, <1>4 DEF OutboxInv

(* A fresh item is pending and untried; no drain can be at work on it, since
   drains work on pending items only. *)
LEMMA EnqueueInv ==
  ASSUME OutboxInv, NEW i \in Items, Enqueue(i)
  PROVE  OutboxInv'
<1> PICK known \in BOOLEAN :
      outbox' = [outbox EXCEPT ![i] =
                   [status |-> "pending", attempts |-> 0, resolved |-> known]]
  BY DEF Enqueue
<1> DEFINE new == [status |-> "pending", attempts |-> 0, resolved |-> known]
<1>1. new \in Item /\ new.status = "pending" /\ new.attempts = 0
  BY OutboxAssumption DEF Item, Statuses
<1>2. /\ outbox[i].status = "none"
      /\ UNCHANGED <<escalation, running, stage, snap, timer, faults>>
  BY DEF Enqueue
<1>3. outbox' = [outbox EXCEPT ![i] = new]
  OBVIOUS
<1> HIDE DEF new
<1>4. OutboxTypeOK'
  BY <1>1, <1>2, <1>3 DEF OutboxInv, OutboxTypeOK
<1>5. FlagIsUp' /\ OneDrain'
  BY <1>2 DEF OutboxInv, FlagIsUp, OneDrain, Open
<1>6. \A d \in Drains, j \in Items :
        stage[d][j] \in Busy => outbox'[j] = outbox[j]
  BY <1>2, <1>3 DEF OutboxInv, OutboxTypeOK, BusyIsPending
<1>7. NoStaleWrite' /\ BusyIsPending'
  BY <1>2, <1>6 DEF OutboxInv, NoStaleWrite, BusyIsPending, Busy
<1>8. AttemptsWithinBudget'
  BY <1>1, <1>3, OutboxAssumption DEF OutboxInv, OutboxTypeOK, AttemptsWithinBudget
<1>9. EscalationNamesFailure'
  BY <1>2, <1>3, EscalationUntouched
<1> QED
  BY <1>4, <1>5, <1>7, <1>8, <1>9 DEF OutboxInv

(* A drain starts while no other is open, with what the queue holds. *)
LEMMA StartDrainInv ==
  ASSUME OutboxInv, NEW d \in Drains, NEW due, StartDrainOf(d, due)
  PROVE  OutboxInv'
<1>1. /\ due \subseteq Pending /\ running' = TRUE
      /\ stage' = [stage EXCEPT ![d] =
                     [i \in Items |-> IF i \in due THEN "queued" ELSE "idle"]]
      /\ snap' = [snap EXCEPT ![d] =
                    [i \in Items |-> IF i \in due THEN outbox[i] ELSE Absent]]
      /\ UNCHANGED <<outbox, escalation, timer, faults>>
  BY DEF StartDrainOf
<1>2. \A e \in Drains : ~Open(e)
  BY DEF OutboxInv, FlagIsUp, StartDrainOf
<1>3. \A e \in Drains, i \in Items : stage[e][i] = "idle"
  BY <1>2 DEF Open
<1>4. OutboxTypeOK'
  BY <1>1, AbsentIsItem DEF OutboxInv, OutboxTypeOK, Stages
<1>5. \A e \in Drains : e # d => ~Open(e)'
  BY <1>1, <1>3 DEF Open, OutboxInv, OutboxTypeOK
<1>6. FlagIsUp' /\ OneDrain'
  BY <1>1, <1>5 DEF FlagIsUp, OneDrain
<1>7. \A e \in Drains, i \in Items :
        stage'[e][i] \in Busy => e = d /\ i \in due /\ snap'[e][i] = outbox[i]
  BY <1>1, <1>3 DEF OutboxInv, OutboxTypeOK, Busy, InFlight
<1>8. NoStaleWrite' /\ BusyIsPending'
  BY <1>1, <1>7 DEF NoStaleWrite, BusyIsPending, Busy, Pending
<1>9. AttemptsWithinBudget' /\ EscalationNamesFailure'
  BY <1>1 DEF OutboxInv, AttemptsWithinBudget, EscalationNamesFailure
<1> QED
  BY <1>4, <1>6, <1>8, <1>9 DEF OutboxInv

(* The url of a resolved peer is written over the record it was read from. *)
LEMMA ResolveTargetInv ==
  ASSUME OutboxInv, NEW d \in Drains, NEW i \in Items, ResolveTarget(d, i)
  PROVE  OutboxInv'
<1> DEFINE found == [snap[d][i] EXCEPT !.resolved = TRUE]
<1>1. /\ stage[d][i] = "resolve" /\ outbox' = [outbox EXCEPT ![i] = found]
      /\ snap' = [snap EXCEPT ![d][i] = found]
      /\ stage' = [stage EXCEPT ![d][i] = "card"]
      /\ UNCHANGED <<escalation, running, timer, faults>>
  BY DEF ResolveTarget
<1>2. snap[d][i] = outbox[i] /\ outbox[i].status = "pending" /\ outbox[i] \in Item
  BY <1>1 DEF OutboxInv, OutboxTypeOK, NoStaleWrite, BusyIsPending, Busy, InFlight
<1>3. found \in Item /\ found.status = "pending" /\ found.attempts = outbox[i].attempts
  BY <1>2 DEF Item
<1> HIDE DEF found
<1>4. OutboxTypeOK'
  BY <1>1, <1>3 DEF OutboxInv, OutboxTypeOK, Stages
<1>5. \A e \in Drains : Open(e)' => Open(e)
  BY <1>1 DEF Open, OutboxInv, OutboxTypeOK
<1>6. FlagIsUp' /\ OneDrain'
  BY <1>1, <1>5 DEF OutboxInv, FlagIsUp, OneDrain
<1>7. ASSUME NEW e \in Drains, NEW j \in Items, stage'[e][j] \in Busy
      PROVE  snap'[e][j] = outbox'[j] /\ outbox'[j].status = "pending"
  <2>1. e = d
    BY <1>1, <1>7, BusyAlone DEF OutboxInv, OutboxTypeOK, Busy, InFlight
  <2>2. CASE j = i
    BY <1>1, <1>3, <2>1, <2>2 DEF OutboxInv, OutboxTypeOK
  <2>3. CASE j # i
    BY <1>1, <1>7, <2>1, <2>3
    DEF OutboxInv, OutboxTypeOK, NoStaleWrite, BusyIsPending, Busy
  <2> QED
    BY <2>2, <2>3
<1>8. NoStaleWrite' /\ BusyIsPending'
  BY <1>7 DEF NoStaleWrite, BusyIsPending, Busy
<1>9. AttemptsWithinBudget'
  BY <1>1, <1>2, <1>3 DEF OutboxInv, OutboxTypeOK, AttemptsWithinBudget
<1>10. EscalationNamesFailure'
  BY <1>1, <1>2, EscalationUntouched
<1> QED
  BY <1>4, <1>6, <1>8, <1>9, <1>10 DEF OutboxInv

(* A drain moves its items along, or closes: it is the only open one, so the
   flag may go down with it. *)
LEMMA DrainMovesInv ==
  ASSUME OutboxInv, NEW d \in Drains,
         StartBatch(d) \/ EndDrain(d) \/ \E i \in Items : PostRequest(d, i)
  PROVE  OutboxInv'
<1>1. CASE StartBatch(d)
  <2>1. PICK batch \in SUBSET At(d, {"queued"}) \ {{}} :
          stage' = [stage EXCEPT ![d] =
                      [i \in Items |-> IF i \notin batch THEN stage[d][i]
                                       ELSE IF snap[d][i].resolved
                                            THEN "card" ELSE "resolve"]]
    BY <1>1 DEF StartBatch
  <2>2. \A i \in batch : stage[d][i] = "queued"
    BY <2>1 DEF At
  <2>3. stage' \in [Drains -> [Items -> Stages]]
    BY <2>1 DEF OutboxInv, OutboxTypeOK, Stages
  <2>4. \A e \in Drains, i \in Items :
          /\ stage'[e][i] # "idle" => stage[e][i] # "idle"
          /\ stage'[e][i] \in Busy => stage[e][i] \in Busy
    BY <2>1, <2>2 DEF OutboxInv, OutboxTypeOK, Busy, InFlight
  <2>5. UNCHANGED <<outbox, escalation, running, snap, timer, faults>>
    BY <1>1 DEF StartBatch
  <2>6. \A e \in Drains : Open(e)' => Open(e) /\ (timer' => running')
    BY <2>4, <2>5 DEF Open, OutboxInv, FlagIsUp
  <2> QED
    BY <2>3, <2>4, <2>5, <2>6, QuietStep DEF OutboxInv, OutboxTypeOK
<1>2. CASE EndDrain(d)
  <2>1. /\ Open(d) /\ running' = FALSE
        /\ stage' = [stage EXCEPT ![d] = [i \in Items |-> "idle"]]
        /\ UNCHANGED <<outbox, escalation, snap, timer, faults>>
    BY <1>2 DEF EndDrain
  <2>2. \A e \in Drains : e # d => ~Open(e)
    BY <2>1 DEF OutboxInv, OneDrain
  <2>3. stage' \in [Drains -> [Items -> Stages]]
    BY <2>1 DEF OutboxInv, OutboxTypeOK, Stages
  <2>4. \A e \in Drains : ~Open(e)'
    BY <2>1, <2>2 DEF Open, OutboxInv, OutboxTypeOK
  <2>5. \A e \in Drains, i \in Items : stage'[e][i] \in Busy => stage[e][i] \in Busy
    BY <2>1 DEF OutboxInv, OutboxTypeOK, Busy, InFlight
  <2> QED
    BY <2>1, <2>3, <2>4, <2>5, QuietStep DEF OutboxInv, OutboxTypeOK
<1>3. CASE \E i \in Items : PostRequest(d, i)
  <2>1. PICK i \in Items : PostRequest(d, i)
    BY <1>3
  <2>2. /\ stage[d][i] = "card" /\ stage' = [stage EXCEPT ![d][i] = "post"]
        /\ UNCHANGED <<outbox, escalation, running, snap, timer, faults>>
    BY <2>1 DEF PostRequest
  <2>3. stage' \in [Drains -> [Items -> Stages]]
    BY <2>2 DEF OutboxInv, OutboxTypeOK, Stages
  <2>4. \A e \in Drains, j \in Items :
          /\ stage'[e][j] # "idle" => stage[e][j] # "idle"
          /\ stage'[e][j] \in Busy => stage[e][j] \in Busy
    BY <2>2 DEF OutboxInv, OutboxTypeOK, Busy, InFlight
  <2>5. \A e \in Drains : Open(e)' => Open(e) /\ (timer' => running')
    BY <2>2, <2>4 DEF Open, OutboxInv, FlagIsUp
  <2> QED
    BY <2>2, <2>3, <2>4, <2>5, QuietStep DEF OutboxInv, OutboxTypeOK
<1> QED
  BY <1>1, <1>2, <1>3

(* An answered question is gone; the records know nothing of it. *)
LEMMA OperatorAnswersInv ==
  ASSUME OutboxInv, NEW s \in Sessions, OperatorAnswers(s)
  PROVE  OutboxInv'
<1>1. /\ escalation' = [escalation EXCEPT ![s] = None]
      /\ UNCHANGED <<outbox, running, stage, snap, timer, faults>>
  BY DEF OperatorAnswers
<1>2. OutboxTypeOK' /\ EscalationNamesFailure'
  BY <1>1 DEF OutboxInv, OutboxTypeOK, EscalationNamesFailure
<1>3. FlagIsUp' /\ OneDrain' /\ NoStaleWrite' /\ BusyIsPending' /\ AttemptsWithinBudget'
  BY <1>1 DEF OutboxInv, FlagIsUp, OneDrain, NoStaleWrite, BusyIsPending,
              AttemptsWithinBudget, Open
<1> QED
  BY <1>2, <1>3 DEF OutboxInv

(* A shutdown resets the flag, but no drain starts any more. *)
LEMMA StopInv == ASSUME OutboxInv, StopProcessor PROVE OutboxInv'
<1>1. /\ timer' = FALSE /\ running' = FALSE /\ faults < MaxFaults /\ faults' = faults + 1
      /\ UNCHANGED <<outbox, escalation, stage, snap>>
  BY DEF StopProcessor
<1>2. faults' \in 0..MaxFaults
  BY <1>1, OutboxAssumption DEF OutboxInv, OutboxTypeOK
<1>3. \A d \in Drains : Open(d)' => Open(d)
  BY <1>1 DEF Open
<1> QED
  BY <1>1, <1>2, <1>3, QuietStep DEF OutboxInv, OutboxTypeOK

(* An attempt whose write fails leaves the record to a later drain. *)
LEMMA WriteFailsInv ==
  ASSUME OutboxInv, NEW d \in Drains, NEW i \in Items, WriteFails(d, i)
  PROVE  OutboxInv'
<1>1. /\ stage[d][i] \in InFlight
      /\ stage' = [stage EXCEPT ![d][i] = "settled"]
      /\ snap' = [snap EXCEPT ![d][i] = Absent]
      /\ faults < MaxFaults /\ faults' = faults + 1
      /\ UNCHANGED <<outbox, escalation, running, timer>>
  BY DEF WriteFails
<1>2. faults' \in 0..MaxFaults
  BY <1>1, OutboxAssumption DEF OutboxInv, OutboxTypeOK
<1>3. OutboxTypeOK'
  BY <1>1, <1>2, AbsentIsItem DEF OutboxInv, OutboxTypeOK, Stages
<1>4. \A e \in Drains : Open(e)' => Open(e)
  BY <1>1 DEF Open, OutboxInv, OutboxTypeOK, InFlight
<1>5. FlagIsUp' /\ OneDrain'
  BY <1>1, <1>4 DEF OutboxInv, FlagIsUp, OneDrain
<1>6. \A e \in Drains, j \in Items :
        stage'[e][j] \in Busy => stage[e][j] \in Busy /\ snap'[e][j] = snap[e][j]
  BY <1>1 DEF OutboxInv, OutboxTypeOK, Busy, InFlight
<1>7. NoStaleWrite' /\ BusyIsPending'
  BY <1>1, <1>6 DEF OutboxInv, NoStaleWrite, BusyIsPending, Busy
<1>8. AttemptsWithinBudget' /\ EscalationNamesFailure'
  BY <1>1 DEF OutboxInv, AttemptsWithinBudget, EscalationNamesFailure
<1> QED
  BY <1>3, <1>5, <1>7, <1>8 DEF OutboxInv

(* A process that starts over has no open drain. *)
LEMMA ForgetDrainsKeeps ==
  ASSUME OutboxInv, ForgetDrains, outbox' \in [Items -> Item],
         escalation' \in [Sessions -> Items \cup {None}],
         AttemptsWithinBudget', EscalationNamesFailure'
  PROVE  OutboxInv'
<1>1. /\ \/ faults' = faults
         \/ faults < MaxFaults /\ faults' = faults + 1
      /\ timer' = TRUE /\ running' = FALSE
      /\ stage' = [d \in Drains |-> [i \in Items |-> "idle"]]
      /\ snap' = [d \in Drains |-> [i \in Items |-> Absent]]
  BY DEF ForgetDrains
<1>2. faults' \in 0..MaxFaults
  BY <1>1, OutboxAssumption DEF OutboxInv, OutboxTypeOK
<1>3. stage' \in [Drains -> [Items -> Stages]] /\ snap' \in [Drains -> [Items -> Item]]
  BY <1>1, AbsentIsItem DEF Stages
<1>4. OutboxTypeOK'
  BY <1>1, <1>2, <1>3 DEF OutboxTypeOK
<1>5. FlagIsUp' /\ OneDrain' /\ NoStaleWrite' /\ BusyIsPending'
  BY <1>1 DEF FlagIsUp, OneDrain, NoStaleWrite, BusyIsPending, Open, Busy, InFlight
<1> QED
  BY <1>4, <1>5 DEF OutboxInv

(* A crash between two writes, or between the record of a failure and the
   escalation that should follow it. *)
LEMMA CrashInv ==
  ASSUME OutboxInv,
         OutboxCrash \/ \E d \in Drains, i \in Items : CrashInFailItem(d, i)
  PROVE  OutboxInv'
<1>1. CASE OutboxCrash
  <2>1. ForgetDrains /\ outbox' = outbox /\ escalation' = escalation
    BY <1>1 DEF OutboxCrash
  <2>2. /\ outbox' \in [Items -> Item]
        /\ escalation' \in [Sessions -> Items \cup {None}]
        /\ AttemptsWithinBudget' /\ EscalationNamesFailure'
    BY <2>1 DEF OutboxInv, OutboxTypeOK, AttemptsWithinBudget, EscalationNamesFailure
  <2> QED
    BY <2>1, <2>2, ForgetDrainsKeeps
<1>2. CASE \E d \in Drains, i \in Items : CrashInFailItem(d, i)
  <2>1. PICK d \in Drains, i \in Items : CrashInFailItem(d, i)
    BY <1>2
  <2> DEFINE new == Attempted(snap[d][i], "failed")
  <2>2. /\ stage[d][i] \in InFlight /\ ForgetDrains /\ escalation' = escalation
        /\ outbox' = [outbox EXCEPT ![i] = new]
    BY <2>1 DEF CrashInFailItem
  <2>3. /\ outbox[i].status = "pending" /\ new \in Item /\ new.status = "failed"
        /\ new.attempts \in 1..MaxAttempts
    BY <2>2, AttemptRecord
  <2> HIDE DEF new
  <2>4. outbox' \in [Items -> Item]
    BY <2>2, <2>3 DEF OutboxInv, OutboxTypeOK
  <2>5. AttemptsWithinBudget'
    BY <2>2, <2>3 DEF OutboxInv, OutboxTypeOK, AttemptsWithinBudget
  <2>6. /\ escalation' \in [Sessions -> Items \cup {None}]
        /\ EscalationNamesFailure'
    BY <2>2, <2>3, EscalationKept
  <2> QED
    BY <2>2, <2>4, <2>5, <2>6, ForgetDrainsKeeps
<1> QED
  BY <1>1, <1>2

(* Every step of the outbox keeps the invariant. *)
LEMMA OutboxStepInv == OutboxInv /\ [OutboxNext]_outboxVars => OutboxInv'
<1> SUFFICES ASSUME OutboxInv, [OutboxNext]_outboxVars PROVE OutboxInv'
  OBVIOUS
<1>1. CASE \E i \in Items : Enqueue(i)
  BY <1>1, EnqueueInv
<1>2. ASSUME NEW d \in Drains, StartDrain(d) \/ DrainStep(d) PROVE OutboxInv'
  <2>1. CASE StartDrain(d)
    BY <2>1, StartDrainInv DEF StartDrain
  <2>2. CASE \E i \in Items : ResolveTarget(d, i)
    BY <2>2, ResolveTargetInv
  <2>3. CASE StartBatch(d) \/ EndDrain(d) \/ \E i \in Items : PostRequest(d, i)
    BY <2>3, DrainMovesInv
  <2> QED
    BY <1>2, <2>1, <2>2, <2>3 DEF DrainStep
<1>3. ASSUME NEW d \in Drains, NEW i \in Items, AttemptEnds(d, i) \/ WriteFails(d, i)
      PROVE  OutboxInv'
  BY <1>3, AttemptEndsInv, WriteFailsInv
<1>4. CASE \E d \in Drains, i \in Items : CrashInFailItem(d, i)
  BY <1>4, CrashInv
<1>5. CASE \E s \in Sessions : OperatorAnswers(s)
  BY <1>5, OperatorAnswersInv
<1>6. CASE StopProcessor \/ OutboxCrash
  BY <1>6, StopInv, CrashInv
<1>7. CASE UNCHANGED outboxVars
  BY <1>7 DEF outboxVars, OutboxInv, OutboxTypeOK, FlagIsUp, OneDrain, NoStaleWrite,
              BusyIsPending, AttemptsWithinBudget, EscalationNamesFailure, Open
<1> QED
  BY <1>1, <1>2, <1>3, <1>4, <1>5, <1>6, <1>7 DEF OutboxNext

(* The invariant holds in every reachable state. *)
THEOREM OutboxInvariant == OutboxSafety => []OutboxInv
  BY OutboxInitInv, OutboxStepInv, PTL DEF OutboxSafety

(* The records, the flag and the drains keep their types: in particular no
   record ever counts more attempts than its budget. *)
THEOREM OutboxTypeCorrect == OutboxSafety => []OutboxTypeOK
<1>1. OutboxInv => OutboxTypeOK
  BY DEF OutboxInv
<1> QED
  BY <1>1, OutboxInvariant, PTL

(* What an attempt writes over is what its drain read: no lost update, for
   every number of drains that the timer starts. *)
THEOREM NoStaleWriteHolds == OutboxSafety => []NoStaleWrite
<1>1. OutboxInv => NoStaleWrite
  BY DEF OutboxInv
<1> QED
  BY <1>1, OutboxInvariant, PTL

(* A waiting item has an attempt left and a settled one used at least one and
   at most maxAttempts, for every maxAttempts. *)
THEOREM AttemptsWithinBudgetHolds == OutboxSafety => []AttemptsWithinBudget
<1>1. OutboxInv => AttemptsWithinBudget
  BY DEF OutboxInv
<1> QED
  BY <1>1, OutboxInvariant, PTL

(* A question to the operator names a delivery of its session that failed. *)
THEOREM EscalationNamesFailureHolds == OutboxSafety => []EscalationNamesFailure
<1>1. OutboxInv => EscalationNamesFailure
  BY DEF OutboxInv
<1> QED
  BY <1>1, OutboxInvariant, PTL

(* No write of an attempt, of a drain or of a crash changes the record of an
   item that was delivered or given up. *)
THEOREM VerdictIsFinalHolds == OutboxSafety => VerdictIsFinal
<1> DEFINE Final == \A i \in Items : outbox[i].status \in {"delivered", "failed"} =>
                                        outbox'[i] = outbox[i]
<1>1. OutboxInv /\ [OutboxNext]_outboxVars => [Final]_outboxVars
  <2> SUFFICES ASSUME OutboxInv, OutboxNext, NEW i \in Items,
                      outbox[i].status \in {"delivered", "failed"}
               PROVE  outbox'[i] = outbox[i]
    OBVIOUS
  <2>1. \A d \in Drains : stage[d][i] \notin InFlight
    BY DEF OutboxInv, BusyIsPending, Busy
  <2>2. ASSUME NEW j \in Items, Enqueue(j) PROVE outbox'[i] = outbox[i]
    BY <2>2 DEF Enqueue, OutboxInv, OutboxTypeOK
  <2>3. ASSUME NEW d \in Drains, StartDrain(d) \/ StartBatch(d) \/ EndDrain(d)
        PROVE  outbox' = outbox
    BY <2>3 DEF StartDrain, StartDrainOf, StartBatch, EndDrain
  <2>4. ASSUME NEW d \in Drains, NEW j \in Items,
               ResolveTarget(d, j) \/ PostRequest(d, j)
        PROVE  outbox'[i] = outbox[i]
    BY <2>1, <2>4 DEF ResolveTarget, PostRequest, InFlight, OutboxInv, OutboxTypeOK
  <2>5. ASSUME NEW d \in Drains, NEW j \in Items, AttemptEnds(d, j)
        PROVE  outbox'[i] = outbox[i]
    BY <2>1, <2>5
    DEF AttemptEnds, AttemptSucceeds, AttemptFails, RetryOrFail, FailItem, RetryItem,
        Settle, InFlight, OutboxInv, OutboxTypeOK
  <2>6. ASSUME NEW d \in Drains, NEW j \in Items, CrashInFailItem(d, j)
        PROVE  outbox'[i] = outbox[i]
    BY <2>1, <2>6 DEF CrashInFailItem, OutboxInv, OutboxTypeOK
  <2>7. ASSUME \/ StopProcessor \/ OutboxCrash
               \/ \E s \in Sessions : OperatorAnswers(s)
               \/ \E d \in Drains, j \in Items : WriteFails(d, j)
        PROVE  outbox' = outbox
    BY <2>7 DEF StopProcessor, OutboxCrash, OperatorAnswers, WriteFails
  <2> QED
    BY <2>2, <2>3, <2>4, <2>5, <2>6, <2>7 DEF OutboxNext, DrainStep
<1> QED
  BY <1>1, OutboxInvariant, PTL DEF OutboxSafety, VerdictIsFinal

-----------------------------------------------------------------------------
(* The safety half of EveryItemSettles. *)
FlagIsOwned == running => timer /\ \E d \in Drains : Open(d)

(* The running flag is up only while a drain is open that will take it down, so
   that no error, shutdown or crash leaves an outbox that lists nothing any more:
   the flag is reset in the finally of drainA2AOutbox. *)
THEOREM FlagIsNeverLeftUp == OutboxSafety => []FlagIsOwned
<1>1. OutboxInit => FlagIsOwned
  BY DEF OutboxInit, FlagIsOwned
<1>2. OutboxInv /\ FlagIsOwned /\ [OutboxNext]_outboxVars => FlagIsOwned'
  <2> SUFFICES ASSUME OutboxInv, FlagIsOwned, [OutboxNext]_outboxVars, running'
               PROVE  timer' /\ \E d \in Drains : Open(d)'
    BY DEF FlagIsOwned
  <2>1. stage \in [Drains -> [Items -> Stages]]
    BY DEF OutboxInv, OutboxTypeOK
  <2>2. CASE UNCHANGED <<running, stage, timer>>
    BY <2>2 DEF FlagIsOwned, Open
  <2>3. ASSUME NEW d \in Drains, StartDrain(d)
        PROVE  timer' /\ Open(d)'
    <3>1. PICK due \in SUBSET Pending : due # {} /\ timer /\ timer' = timer
            /\ stage' = [stage EXCEPT ![d] =
                           [i \in Items |-> IF i \in due THEN "queued" ELSE "idle"]]
      BY <2>3 DEF StartDrain, StartDrainOf
    <3>2. PICK i \in due : i \in Items
      BY <3>1 DEF Pending
    <3>3. stage'[d][i] = "queued"
      BY <2>1, <3>1, <3>2
    <3> QED
      BY <3>1, <3>2, <3>3 DEF Open
  <2>4. ASSUME NEW d \in Drains, NEW moved \in [Items -> Stages],
               stage' = [stage EXCEPT ![d] = moved],
               \A i \in Items : stage[d][i] # "idle" => moved[i] # "idle",
               UNCHANGED <<running, timer>>
        PROVE  timer' /\ \E e \in Drains : Open(e)'
    <3>1. timer /\ \E e \in Drains : Open(e)
      BY <2>4 DEF FlagIsOwned
    <3>2. PICK e \in Drains, i \in Items : stage[e][i] # "idle"
      BY <3>1 DEF Open
    <3>3. stage'[e][i] # "idle"
      BY <2>1, <2>4, <3>2
    <3> QED
      BY <2>4, <3>1, <3>3 DEF Open
  <2>5. ASSUME NEW d \in Drains, StartBatch(d)
        PROVE  timer' /\ \E e \in Drains : Open(e)'
    <3>1. PICK batch \in SUBSET At(d, {"queued"}) :
            stage' = [stage EXCEPT ![d] =
                        [i \in Items |-> IF i \notin batch THEN stage[d][i]
                                         ELSE IF snap[d][i].resolved
                                              THEN "card" ELSE "resolve"]]
      BY <2>5 DEF StartBatch
    <3> DEFINE moved == [i \in Items |-> IF i \notin batch THEN stage[d][i]
                                         ELSE IF snap[d][i].resolved
                                              THEN "card" ELSE "resolve"]
    <3>2. moved \in [Items -> Stages]
          /\ \A i \in Items : stage[d][i] # "idle" => moved[i] # "idle"
      BY <2>1 DEF Stages
    <3>3. stage' = [stage EXCEPT ![d] = moved]
      BY <3>1
    <3>4. UNCHANGED <<running, timer>>
      BY <2>5 DEF StartBatch
    <3> HIDE DEF moved
    <3> QED
      BY <2>4, <3>2, <3>3, <3>4
  <2>6. ASSUME NEW d \in Drains, NEW i \in Items,
               \/ ResolveTarget(d, i) \/ PostRequest(d, i)
               \/ AttemptEnds(d, i) \/ WriteFails(d, i)
        PROVE  timer' /\ \E e \in Drains : Open(e)'
    <3>1. PICK to \in Stages \ {"idle"} : stage' = [stage EXCEPT ![d][i] = to]
      BY <2>6
      DEF ResolveTarget, PostRequest, AttemptEnds, AttemptSucceeds, AttemptFails,
          RetryOrFail, FailItem, RetryItem, Settle, WriteFails, Stages
    <3>2. UNCHANGED <<running, timer>>
      BY <2>6
      DEF ResolveTarget, PostRequest, AttemptEnds, AttemptSucceeds, AttemptFails,
          RetryOrFail, FailItem, RetryItem, Settle, WriteFails
    <3> DEFINE moved == [stage[d] EXCEPT ![i] = to]
    <3>3. moved \in [Items -> Stages]
          /\ \A j \in Items : stage[d][j] # "idle" => moved[j] # "idle"
      BY <2>1
    <3>4. stage' = [stage EXCEPT ![d] = moved]
      BY <2>1, <3>1
    <3> HIDE DEF moved
    <3> QED
      BY <2>4, <3>2, <3>3, <3>4
  <2>7. ~StopProcessor /\ ~ForgetDrains /\ \A d \in Drains : ~EndDrain(d)
    BY DEF StopProcessor, ForgetDrains, EndDrain
  <2>8. ASSUME \/ \E i \in Items : Enqueue(i)
               \/ \E s \in Sessions : OperatorAnswers(s)
               \/ UNCHANGED outboxVars
        PROVE  UNCHANGED <<running, stage, timer>>
    BY <2>8 DEF Enqueue, OperatorAnswers, outboxVars
  <2> QED
    BY <2>2, <2>3, <2>5, <2>6, <2>7, <2>8
    DEF OutboxNext, DrainStep, CrashInFailItem, OutboxCrash
<1> QED
  BY <1>1, <1>2, OutboxInvariant, PTL DEF OutboxSafety
=============================================================================
