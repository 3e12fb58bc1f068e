--------------------------- MODULE A2AInboxProofs ---------------------------
(***************************************************************************)
(* Safety of the inbox for every number of envelopes, threads, runs and    *)
(* faults and every loop budget.                                           *)
(*                                                                         *)
(* What a drain is about to do with an envelope fits the record it will    *)
(* write: the record waits until the agent's turn starts and runs during   *)
(* it.  So an outcome is written once, and a thread's budget is looked at  *)
(* just before the one step that spends it.                                *)
(***************************************************************************)
EXTENDS A2AInbox, FiniteSetTheorems, TLAPS

DispatchRecord == [status: DispatchStatuses, attempts: 0..MaxRuns, recent: BOOLEAN]

(* A record that waits, or will, has a run left; a drain holds waiting records up to the
   agent's turn and a running one during it. *)
RecordFits(r, p) ==
  /\ r.status \in {"none", "pending"} => r.attempts < MaxRuns
  /\ p \in {"queued", "begin"} => r.status = "pending"
  /\ p = "agent" => r.status = "running"

RecordsFit == \A e \in Envelopes : RecordFits(dispatch[e], phase[e])

InboxInv ==
  InboxTypeOK /\ RecordsFit /\ QueuedIsStored /\ LoopBudgetKept /\ OneReply

-----------------------------------------------------------------------------
(* No envelope counts against a thread's budget at the start. *)
LEMMA InboxInitInv == InboxInit => InboxInv
<1> SUFFICES ASSUME InboxInit PROVE InboxInv
  OBVIOUS
<1>1. 0 \in 0..MaxRuns /\ 0 < MaxRuns /\ 0 \in 0..MaxInboxFaults /\ LoopMaxPerThread \in Nat
  BY InboxAssumption
<1>2. dispatch \in [Envelopes -> DispatchRecord]
  BY <1>1 DEF InboxInit, DispatchRecord, DispatchStatuses
<1>3. InboxTypeOK
  BY <1>1, <1>2 DEF InboxInit, InboxTypeOK, DispatchRecord, Phases
<1>4. RecordsFit /\ QueuedIsStored
  BY <1>1 DEF InboxInit, RecordsFit, RecordFits, QueuedIsStored
<1>5. \A t \in Threads : Spent(t) = {}
  BY DEF InboxInit, Spent
<1>6. LoopBudgetKept
  BY <1>1, <1>5, FS_EmptySet DEF LoopBudgetKept
<1>7. OneReply
  BY DEF InboxInit, OneReply
<1> QED
  BY <1>3, <1>4, <1>6, <1>7 DEF InboxInv

(* The state as the lemmas use it. *)
LEMMA InboxTypes ==
  ASSUME InboxInv
  PROVE  /\ dispatch \in [Envelopes -> DispatchRecord] /\ phase \in [Envelopes -> Phases]
         /\ stored \subseteq Envelopes /\ replying \subseteq Envelopes
         /\ replies \in [Envelopes -> Nat] /\ inboxFaults \in 0..MaxInboxFaults
  BY DEF InboxInv, InboxTypeOK, DispatchRecord

(* The budget of a thread is kept when nothing more counts against it. *)
LEMMA BudgetShrinks ==
  ASSUME InboxInv,
         \A e \in Envelopes :
           dispatch'[e].status \in {"running", "succeeded"} /\ dispatch'[e].recent =>
             dispatch[e].status \in {"running", "succeeded"} /\ dispatch[e].recent
  PROVE  LoopBudgetKept'
<1> SUFFICES ASSUME NEW t \in Threads PROVE Cardinality(Spent(t)') <= LoopMaxPerThread
  BY DEF LoopBudgetKept
<1>1. Spent(t) \subseteq Envelopes /\ Spent(t)' \subseteq Spent(t)
  BY DEF Spent
<1>2. IsFiniteSet(Spent(t)) /\ IsFiniteSet(Spent(t)')
  BY <1>1, InboxAssumption, FS_Subset
<1>3. /\ Cardinality(Spent(t)') <= Cardinality(Spent(t))
      /\ Cardinality(Spent(t)) \in Nat /\ Cardinality(Spent(t)') \in Nat
  BY <1>1, <1>2, FS_Subset, FS_CardinalityType
<1>4. Cardinality(Spent(t)) <= LoopMaxPerThread
  BY DEF InboxInv, LoopBudgetKept
<1> QED
  BY <1>3, <1>4, InboxAssumption

(* A run that is not suppressed adds its envelope to a budget with room. *)
LEMMA BudgetHasRoom ==
  ASSUME InboxInv, NEW e \in Envelopes, ~Suppressed(e),
         \A k \in Envelopes \ {e} : dispatch'[k] = dispatch[k]
  PROVE  LoopBudgetKept'
<1> SUFFICES ASSUME NEW t \in Threads PROVE Cardinality(Spent(t)') <= LoopMaxPerThread
  BY DEF LoopBudgetKept
<1>1. Spent(t) \subseteq Envelopes /\ Spent(t)' \subseteq Envelopes
  BY DEF Spent
<1>2. IsFiniteSet(Spent(t)) /\ IsFiniteSet(Spent(t)')
  BY <1>1, InboxAssumption, FS_Subset
<1>3. Cardinality(Spent(t)) \in Nat /\ Cardinality(Spent(t)') \in Nat
  BY <1>2, FS_CardinalityType
<1>4. CASE ThreadOf[e] = t
  <2> DEFINE others == Spent(t) \ {e}
  <2>1. IsFiniteSet(others) /\ Cardinality(others) \in Nat
    BY <1>2, FS_RemoveElement, FS_CardinalityType
  <2>2. Cardinality(others) < LoopMaxPerThread
    BY <1>4, <2>1, InboxAssumption DEF Suppressed
  <2>3. Spent(t)' \subseteq others \cup {e}
    BY DEF Spent
  <2> HIDE DEF others
  <2>4. IsFiniteSet(others \cup {e}) /\ Cardinality(others \cup {e}) <= Cardinality(others) + 1
    <3>1. /\ IsFiniteSet(others \cup {e})
          /\ \/ Cardinality(others \cup {e}) = Cardinality(others)
             \/ Cardinality(others \cup {e}) = Cardinality(others) + 1
      BY <2>1, FS_AddElement, Zenon
    <3> QED
      BY <2>1, <3>1
  <2>5. /\ Cardinality(Spent(t)') <= Cardinality(others \cup {e})
        /\ Cardinality(others \cup {e}) \in Nat
    BY <2>3, <2>4, FS_Subset, FS_CardinalityType
  <2> QED
    BY <1>3, <2>1, <2>2, <2>4, <2>5, InboxAssumption
<1>5. CASE ThreadOf[e] # t
  <2>1. Spent(t)' = Spent(t)
    BY <1>5 DEF Spent
  <2> QED
    BY <2>1 DEF InboxInv, LoopBudgetKept
<1> QED
  BY <1>4, <1>5

(* A write of one record, with the phase of its envelope: what is asked of it. *)
LEMMA RecordWriteKeeps ==
  ASSUME InboxInv, NEW e \in Envelopes, NEW r \in DispatchRecord, NEW p \in Phases,
         dispatch' = [dispatch EXCEPT ![e] = r], phase' = [phase EXCEPT ![e] = p],
         stored' \subseteq Envelopes, stored \subseteq stored', RecordFits(r, p),
         r.status # "none" => e \in stored',
         dispatch[e].status = "succeeded" => r.status = "succeeded",
         LoopBudgetKept', replies' = replies, replying' \subseteq Envelopes,
         \A k \in Envelopes :
           k \in replying' => \/ k \in replying
                              \/ /\ k = e /\ k \in Answerable /\ r.status = "succeeded"
                                 /\ dispatch[e].status # "succeeded",
         inboxFaults' \in 0..MaxInboxFaults
  PROVE  InboxInv'
<1>1. dispatch' \in [Envelopes -> DispatchRecord] /\ phase' \in [Envelopes -> Phases]
  BY InboxTypes
<1>2. /\ dispatch'[e] = r /\ phase'[e] = p
      /\ \A k \in Envelopes \ {e} : dispatch'[k] = dispatch[k] /\ phase'[k] = phase[k]
  BY InboxTypes
<1>3. InboxTypeOK'
  BY <1>1, InboxTypes DEF InboxTypeOK, DispatchRecord
<1>4. RecordsFit' /\ QueuedIsStored'
  BY <1>2 DEF InboxInv, RecordsFit, QueuedIsStored
<1>5. OneReply'
  <2> SUFFICES ASSUME NEW k \in Envelopes
               PROVE  LET n == replies[k] + (IF k \in replying' THEN 1 ELSE 0)
                      IN  n <= 1 /\ (n = 1 => /\ dispatch'[k].status = "succeeded"
                                              /\ k \in Answerable)
    BY DEF OneReply
  <2>1. /\ replies[k] \in Nat
        /\ k \in replying => /\ replies[k] = 0 /\ k \in Answerable
                             /\ dispatch[k].status = "succeeded"
        /\ replies[k] <= 1
        /\ replies[k] = 1 => dispatch[k].status = "succeeded" /\ k \in Answerable
    BY InboxTypes DEF InboxInv, OneReply
  <2>2. dispatch[k].status = "succeeded" => dispatch'[k].status = "succeeded"
    BY <1>2
  <2>3. k \in replying' => /\ replies[k] = 0 /\ k \in Answerable
                           /\ dispatch'[k].status = "succeeded"
    BY <1>2, <2>1, <2>2
  <2> QED
    BY <2>1, <2>2, <2>3
<1> QED
  BY <1>3, <1>4, <1>5 DEF InboxInv

(* sendMessage, with both of its writes or the first alone: a record is queued
   only for an envelope that the thread store has taken. *)
LEMMA AcceptKeeps ==
  ASSUME InboxInv, NEW e \in Envelopes, Accept(e) \/ AcceptHalfway(e)
  PROVE  InboxInv'
<1>1. /\ stored' = stored \cup {e} /\ e \notin stored
      /\ UNCHANGED <<phase, replying, replies>>
  BY DEF Accept, AcceptHalfway, Save
<1>2. dispatch[e].status = "none" /\ dispatch[e] \in DispatchRecord /\ phase[e] \in Phases
  BY <1>1, InboxTypes DEF InboxInv, QueuedIsStored
<1>3. /\ dispatch[e].attempts < MaxRuns /\ phase[e] \notin {"queued", "begin", "agent"}
      /\ phase' = [phase EXCEPT ![e] = phase[e]]
  BY <1>1, <1>2, InboxTypes DEF InboxInv, RecordsFit, RecordFits
<1>4. inboxFaults' \in 0..MaxInboxFaults
  BY InboxTypes, InboxAssumption DEF Accept, AcceptHalfway
<1>5. PICK r \in DispatchRecord :
        /\ dispatch' = [dispatch EXCEPT ![e] = r]
        /\ r.status \in {"none", "pending"} /\ r.attempts = dispatch[e].attempts
  <2>1. CASE Accept(e)
    <3> DEFINE r == [dispatch[e] EXCEPT !.status = "pending"]
    <3>1. dispatch' = [dispatch EXCEPT ![e] = r]
      BY <1>2, <2>1, InboxTypes DEF Accept, QueueDispatch, DispatchRecord
    <3>2. r \in DispatchRecord /\ r.status = "pending" /\ r.attempts = dispatch[e].attempts
      BY <1>2 DEF DispatchRecord, DispatchStatuses
    <3> HIDE DEF r
    <3> QED
      BY <3>1, <3>2
  <2>2. CASE AcceptHalfway(e)
    <3>1. dispatch' = [dispatch EXCEPT ![e] = dispatch[e]]
      BY <2>2, InboxTypes DEF AcceptHalfway
    <3> QED
      BY <1>2, <3>1
  <2> QED
    BY <2>1, <2>2
<1>6. RecordFits(r, phase[e])
  BY <1>3, <1>5, <1>2 DEF RecordFits
<1>7. LoopBudgetKept'
  BY <1>5, InboxTypes, BudgetShrinks
<1> QED
  BY <1>1, <1>2, <1>3, <1>4, <1>5, <1>6, <1>7, InboxTypes, RecordWriteKeeps

(* processA2AInboxDispatchItem up to the agent's turn. *)
LEMMA BeginKeeps ==
  ASSUME InboxInv, NEW e \in Envelopes, Begin(e)
  PROVE  InboxInv'
<1>1. /\ phase[e] = "begin" /\ dispatch[e].status = "pending"
      /\ dispatch[e] \in DispatchRecord /\ dispatch[e].attempts < MaxRuns /\ e \in stored
  BY InboxTypes
  DEF Begin, BeginIgnored, BeginUnresolved, BeginSuppressed, BeginRun,
      InboxInv, RecordsFit, RecordFits, QueuedIsStored
<1>2. UNCHANGED <<stored, replying, replies, inboxFaults>>
  BY DEF Begin, BeginIgnored, BeginUnresolved, BeginSuppressed, BeginRun, MarkTerminal
<1>3. ASSUME NEW status \in {"ignored", "failed", "suppressed"}, MarkTerminal(e, status)
      PROVE  InboxInv'
  <2> DEFINE r == [dispatch[e] EXCEPT !.status = status]
  <2>1. /\ dispatch' = [dispatch EXCEPT ![e] = r] /\ phase' = [phase EXCEPT ![e] = "settled"]
    BY <1>3, InboxTypes DEF MarkTerminal, DispatchRecord
  <2>2. r \in DispatchRecord /\ r.status = status
    BY <1>1 DEF DispatchRecord, DispatchStatuses
  <2> HIDE DEF r
  <2>3. RecordFits(r, "settled") /\ "settled" \in Phases
    BY <2>2 DEF RecordFits, Phases
  <2>4. LoopBudgetKept'
    BY <2>1, <2>2, InboxTypes, BudgetShrinks
  <2> QED
    BY <1>1, <1>2, <2>1, <2>2, <2>3, <2>4, InboxTypes, RecordWriteKeeps
<1>4. CASE BeginRun(e)
  <2> DEFINE r == [status |-> "running", attempts |-> dispatch[e].attempts + 1,
                   recent |-> TRUE]
  <2>1. /\ dispatch' = [dispatch EXCEPT ![e] = r] /\ phase' = [phase EXCEPT ![e] = "agent"]
        /\ ~Suppressed(e)
    BY <1>4 DEF BeginRun
  <2>2. dispatch[e].attempts + 1 \in 0..MaxRuns
    BY <1>1, InboxAssumption DEF DispatchRecord
  <2>3. r \in DispatchRecord /\ r.status = "running"
    BY <2>2 DEF DispatchRecord, DispatchStatuses
  <2> HIDE DEF r
  <2>4. RecordFits(r, "agent") /\ "agent" \in Phases
    BY <2>3 DEF RecordFits, Phases
  <2>5. LoopBudgetKept'
    BY <2>1, InboxTypes, BudgetHasRoom
  <2> QED
    BY <1>1, <1>2, <2>1, <2>3, <2>4, <2>5, InboxTypes, RecordWriteKeeps
<1> QED
  BY <1>3, <1>4 DEF Begin, BeginIgnored, BeginUnresolved, BeginSuppressed

(* The agent's turn is over: the record was running, so it gets its first
   outcome, and a reply is due to a run that succeeded just now. *)
LEMMA AgentTurnKeeps ==
  ASSUME InboxInv, NEW e \in Envelopes, RunEnds(e)
  PROVE  InboxInv'
<1>1. /\ phase[e] = "agent" /\ dispatch[e].status = "running"
      /\ dispatch[e] \in DispatchRecord /\ e \in stored
      /\ phase' = [phase EXCEPT ![e] = "settled"] /\ UNCHANGED <<stored, replies, inboxFaults>>
  BY InboxTypes
  DEF RunEnds, RunSucceeds, RunFails, InboxInv, RecordsFit, RecordFits, QueuedIsStored
<1>2. PICK status \in {"succeeded", "pending", "failed"} :
        /\ dispatch' = [dispatch EXCEPT ![e].status = status]
        /\ status = "pending" => dispatch[e].attempts < MaxRuns
        /\ \/ replying' = replying
           \/ status = "succeeded" /\ e \in Answerable /\ replying' = replying \cup {e}
  BY DEF RunEnds, RunSucceeds, RunFails
<1> DEFINE r == [dispatch[e] EXCEPT !.status = status]
<1>3. dispatch' = [dispatch EXCEPT ![e] = r]
  BY <1>2, InboxTypes DEF DispatchRecord
<1>4. /\ r \in DispatchRecord /\ r.status = status /\ r.attempts = dispatch[e].attempts
      /\ r.recent = dispatch[e].recent
  BY <1>1 DEF DispatchRecord, DispatchStatuses
<1> HIDE DEF r
<1>5. RecordFits(r, "settled") /\ "settled" \in Phases
  BY <1>2, <1>4 DEF RecordFits, Phases
<1>6. LoopBudgetKept'
  BY <1>1, <1>3, <1>4, InboxTypes, BudgetShrinks
<1>7. /\ replying' \subseteq Envelopes
      /\ \A k \in Envelopes :
           k \in replying' => \/ k \in replying
                              \/ /\ k = e /\ k \in Answerable /\ r.status = "succeeded"
                                 /\ dispatch[e].status # "succeeded"
  BY <1>1, <1>2, <1>4, InboxTypes
<1> QED
  BY <1>1, <1>3, <1>4, <1>5, <1>6, <1>7, InboxTypes, RecordWriteKeeps

(* A write of the record fails: the drain goes on, the record is as it was. *)
LEMMA RecordWriteFailsKeeps ==
  ASSUME InboxInv, NEW e \in Envelopes, RecordWriteFails(e)
  PROVE  InboxInv'
<1>1. /\ phase' = [phase EXCEPT ![e] = "settled"] /\ inboxFaults' \in 0..MaxInboxFaults
      /\ UNCHANGED <<stored, dispatch, replying, replies>>
  BY InboxTypes, InboxAssumption DEF RecordWriteFails
<1>2. /\ dispatch[e] \in DispatchRecord /\ dispatch' = [dispatch EXCEPT ![e] = dispatch[e]]
      /\ dispatch[e].status # "none" => e \in stored
  BY <1>1, InboxTypes DEF InboxInv, QueuedIsStored
<1>3. RecordFits(dispatch[e], "settled") /\ "settled" \in Phases
  BY DEF InboxInv, RecordsFit, RecordFits, Phases
<1>4. LoopBudgetKept'
  BY <1>1, BudgetShrinks
<1> QED
  BY <1>1, <1>2, <1>3, <1>4, InboxTypes, RecordWriteKeeps

(* enqueueA2AReply: the reply that was due has been sent, or is lost. *)
LEMMA SendReplyKeeps ==
  ASSUME InboxInv, NEW e \in Envelopes, SendReply(e)
  PROVE  InboxInv'
<1>1. PICK sent \in {0, 1} : replies' = [replies EXCEPT ![e] = @ + sent]
  BY DEF SendReply
<1>2. /\ e \in replying /\ replying' = replying \ {e}
      /\ UNCHANGED <<stored, dispatch, phase, inboxFaults>>
  BY DEF SendReply
<1>3. /\ replies' \in [Envelopes -> Nat] /\ replies'[e] = replies[e] + sent
      /\ \A k \in Envelopes \ {e} : replies'[k] = replies[k]
  BY <1>1, InboxTypes
<1>4. InboxTypeOK' /\ RecordsFit' /\ QueuedIsStored'
  BY <1>2, <1>3 DEF InboxInv, InboxTypeOK, RecordsFit, QueuedIsStored
<1>5. LoopBudgetKept'
  BY <1>2, BudgetShrinks
<1>6. OneReply'
  <2> SUFFICES ASSUME NEW k \in Envelopes
               PROVE  LET n == replies'[k] + (IF k \in replying' THEN 1 ELSE 0)
                      IN  n <= 1 /\ (n = 1 => /\ dispatch[k].status = "succeeded"
                                              /\ k \in Answerable)
    BY <1>2 DEF OneReply
  <2>1. LET n == replies[k] + (IF k \in replying THEN 1 ELSE 0)
        IN  n <= 1 /\ (n = 1 => dispatch[k].status = "succeeded" /\ k \in Answerable)
    BY DEF InboxInv, OneReply
  <2>2. replies[k] \in Nat
    BY InboxTypes
  <2>3. CASE k = e
    BY <1>2, <1>3, <2>1, <2>2, <2>3
  <2>4. CASE k # e
    BY <1>2, <1>3, <2>1, <2>4
  <2> QED
    BY <2>3, <2>4
<1> QED
  BY <1>4, <1>5, <1>6 DEF InboxInv

(* A drain starts, goes on to its next batch or ends: no record gets a status.
   A start may have left the loop window meanwhile. *)
LEMMA DrainKeeps ==
  ASSUME InboxInv, StartDispatch \/ StartDispatchBatch \/ EndDispatch
  PROVE  InboxInv'
<1>1. UNCHANGED <<stored, replying, replies, inboxFaults>>
  BY DEF StartDispatch, StartDispatchOf, StartDispatchBatch, EndDispatch
<1>2. PICK aged \in SUBSET Envelopes :
        dispatch' = [e \in Envelopes |-> IF e \in aged THEN [dispatch[e] EXCEPT !.recent = FALSE]
                                         ELSE dispatch[e]]
  <2>1. CASE StartDispatch
    BY <2>1 DEF StartDispatch, StartDispatchOf, Recent
  <2>2. CASE StartDispatchBatch \/ EndDispatch
    <3>1. dispatch' = dispatch /\ {} \in SUBSET Envelopes
      BY <2>2 DEF StartDispatchBatch, EndDispatch
    <3>2. dispatch = [e \in Envelopes |-> IF e \in {} THEN [dispatch[e] EXCEPT !.recent = FALSE]
                                          ELSE dispatch[e]]
      BY InboxTypes
    <3> QED
      BY <3>1, <3>2
  <2> QED
    BY <2>1, <2>2
<1>3. /\ dispatch' \in [Envelopes -> DispatchRecord]
      /\ \A e \in Envelopes : /\ dispatch'[e].status = dispatch[e].status
                              /\ dispatch'[e].attempts = dispatch[e].attempts
                              /\ dispatch'[e].recent => dispatch[e].recent
  BY <1>2, InboxTypes DEF DispatchRecord
<1>4. /\ phase' \in [Envelopes -> Phases]
      /\ \A e \in Envelopes : /\ phase'[e] = "agent" => phase[e] = "agent"
                              /\ phase'[e] \in {"queued", "begin"} =>
                                   dispatch[e].status = "pending"
  <2>1. CASE StartDispatch
    BY <2>1 DEF StartDispatch, StartDispatchOf, Queue, Phases
  <2>2. CASE StartDispatchBatch
    <3>1. PICK batch \in SUBSET In({"queued"}) :
            phase' = [e \in Envelopes |-> IF e \in batch THEN "begin" ELSE phase[e]]
      BY <2>2 DEF StartDispatchBatch
    <3> QED
      BY <3>1, InboxTypes DEF In, Phases, InboxInv, RecordsFit, RecordFits
  <2>3. CASE EndDispatch
    BY <2>3 DEF EndDispatch, Phases
  <2> QED
    BY <2>1, <2>2, <2>3
<1>5. InboxTypeOK'
  BY <1>1, <1>3, <1>4, InboxTypes DEF InboxTypeOK, DispatchRecord
<1>6. RecordsFit'
  BY <1>3, <1>4 DEF InboxInv, RecordsFit, RecordFits
<1>7. QueuedIsStored' /\ OneReply'
  BY <1>1, <1>3 DEF InboxInv, QueuedIsStored, OneReply
<1>8. LoopBudgetKept'
  BY <1>3, BudgetShrinks
<1> QED
  BY <1>5, <1>6, <1>7, <1>8 DEF InboxInv

(* The process dies, perhaps between the two writes of sendMessage. *)
LEMMA InboxForgetKeeps ==
  ASSUME InboxInv, ForgetDispatch, stored' \subseteq Envelopes, stored \subseteq stored'
  PROVE  InboxInv'
<1>1. /\ phase' = [e \in Envelopes |-> "idle"] /\ replying' = {}
      /\ inboxFaults' \in 0..MaxInboxFaults /\ UNCHANGED <<dispatch, replies>>
  BY InboxTypes, InboxAssumption DEF ForgetDispatch
<1>2. InboxTypeOK'
  BY <1>1 DEF InboxInv, InboxTypeOK, Phases
<1>3. RecordsFit' /\ QueuedIsStored'
  BY <1>1 DEF InboxInv, RecordsFit, RecordFits, QueuedIsStored
<1>4. LoopBudgetKept'
  BY <1>1, BudgetShrinks
<1>5. OneReply'
  <2> SUFFICES ASSUME NEW e \in Envelopes
               PROVE  LET n == replies[e] + 0
                      IN  n <= 1 /\ (n = 1 => /\ dispatch[e].status = "succeeded"
                                              /\ e \in Answerable)
    BY <1>1 DEF OneReply
  <2>1. LET n == replies[e] + (IF e \in replying THEN 1 ELSE 0)
        IN  n <= 1 /\ (n = 1 => dispatch[e].status = "succeeded" /\ e \in Answerable)
    BY DEF InboxInv, OneReply
  <2>2. replies[e] \in Nat
    BY InboxTypes
  <2> QED
    BY <2>1, <2>2
<1> QED
  BY <1>2, <1>3, <1>4, <1>5 DEF InboxInv

(* Every step of the inbox keeps the invariant. *)
LEMMA InboxStepInv == InboxInv /\ [InboxNext]_inboxVars => InboxInv'
<1> SUFFICES ASSUME InboxInv, [InboxNext]_inboxVars PROVE InboxInv'
  OBVIOUS
<1>1. CASE UNCHANGED inboxVars
  <2>1. UNCHANGED <<stored, dispatch, phase, replying, replies, inboxFaults>>
    BY <1>1 DEF inboxVars
  <2>2. LoopBudgetKept'
    BY <2>1, BudgetShrinks
  <2> QED
    BY <2>1, <2>2 DEF InboxInv, InboxTypeOK, RecordsFit, QueuedIsStored, OneReply
<1>2. ASSUME NEW e \in Envelopes, Accept(e) \/ AcceptHalfway(e) PROVE InboxInv'
  BY <1>2, AcceptKeeps
<1>3. ASSUME NEW e \in Envelopes, Begin(e) \/ RunEnds(e) \/ RecordWriteFails(e) \/ SendReply(e)
      PROVE  InboxInv'
  BY <1>3, BeginKeeps, AgentTurnKeeps, RecordWriteFailsKeeps, SendReplyKeeps
<1>4. CASE StartDispatch \/ StartDispatchBatch \/ EndDispatch
  BY <1>4, DrainKeeps
<1>5. CASE InboxCrash
  BY <1>5, InboxForgetKeeps, InboxTypes DEF InboxCrash
<1>6. ASSUME NEW e \in Envelopes, CrashInAccept(e) PROVE InboxInv'
  BY <1>6, InboxForgetKeeps, InboxTypes DEF CrashInAccept, Save
<1> QED
  BY <1>1, <1>2, <1>3, <1>4, <1>5, <1>6 DEF InboxNext, DispatchNext

-----------------------------------------------------------------------------
(* The inductive invariant holds in every state of the inbox. *)
THEOREM InboxInvariant == InboxSafety => []InboxInv
  BY InboxInitInv, InboxStepInv, PTL DEF InboxSafety

(* Records, phases and replies keep their types: no record counts more runs
   than maxAttempts. *)
THEOREM InboxTypeCorrect == InboxSafety => []InboxTypeOK
<1>1. InboxInv => InboxTypeOK
  BY DEF InboxInv
<1> QED
  BY <1>1, InboxInvariant, PTL

(* sendMessage stores an envelope before it queues it: whatever write fails or
   process dies in between, an agent is only handed what the thread holds. *)
THEOREM OnlyStoredIsQueued == InboxSafety => []QueuedIsStored
<1>1. InboxInv => QueuedIsStored
  BY DEF InboxInv
<1> QED
  BY <1>1, InboxInvariant, PTL

(* The loop budget of a thread holds for every budget and batch size, also for
   envelopes that start together. *)
THEOREM LoopBudgetHolds == InboxSafety => []LoopBudgetKept
<1>1. InboxInv => LoopBudgetKept
  BY DEF InboxInv
<1> QED
  BY <1>1, InboxInvariant, PTL

(* An envelope is answered once at most, whatever is retried or lost. *)
THEOREM OneReplyHolds == InboxSafety => []OneReply
<1>1. InboxInv => OneReply
  BY DEF InboxInv
<1> QED
  BY <1>1, InboxInvariant, PTL

(* A record that has an outcome keeps it: no drain that lists, ends or dies
   late writes over it. *)
THEOREM OutcomesAreFinal == InboxSafety => OutcomeIsFinal
<1> DEFINE Final == \A e \in Envelopes : dispatch[e].status \in Settled =>
                                           dispatch'[e].status = dispatch[e].status
<1>1. InboxInv /\ [InboxNext]_inboxVars => [Final]_inboxVars
  <2> SUFFICES ASSUME InboxInv, InboxNext, NEW e \in Envelopes,
                      dispatch[e].status \in Settled
               PROVE  dispatch'[e].status = dispatch[e].status
    OBVIOUS
  <2>1. /\ dispatch \in [Envelopes -> DispatchRecord]
        /\ phase[e] \notin {"begin", "agent"}
    BY InboxTypes DEF InboxInv, RecordsFit, RecordFits, Settled
  <2>2. ASSUME NEW k \in Envelopes, Accept(k)
        PROVE  dispatch'[e].status = dispatch[e].status
    BY <2>1, <2>2 DEF Accept, QueueDispatch, DispatchRecord, Settled
  <2>3. ASSUME NEW k \in Envelopes, Begin(k) \/ RunEnds(k)
        PROVE  dispatch'[e].status = dispatch[e].status
    <3>1. k # e
      BY <2>1, <2>3
      DEF Begin, BeginIgnored, BeginUnresolved, BeginSuppressed, BeginRun,
          RunEnds, RunSucceeds, RunFails
    <3>2. dispatch'[e] = dispatch[e]
      BY <2>1, <2>3, <3>1
      DEF Begin, BeginIgnored, BeginUnresolved, BeginSuppressed, BeginRun, MarkTerminal,
          RunEnds, RunSucceeds, RunFails
    <3> QED
      BY <3>2
  <2>4. CASE StartDispatch
    BY <2>1, <2>4 DEF StartDispatch, StartDispatchOf, DispatchRecord
  <2>5. ASSUME \/ \E k \in Envelopes : \/ AcceptHalfway(k) \/ CrashInAccept(k)
                                       \/ RecordWriteFails(k) \/ SendReply(k)
               \/ StartDispatchBatch \/ EndDispatch \/ InboxCrash
        PROVE  dispatch' = dispatch
    BY <2>5 DEF AcceptHalfway, CrashInAccept, RecordWriteFails, SendReply,
                StartDispatchBatch, EndDispatch, InboxCrash, ForgetDispatch
  <2> QED
    BY <2>2, <2>3, <2>4, <2>5 DEF InboxNext, DispatchNext
<1> QED
  BY <1>1, InboxInvariant, PTL DEF InboxSafety, OutcomeIsFinal
=============================================================================
