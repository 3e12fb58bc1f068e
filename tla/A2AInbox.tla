------------------------------ MODULE A2AInbox ------------------------------
(***************************************************************************)
(* The receiving half of agent-to-agent messaging: the thread store, the   *)
(* dispatch records and the processor that hands stored envelopes to the   *)
(* addressed agent (src/src/a2a/store.ts, runtime.ts, inbound-pipeline.ts, *)
(* a2a-inbox-dispatch-store.ts, a2a-inbox-dispatcher.ts).                  *)
(*                                                                         *)
(* An element of Envelopes is one idempotency key: thread, envelope id and *)
(* sender instance.  One drain at a time (the running flag, which is up    *)
(* exactly while some phase is not "idle") works through the due records   *)
(* in batches; the agent's turn is the only await of a record.             *)
(*                                                                         *)
(* Time is abstracted as in A2AOutbox: a drain reads the clock once, when  *)
(* it starts.  It finds due any set of pending records that holds those    *)
(* never run yet, and any of the past starts may have left the loop        *)
(* window since; within a drain the window does not move.                  *)
(***************************************************************************)
EXTENDS Naturals, FiniteSets

CONSTANTS Envelopes,
          Threads, ThreadOf,   \* envelope.thread_id
          NotDispatched,       \* intent ack or policy.update
          Unresolvable,        \* the recipient is no local agent
          Answerable,          \* intent chat without parent_message_id
          MaxRuns,             \* item.maxAttempts of a dispatch record
          DispatchConcurrency, \* A2A_INBOX_DISPATCH_CONCURRENCY
          LoopMaxPerThread,    \* A2A_INBOX_DISPATCH_LOOP_MAX_PER_THREAD
          MaxInboxFaults       \* bound: crashes and failed writes of this gateway

ASSUME InboxAssumption ==
  /\ ThreadOf \in [Envelopes -> Threads]
  /\ NotDispatched \subseteq Envelopes /\ Unresolvable \subseteq Envelopes
  /\ Answerable \subseteq Envelopes
  /\ MaxRuns \in Nat \ {0} /\ DispatchConcurrency \in Nat \ {0}
  /\ LoopMaxPerThread \in Nat /\ MaxInboxFaults \in Nat
  /\ IsFiniteSet(Envelopes)

VARIABLES
  stored,    \* envelopes the thread store holds
  dispatch,  \* dispatch[e]: the persisted dispatch record
  phase,     \* phase[e]: how far the running drain is with e
  replying,  \* replies the process is about to send
  replies,   \* replies[e]: replies sent to e
  inboxFaults

inboxVars == <<stored, dispatch, phase, replying, replies, inboxFaults>>

DispatchStatuses ==
  {"none", "pending", "running", "succeeded", "failed", "ignored", "suppressed"}
Settled == {"succeeded", "failed", "ignored", "suppressed"}
Phases == {"idle", "queued", "begin", "agent", "settled"}

InboxTypeOK ==
  /\ stored \subseteq Envelopes
  /\ dispatch \in [Envelopes -> [status: DispatchStatuses, attempts: 0..MaxRuns,
                                 recent: BOOLEAN]]
  /\ phase \in [Envelopes -> Phases]
  /\ replying \subseteq Envelopes
  /\ replies \in [Envelopes -> Nat]
  /\ inboxFaults \in 0..MaxInboxFaults

InboxInit ==
  /\ stored = {}
  /\ dispatch = [e \in Envelopes |->
                   [status |-> "none", attempts |-> 0, recent |-> FALSE]]
  /\ phase = [e \in Envelopes |-> "idle"]
  /\ replying = {}
  /\ replies = [e \in Envelopes |-> 0]
  /\ inboxFaults = 0

-----------------------------------------------------------------------------
(* saveA2AEnvelope refuses what its thread already holds; sendMessage then
   queues the envelope for dispatch, in a write of its own. *)
Save(e) == e \notin stored /\ stored' = stored \cup {e}

QueueDispatch(e) ==
  dispatch' = [dispatch EXCEPT ![e].status = IF @ = "none" THEN "pending" ELSE @]

Accept(e) ==
  /\ Save(e) /\ QueueDispatch(e)
  /\ UNCHANGED <<phase, replying, replies, inboxFaults>>

(* Mutant of AcceptHalfway: queued first, and the thread write fails. *)
QueueHalfway(e) ==
  /\ inboxFaults < MaxInboxFaults
  /\ e \notin stored /\ QueueDispatch(e)
  /\ inboxFaults' = inboxFaults + 1
  /\ UNCHANGED <<stored, phase, replying, replies>>

(* The second write fails: the envelope is stored and not queued. *)
AcceptHalfway(e) ==
  /\ inboxFaults < MaxInboxFaults
  /\ Save(e)
  /\ inboxFaults' = inboxFaults + 1
  /\ UNCHANGED <<dispatch, phase, replying, replies>>

-----------------------------------------------------------------------------
In(phases) == {e \in Envelopes : phase[e] \in phases}
(* Mutant of Queue: given-up records are listed as well. *)
QueueWithFailed == {e \in Envelopes : dispatch[e].status \in {"pending", "failed"}}

Queue == {e \in Envelopes : dispatch[e].status = "pending"}
NeverRun == {e \in Queue : dispatch[e].attempts = 0}

(* drainA2AInboxDispatch up to the first batch; `aged` are the starts that
   left the loop window since the previous drain read the clock. *)
StartDispatchOf(due, aged) ==
  /\ In(Phases \ {"idle"}) = {}
  /\ due # {}
  /\ NeverRun \subseteq due /\ due \subseteq Queue
  /\ phase' = [e \in Envelopes |-> IF e \in due THEN "queued" ELSE "idle"]
  /\ dispatch' = [e \in Envelopes |->
                    IF e \in aged THEN [dispatch[e] EXCEPT !.recent = FALSE]
                    ELSE dispatch[e]]
  /\ UNCHANGED <<stored, replying, replies, inboxFaults>>

Recent == {e \in Envelopes : dispatch[e].recent}

StartDispatch ==
  \E due \in SUBSET Queue, aged \in SUBSET Recent : StartDispatchOf(due, aged)

StartDispatchBatch ==
  /\ In({"begin", "agent"}) = {}
  /\ \E batch \in SUBSET In({"queued"}) \ {{}} :
       /\ \/ Cardinality(batch) = DispatchConcurrency
          \/ Cardinality(batch) < DispatchConcurrency /\ batch = In({"queued"})
       /\ phase' = [e \in Envelopes |-> IF e \in batch THEN "begin" ELSE phase[e]]
  /\ UNCHANGED <<stored, dispatch, replying, replies, inboxFaults>>

(* recentDispatchedThreadCount: the other records of the thread that run or
   ran to success, started within the window. *)
Spent(t) == {e \in Envelopes : /\ ThreadOf[e] = t
                               /\ dispatch[e].status \in {"running", "succeeded"}
                               /\ dispatch[e].recent}

(* Mutant of Suppressed: the budget is compared with > instead of >=. *)
SuppressedLate(e) ==
  \/ LoopMaxPerThread < 1
  \/ Cardinality(Spent(ThreadOf[e]) \ {e}) > LoopMaxPerThread

Suppressed(e) ==
  \/ LoopMaxPerThread < 1
  \/ Cardinality(Spent(ThreadOf[e]) \ {e}) >= LoopMaxPerThread

MarkTerminal(e, status) ==
  /\ dispatch' = [dispatch EXCEPT ![e].status = status]
  /\ phase' = [phase EXCEPT ![e] = "settled"]
  /\ UNCHANGED <<stored, replying, replies, inboxFaults>>

(* processA2AInboxDispatchItem up to the agent's turn: no await in between. *)
BeginIgnored(e) ==
  /\ phase[e] = "begin"
  /\ e \in NotDispatched
  /\ MarkTerminal(e, "ignored")

BeginUnresolved(e) ==
  /\ phase[e] = "begin"
  /\ e \in Unresolvable \ NotDispatched
  /\ MarkTerminal(e, "failed")

BeginSuppressed(e) ==
  /\ phase[e] = "begin"
  /\ e \notin NotDispatched \cup Unresolvable
  /\ Suppressed(e)
  /\ MarkTerminal(e, "suppressed")

BeginRun(e) ==
  /\ phase[e] = "begin"
  /\ e \notin NotDispatched \cup Unresolvable
  /\ ~Suppressed(e)
  /\ dispatch' = [dispatch EXCEPT ![e] =
                    [status |-> "running", attempts |-> @.attempts + 1,
                     recent |-> TRUE]]
  /\ phase' = [phase EXCEPT ![e] = "agent"]
  /\ UNCHANGED <<stored, replying, replies, inboxFaults>>

(* The agent's turn is over.  A reply is due to an answerable envelope when
   the agent produced text. *)
RunSucceeds(e) ==
  /\ phase[e] = "agent"
  /\ dispatch' = [dispatch EXCEPT ![e].status = "succeeded"]
  /\ phase' = [phase EXCEPT ![e] = "settled"]
  /\ \E text \in BOOLEAN :
       replying' = IF text /\ e \in Answerable THEN replying \cup {e} ELSE replying
  /\ UNCHANGED <<stored, replies, inboxFaults>>

(* Mutants of RunFails: one run too many, and an answer to a failed run. *)
RunFailsTooOften(e) ==
  /\ phase[e] = "agent"
  /\ dispatch' = [dispatch EXCEPT ![e].status =
                    IF dispatch[e].attempts <= MaxRuns THEN "pending" ELSE "failed"]
  /\ phase' = [phase EXCEPT ![e] = "settled"]
  /\ UNCHANGED <<stored, replying, replies, inboxFaults>>

RunFailsAnswered(e) ==
  /\ phase[e] = "agent"
  /\ dispatch' = [dispatch EXCEPT ![e].status =
                    IF dispatch[e].attempts < MaxRuns THEN "pending" ELSE "failed"]
  /\ phase' = [phase EXCEPT ![e] = "settled"]
  /\ replying' = replying \cup {e}
  /\ UNCHANGED <<stored, replies, inboxFaults>>

RunFails(e) ==
  /\ phase[e] = "agent"
  /\ dispatch' = [dispatch EXCEPT ![e].status =
                    IF dispatch[e].attempts < MaxRuns THEN "pending" ELSE "failed"]
  /\ phase' = [phase EXCEPT ![e] = "settled"]
  /\ UNCHANGED <<stored, replying, replies, inboxFaults>>

(* A write of the record fails, the one that starts the run or both of those
   that would end it (an error of the first one counts as a failed run): the
   record stays as it is, "running" included. *)
RecordWriteFails(e) ==
  /\ phase[e] \in {"begin", "agent"}
  /\ inboxFaults < MaxInboxFaults
  /\ inboxFaults' = inboxFaults + 1
  /\ phase' = [phase EXCEPT ![e] = "settled"]
  /\ UNCHANGED <<stored, dispatch, replying, replies>>

(* enqueueA2AReply, which nothing waits for: the reply enters this gateway's
   own outbox, or the error is only logged. *)
SendReply(e) ==
  /\ e \in replying
  /\ replying' = replying \ {e}
  /\ \E sent \in {0, 1} : replies' = [replies EXCEPT ![e] = @ + sent]
  /\ UNCHANGED <<stored, dispatch, phase, inboxFaults>>

(* Mutant of EndDispatch: the running flag stays up. *)
EndDispatchNever == FALSE /\ UNCHANGED inboxVars

EndDispatch ==
  /\ In({"settled"}) # {}
  /\ In({"queued", "begin", "agent"}) = {}
  /\ phase' = [e \in Envelopes |-> "idle"]
  /\ UNCHANGED <<stored, dispatch, replying, replies, inboxFaults>>

(* The process dies, or exits some time after stopA2AInboxDispatchProcessor (no
   drain starts in between).  The next one lists pending records only, so a
   record left "running" is never looked at again. *)
ForgetDispatch ==
  /\ inboxFaults < MaxInboxFaults
  /\ inboxFaults' = inboxFaults + 1
  /\ phase' = [e \in Envelopes |-> "idle"]
  /\ replying' = {}
  /\ UNCHANGED <<dispatch, replies>>

InboxCrash == ForgetDispatch /\ UNCHANGED stored

CrashInAccept(e) == ForgetDispatch /\ Save(e)

Begin(e) == BeginIgnored(e) \/ BeginUnresolved(e) \/ BeginSuppressed(e) \/ BeginRun(e)

RunEnds(e) == RunSucceeds(e) \/ RunFails(e)

DispatchNext ==
  \/ StartDispatch \/ StartDispatchBatch \/ EndDispatch \/ InboxCrash
  \/ \E e \in Envelopes :
       Begin(e) \/ RunEnds(e) \/ RecordWriteFails(e) \/ SendReply(e)

InboxNext ==
  \/ \E e \in Envelopes : Accept(e) \/ AcceptHalfway(e) \/ CrashInAccept(e)
  \/ DispatchNext

InboxSafety == InboxInit /\ [][InboxNext]_inboxVars

(* The interval keeps starting drains and the back-off of a pending record is
   capped; an agent's turn ends, with a result, an error or its timeout. *)
DispatchFairness ==
  /\ WF_inboxVars(StartDispatchBatch) /\ WF_inboxVars(EndDispatch)
  /\ \A e \in Envelopes : WF_inboxVars(Begin(e)) /\ WF_inboxVars(RunEnds(e))
  /\ \A e \in Envelopes :
       SF_inboxVars(\E due \in SUBSET Queue, aged \in SUBSET Recent :
                 e \in due /\ StartDispatchOf(due, aged))

InboxSpec == InboxSafety /\ DispatchFairness

-----------------------------------------------------------------------------
(* Only what the thread store holds is ever handed to an agent: the order of
   the two writes of sendMessage. *)
QueuedIsStored == \A e \in Envelopes : dispatch[e].status # "none" => e \in stored

(* At most LoopMaxPerThread envelopes of one thread run or ran to success
   within a window of the processor's clock, counting the ones that start
   together in a batch and the ones a retry starts again. *)
LoopBudgetKept == \A t \in Threads : Cardinality(Spent(t)) <= LoopMaxPerThread

(* An envelope is answered once at most, and only if its run succeeded. *)
OneReply ==
  \A e \in Envelopes :
    LET n == replies[e] + (IF e \in replying THEN 1 ELSE 0)
    IN  n <= 1 /\ (n = 1 => dispatch[e].status = "succeeded" /\ e \in Answerable)

(* No record is touched again once it has an outcome. *)
OutcomeIsFinal ==
  [][\A e \in Envelopes : dispatch[e].status \in Settled =>
                            dispatch'[e].status = dispatch[e].status]_inboxVars

(* Every queued envelope gets an outcome, unless a crash or a failing write
   leaves its record "running" when no agent works on it. *)
Orphaned(e) == dispatch[e].status = "running" /\ phase[e] # "agent"

EveryDispatchSettles ==
  \A e \in Envelopes : dispatch[e].status = "pending" ~>
                          dispatch[e].status \in Settled \/ Orphaned(e)
=============================================================================
