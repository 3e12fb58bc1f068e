----------------------------- MODULE A2AOutbox -----------------------------
(***************************************************************************)
(* The sending half of agent-to-agent messaging: the persisted outbox and  *)
(* the processor that drains it (src/src/a2a/a2a-outbox-persistence.ts,    *)
(* a2a-outbox-processor.ts, a2a-outbox-delivery.ts).                       *)
(*                                                                         *)
(* An outbox item is a file-backed record.  A drain lists the due pending  *)
(* items once, and works through that SNAPSHOT in batches; every write of  *)
(* an attempt is `{...item, changes}` over the snapshot, never over the    *)
(* record as it is when the write happens.  What a process holds in memory *)
(* (the running flag, the drains) is lost in a crash, the records are not. *)
(*                                                                         *)
(* Time is abstracted: a drain finds any set of pending items due, as long *)
(* as it holds those never tried yet (they are due since their creation).  *)
(***************************************************************************)
EXTENDS Naturals, FiniteSets

CONSTANTS Items,        \* outbox items: enqueue draws a fresh uuid for each
          Sessions,     \* sessions the items are sent from
          SessionOf,    \* resolveItemSessionId
          Drains,       \* drains that could be executing at one time
          MaxAttempts,  \* item.maxAttempts
          Concurrency,  \* A2A_OUTBOX_CONCURRENCY
          MaxPending,   \* INTERACTION_SESSION_MAX_PENDING
          MaxFaults,    \* bound: crashes, shutdowns and failed writes of this gateway
          None

ASSUME OutboxAssumption ==
  /\ SessionOf \in [Items -> Sessions]
  /\ MaxAttempts \in Nat \ {0}
  /\ Concurrency \in Nat \ {0}
  /\ MaxPending \in Nat \ {0}
  /\ MaxFaults \in Nat
  /\ None \notin Items
  /\ IsFiniteSet(Items)

VARIABLES
  outbox,      \* outbox[i]: the persisted record of item i
  escalation,  \* escalation[s]: the item the pending suspended session of s names
  running,     \* a2aOutboxProcessorRunning
  stage,       \* stage[d][i]: how far drain d is with item i
  snap,        \* snap[d][i]: drain d's snapshot of item i
  timer,       \* a2aOutboxProcessorTimer is armed
  faults       \* crashes, shutdowns and failed writes so far

outboxVars == <<outbox, escalation, running, stage, snap, timer, faults>>

Statuses == {"none", "pending", "delivered", "failed"}
Item == [status: Statuses, attempts: 0..MaxAttempts, resolved: BOOLEAN]
Stages == {"idle", "queued", "resolve", "card", "post", "settled"}

Absent == [status |-> "none", attempts |-> 0, resolved |-> FALSE]
InFlight == {"resolve", "card", "post"}

OutboxTypeOK ==
  /\ outbox \in [Items -> Item]
  /\ escalation \in [Sessions -> Items \cup {None}]
  /\ running \in BOOLEAN
  /\ stage \in [Drains -> [Items -> Stages]]
  /\ snap \in [Drains -> [Items -> Item]]
  /\ timer \in BOOLEAN
  /\ faults \in 0..MaxFaults

OutboxInit ==
  /\ outbox = [i \in Items |-> Absent]
  /\ escalation = [s \in Sessions |-> None]
  /\ running = FALSE
  /\ stage = [d \in Drains |-> [i \in Items |-> "idle"]]
  /\ snap = [d \in Drains |-> [i \in Items |-> Absent]]
  /\ timer = TRUE
  /\ faults = 0

-----------------------------------------------------------------------------
(* A new item.  Its Agent Card url is known, or only a canonical id that a
   drain has to resolve first. *)
Enqueue(i) ==
  /\ outbox[i].status = "none"
  /\ \E known \in BOOLEAN :
       outbox' = [outbox EXCEPT ![i] =
                    [status |-> "pending", attempts |-> 0, resolved |-> known]]
  /\ UNCHANGED <<escalation, running, stage, snap, timer, faults>>

Open(d) == \E i \in Items : stage[d][i] # "idle"
Pending == {i \in Items : outbox[i].status = "pending"}
NeverTried == {i \in Pending : outbox[i].attempts = 0}

(* Mutant of StartDrainOf: the running flag is not looked at. *)
StartDrainWhileRunning(d, due) ==
  /\ timer /\ ~Open(d)
  /\ due # {}
  /\ NeverTried \subseteq due /\ due \subseteq Pending
  /\ running' = TRUE
  /\ stage' = [stage EXCEPT ![d] =
                 [i \in Items |-> IF i \in due THEN "queued" ELSE "idle"]]
  /\ snap' = [snap EXCEPT ![d] =
                [i \in Items |-> IF i \in due THEN outbox[i] ELSE Absent]]
  /\ UNCHANGED <<outbox, escalation, timer, faults>>

(* drainA2AOutbox up to the first batch: skipped while the flag is up; lists
   the due pending items.  A drain that finds none ends where it starts. *)
StartDrainOf(d, due) ==
  /\ timer /\ ~running /\ ~Open(d)
  /\ due # {}
  /\ NeverTried \subseteq due /\ due \subseteq Pending
  /\ running' = TRUE
  /\ stage' = [stage EXCEPT ![d] =
                 [i \in Items |-> IF i \in due THEN "queued" ELSE "idle"]]
  /\ snap' = [snap EXCEPT ![d] =
                [i \in Items |-> IF i \in due THEN outbox[i] ELSE Absent]]
  /\ UNCHANGED <<outbox, escalation, timer, faults>>

StartDrain(d) == \E due \in SUBSET Pending : StartDrainOf(d, due)

At(d, stages) == {i \in Items : stage[d][i] \in stages}

(* The next slice of the list, once the whole previous batch has settled.
   An item whose card url is known skips identity resolution. *)
StartBatch(d) ==
  /\ At(d, InFlight) = {}
  /\ \E batch \in SUBSET At(d, {"queued"}) \ {{}} :
       /\ \/ Cardinality(batch) = Concurrency
          \/ Cardinality(batch) < Concurrency /\ batch = At(d, {"queued"})
       /\ stage' = [stage EXCEPT ![d] =
                      [i \in Items |-> IF i \notin batch THEN stage[d][i]
                                       ELSE IF snap[d][i].resolved
                                            THEN "card" ELSE "resolve"]]
  /\ UNCHANGED <<outbox, escalation, running, snap, timer, faults>>

(* resolveA2AItemDeliveryTarget found the peer: the url is persisted with the
   item, and the attempt goes on with that record. *)
ResolveTarget(d, i) ==
  /\ stage[d][i] = "resolve"
  /\ LET found == [snap[d][i] EXCEPT !.resolved = TRUE]
     IN  /\ outbox' = [outbox EXCEPT ![i] = found]
         /\ snap' = [snap EXCEPT ![d][i] = found]
  /\ stage' = [stage EXCEPT ![d][i] = "card"]
  /\ UNCHANGED <<escalation, running, timer, faults>>

(* The Agent Card was fetched, its key trusted, the envelope encrypted where
   the peer wants it: the request is posted. *)
PostRequest(d, i) ==
  /\ stage[d][i] = "card"
  /\ stage' = [stage EXCEPT ![d][i] = "post"]
  /\ UNCHANGED <<outbox, escalation, running, snap, timer, faults>>

-----------------------------------------------------------------------------
(* How an attempt ends: one record written over the snapshot. *)
Attempted(old, status) ==
  [status |-> status, attempts |-> old.attempts + 1, resolved |-> old.resolved]

Settle(d, i, status) ==
  /\ outbox' = [outbox EXCEPT ![i] = Attempted(snap[d][i], status)]
  /\ stage' = [stage EXCEPT ![d][i] = "settled"]
  /\ snap' = [snap EXCEPT ![d][i] = Absent]
  /\ UNCHANGED <<running, timer, faults>>

(* createSuspendedSession is keyed by the session: it replaces what that
   session still had pending, and refuses when too many are pending. *)
Escalate(i) ==
  LET waiting == {s \in Sessions : escalation[s] # None}
      s == SessionOf[i]
  IN  escalation' = IF s \notin waiting /\ Cardinality(waiting) >= MaxPending
                    THEN escalation
                    ELSE [escalation EXCEPT ![s] = i]

FailItem(d, i) == Settle(d, i, "failed") /\ Escalate(i)

(* Mutant of RetryItem: a retry asks the operator already. *)
RetryItemEscalates(d, i) == Settle(d, i, "pending") /\ Escalate(i)

RetryItem(d, i) == Settle(d, i, "pending") /\ UNCHANGED escalation

(* Mutant of RetryOrFail: the last attempt is compared with > instead of >=. *)
RetryOnceTooOften(d, i) ==
  \/ snap[d][i].attempts + 1 > MaxAttempts /\ FailItem(d, i)
  \/ snap[d][i].attempts + 1 <= MaxAttempts /\ RetryItem(d, i)

RetryOrFail(d, i) ==
  \/ snap[d][i].attempts + 1 >= MaxAttempts /\ FailItem(d, i)
  \/ snap[d][i].attempts + 1 < MaxAttempts /\ RetryItem(d, i)

(* The decision table of deliverA2AItem: an error it classifies as final, or
   one that is worth another attempt.  It can come from every await. *)
AttemptFails(d, i, decision) ==
  /\ stage[d][i] \in InFlight
  /\ \/ decision = "fail-fast" /\ FailItem(d, i)
     \/ decision = "retry" /\ RetryOrFail(d, i)

AttemptSucceeds(d, i) ==
  /\ stage[d][i] = "post"
  /\ Settle(d, i, "delivered")
  /\ UNCHANGED escalation

(* Mutant of EndDrain: the flag is not reset when the drain ends. *)
EndDrainKeepsFlag(d) ==
  /\ Open(d)
  /\ At(d, InFlight \cup {"queued"}) = {}
  /\ stage' = [stage EXCEPT ![d] = [i \in Items |-> "idle"]]
  /\ UNCHANGED <<outbox, escalation, running, snap, timer, faults>>

(* The finally of drainA2AOutbox. *)
EndDrain(d) ==
  /\ Open(d)
  /\ At(d, InFlight \cup {"queued"}) = {}
  /\ stage' = [stage EXCEPT ![d] = [i \in Items |-> "idle"]]
  /\ running' = FALSE
  /\ UNCHANGED <<outbox, escalation, snap, timer, faults>>

(* resumeWith or expireSuspendedSession: the suspended session is answered,
   or it times out.  Nothing puts the item back into the queue. *)
OperatorAnswers(s) ==
  /\ escalation[s] # None
  /\ escalation' = [escalation EXCEPT ![s] = None]
  /\ UNCHANGED <<outbox, running, stage, snap, timer, faults>>

-----------------------------------------------------------------------------
(* stopA2AOutboxProcessor, in the gateway's shutdown: the timer goes and the
   flag is reset although a drain may still wait for an answer. *)
StopProcessor ==
  /\ timer /\ faults < MaxFaults
  /\ timer' = FALSE /\ running' = FALSE
  /\ faults' = faults + 1
  /\ UNCHANGED <<outbox, escalation, stage, snap>>

(* The write that ends an attempt fails: Promise.allSettled takes the error,
   the record is as it was. *)
WriteFails(d, i) ==
  /\ stage[d][i] \in InFlight
  /\ faults < MaxFaults
  /\ faults' = faults + 1
  /\ stage' = [stage EXCEPT ![d][i] = "settled"]
  /\ snap' = [snap EXCEPT ![d][i] = Absent]
  /\ UNCHANGED <<outbox, escalation, running, timer>>

(* The process dies, or exits after its shutdown, and a new one starts: the
   records are what is left. *)
ForgetDrains ==
  /\ \/ timer /\ faults < MaxFaults /\ faults' = faults + 1
     \/ ~timer /\ faults' = faults
  /\ timer' = TRUE /\ running' = FALSE
  /\ stage' = [d \in Drains |-> [i \in Items |-> "idle"]]
  /\ snap' = [d \in Drains |-> [i \in Items |-> Absent]]

OutboxCrash == ForgetDrains /\ UNCHANGED <<outbox, escalation>>

(* failA2AItem persists the failure first and creates the escalation last. *)
CrashInFailItem(d, i) ==
  /\ stage[d][i] \in InFlight
  /\ outbox' = [outbox EXCEPT ![i] = Attempted(snap[d][i], "failed")]
  /\ ForgetDrains
  /\ UNCHANGED escalation

DrainStep(d) ==
  \/ StartBatch(d)
  \/ EndDrain(d)
  \/ \E i \in Items : ResolveTarget(d, i) \/ PostRequest(d, i)

AttemptEnds(d, i) ==
  \/ AttemptSucceeds(d, i)
  \/ \E decision \in {"retry", "fail-fast"} : AttemptFails(d, i, decision)

OutboxNext ==
  \/ \E i \in Items : Enqueue(i)
  \/ \E d \in Drains : StartDrain(d) \/ DrainStep(d)
  \/ \E d \in Drains, i \in Items :
       AttemptEnds(d, i) \/ WriteFails(d, i) \/ CrashInFailItem(d, i)
  \/ \E s \in Sessions : OperatorAnswers(s)
  \/ StopProcessor \/ OutboxCrash

OutboxSafety == OutboxInit /\ [][OutboxNext]_outboxVars

(* The five-second interval keeps starting drains, and a pending item's next
   attempt time, at most a capped back-off away, comes: some drain lists it.
   An await ends: fetch answers, fails or runs into its timeout.  A gateway
   that was shut down is started again. *)
OutboxFairness ==
  /\ WF_outboxVars(~timer /\ OutboxCrash)
  /\ \A d \in Drains : WF_outboxVars(DrainStep(d))
  /\ \A d \in Drains, i \in Items : WF_outboxVars(AttemptEnds(d, i))
  /\ \A i \in Items :
       SF_outboxVars(\E d \in Drains, due \in SUBSET Pending :
                       i \in due /\ StartDrainOf(d, due))

OutboxSpec == OutboxSafety /\ OutboxFairness

-----------------------------------------------------------------------------
(* No lost update: what a drain is about to write over is what it read when it
   listed the queue.  The running flag, which a shutdown resets early, is all
   that keeps two drains, and so two attempts of one item over the same
   snapshot, apart. *)
NoStaleWrite ==
  \A d \in Drains, i \in Items :
    stage[d][i] \in InFlight \cup {"queued"} => snap[d][i] = outbox[i]

(* An item is given up at maxAttempts, and neither before its first attempt
   nor later: a waiting item always has an attempt left, whatever crashes. *)
AttemptsWithinBudget ==
  \A i \in Items :
    /\ outbox[i].status = "pending" => outbox[i].attempts < MaxAttempts
    /\ outbox[i].status \in {"delivered", "failed"} =>
         outbox[i].attempts \in 1..MaxAttempts

(* A suspended session that asks the operator about an item asks about a
   delivery that has failed, in the session the item was sent from. *)
EscalationNamesFailure ==
  \A s \in Sessions :
    escalation[s] # None => /\ SessionOf[escalation[s]] = s
                            /\ outbox[escalation[s]].status = "failed"

(* The verdict on an item is final: no late write of another attempt turns a
   delivered item into a failed one, or back into a waiting one. *)
VerdictIsFinal ==
  [][\A i \in Items : outbox[i].status \in {"delivered", "failed"} =>
                        outbox'[i] = outbox[i]]_outboxVars

(* Every message handed to the outbox gets a verdict, through every mixture of
   failing attempts and (finitely many) faults. *)
EveryItemSettles ==
  \A i \in Items :
    outbox[i].status = "pending" ~> outbox[i].status \in {"delivered", "failed"}
=============================================================================
