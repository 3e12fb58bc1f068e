--------------------------- MODULE ProactiveQueue ---------------------------
(***************************************************************************)
(* The queue of proactive messages (src/src/memory/proactive-queue.ts) and *)
(* the three that work on it: everybody who enqueues, the minutely flush   *)
(* of the gateway (flushQueuedProactiveMessages in gateway/gateway.ts) and *)
(* the terminal UI, which polls for its own rows.                          *)
(*                                                                         *)
(* Rows are known by their id, which AUTOINCREMENT never uses again; order *)
(* in the table is order of ids.  A flush works from the rows it listed    *)
(* and awaits each send; nothing keeps the next tick from starting another *)
(* one meanwhile.  What is sent at once, past the queue, is left out.      *)
(***************************************************************************)
EXTENDS Naturals, FiniteSets, FiniteSetsExt

CONSTANTS Flushes,            \* identities for flushes that overlap (a bound)
          QueueLimits,        \* maxQueueSize of the callers: 100 or 500
          FlushLimit,         \* MAX_QUEUED_PROACTIVE_MESSAGES
          ClaimLimit,         \* TUI_PROACTIVE_PULL_LIMIT
          Kinds,              \* kinds of channels messages are for
          MaxMessages,        \* bound: messages ever enqueued
          MaxQueueFaults      \* bound: failing sends, failing deletes, crashes

ASSUME ProactiveAssumption ==
  /\ IsFiniteSet(Flushes)
  /\ QueueLimits \subseteq Nat \ {0} /\ IsFiniteSet(QueueLimits) /\ QueueLimits # {}
  /\ FlushLimit \in Nat \ {0} /\ ClaimLimit \in Nat \ {0}
  /\ Kinds \subseteq {"push", "line", "pull", "unsupported"}
  /\ MaxMessages \in Nat /\ MaxQueueFaults \in Nat

VARIABLES
  activeHours,  \* isWithinActiveHours()
  database,     \* "open"; "closed" by the shutdown; "reopened" after that
  lastId,       \* the newest row ever
  kind,         \* kind[m]: what its channel is to the queue
  queue,        \* table proactive_message_queue
  flush,        \* flush[f]: the row being sent (0: f is not running) and those
                \*   listed after it
  tried,        \* tried[m]: sends that ended, delivered or swallowed
  claimed,      \* rows handed to the terminal UI
  evicted,      \* rows deleted to make room
  interrupted,  \* auxiliary: rows in the hands of a flush that could not delete
  queueFaults

table == <<lastId, kind, queue, claimed, evicted>>
proactiveVars == <<activeHours, database, table, flush, tried, interrupted, queueFaults>>

(* A send to a "push" channel swallows its errors, one to LINE throws them. *)
Immediate == {"push", "line"}
Messages == 1..MaxMessages
Idle == [item |-> 0, rest |-> {}]

ProactiveTypeOK ==
  /\ activeHours \in BOOLEAN
  /\ database \in {"open", "closed", "reopened"}
  /\ lastId \in 0..MaxMessages
  /\ kind \in [Messages -> Kinds \cup {"none"}]
  /\ queue \subseteq 1..lastId /\ Cardinality(queue) <= Max(QueueLimits)
  /\ flush \in [Flushes -> [item : 0..MaxMessages, rest : SUBSET Messages]]
  /\ tried \in [Messages -> Nat]
  /\ claimed \subseteq Messages /\ evicted \subseteq Messages
  /\ interrupted \subseteq Messages
  /\ queueFaults \in 0..MaxQueueFaults

ProactiveInit ==
  /\ activeHours = TRUE /\ database = "open"
  /\ lastId = 0
  /\ kind = [m \in Messages |-> "none"]
  /\ queue = {} /\ claimed = {} /\ evicted = {} /\ interrupted = {}
  /\ flush = [f \in Flushes |-> Idle]
  /\ tried = [m \in Messages |-> 0]
  /\ queueFaults = 0

Fault == /\ queueFaults < MaxQueueFaults
         /\ queueFaults' = queueFaults + 1

(* ensureDatabaseReady, first of all in every operation on the table. *)
Touch == database' = IF database = "closed" THEN "reopened" ELSE database

(* SELECT ... ORDER BY id ASC LIMIT n *)
Oldest(S, n) == {m \in S : Cardinality({k \in S : k < m}) < n}

-----------------------------------------------------------------------------
(* Mutant of Surplus: the limit is compared before the insertion. *)
SurplusLate(q, limit) ==
  Oldest(q, IF Cardinality(q) > limit + 1 THEN Cardinality(q) - limit - 1 ELSE 0)

(* What enqueue deletes, the new row counted. *)
Surplus(q, limit) ==
  Oldest(q, IF Cardinality(q) > limit THEN Cardinality(q) - limit ELSE 0)

Enqueue(k, limit) ==
  LET m == lastId + 1
      q == queue \cup {m}
  IN  /\ database = "open" /\ lastId < MaxMessages
      /\ lastId' = m
      /\ kind' = [kind EXCEPT ![m] = k]
      /\ queue' = q \ Surplus(q, limit)
      /\ evicted' = evicted \cup Surplus(q, limit)
      /\ UNCHANGED <<activeHours, database, flush, tried, claimed, interrupted,
                     queueFaults>>

(* GET /api/proactive/pull: one transaction. *)
Claim ==
  LET rows == Oldest({m \in queue : kind[m] = "pull"}, ClaimLimit)
  IN  /\ database = "open" /\ rows # {}
      /\ queue' = queue \ rows
      /\ claimed' = claimed \cup rows
      /\ UNCHANGED <<activeHours, database, lastId, kind, flush, tried, evicted,
                     interrupted, queueFaults>>

-----------------------------------------------------------------------------
(* Mutant of Proceed: a row that somebody has to pull ends the loop. *)
ProceedToPull(f, todo, q) ==
  LET stop == {m \in todo : kind[m] # "unsupported"}
      next == IF stop = {} THEN 0 ELSE Min(stop)
      item == IF next # 0 /\ kind[next] = "pull" THEN 0 ELSE next
  IN  IF ~activeHours
      THEN queue' = q /\ flush' = [flush EXCEPT ![f] = Idle]
      ELSE /\ queue' = q \ {m \in todo : kind[m] = "unsupported" /\ (next = 0 \/ m < next)}
           /\ flush' = [flush EXCEPT ![f] =
                IF item = 0 THEN Idle
                ELSE [item |-> item, rest |-> {m \in todo : m > item}]]

(* Mutant of Proceed: the row is deleted before it is sent. *)
ProceedDeleting(f, todo, q) ==
  LET sendable == {m \in todo : kind[m] \in Immediate}
      next     == IF sendable = {} THEN 0 ELSE Min(sendable)
  IN  IF ~activeHours \/ next = 0
      THEN queue' = q /\ flush' = [flush EXCEPT ![f] = Idle]
      ELSE /\ queue' = q \ {next}
           /\ flush' = [flush EXCEPT ![f] =
                          [item |-> next, rest |-> {m \in todo : m > next}]]

(* The loop of flush f over the rows todo, from table q, up to its next await:
   rows without a delivery path are dropped, those to be pulled are passed. *)
Proceed(f, todo, q) ==
  LET sendable == {m \in todo : kind[m] \in Immediate}
      next     == IF sendable = {} THEN 0 ELSE Min(sendable)
      passed   == {m \in todo : next = 0 \/ m < next}
      ends     == ~activeHours \/ next = 0
  IN  /\ queue' = IF activeHours THEN q \ {m \in passed : kind[m] = "unsupported"} ELSE q
      /\ flush' = [flush EXCEPT ![f] =
                     IF ends THEN Idle
                     ELSE [item |-> next, rest |-> todo \ (passed \cup {next})]]

(* A tick of the timer, or the start of the gateway. *)
StartFlush(f) ==
  /\ flush[f] = Idle
  /\ activeHours
  /\ Touch
  /\ Proceed(f, Oldest(queue, FlushLimit), queue)
  /\ UNCHANGED <<activeHours, lastId, kind, tried, claimed, evicted, interrupted,
                 queueFaults>>

Sending(f, m) == flush[f].item = m /\ m # 0

(* Mutant of SendEnds: the row stays. *)
SendEndsKeeping(f, m) ==
  /\ tried' = [tried EXCEPT ![m] = @ + 1]
  /\ Proceed(f, flush[f].rest, queue)

(* sendProactiveMessageNow returns: delivered, or it swallowed the error, or the
   channel is switched off. *)
SendEnds(f, m) ==
  /\ tried' = [tried EXCEPT ![m] = @ + 1]
  /\ Proceed(f, flush[f].rest, queue \ {m})

Sent(f) == \E m \in Messages :
  /\ Sending(f, m) /\ SendEnds(f, m)
  /\ Touch
  /\ UNCHANGED <<activeHours, lastId, kind, claimed, evicted, interrupted, queueFaults>>

(* Mutant of Throws: the loop goes on with the next row. *)
ThrowsAndGoesOn(f) == Proceed(f, flush[f].rest, queue)

(* The error leaves the loop; the timer logs it. *)
Throws(f) == flush' = [flush EXCEPT ![f] = Idle] /\ UNCHANGED queue

SendThrows(f) == \E m \in Messages :
  /\ Fault /\ Sending(f, m) /\ kind[m] = "line"
  /\ Throws(f)
  /\ UNCHANGED <<activeHours, database, lastId, kind, tried, claimed, evicted, interrupted>>

(* Delivered, but the row cannot be deleted. *)
DeleteFails(f) == \E m \in Messages :
  /\ Fault /\ Sending(f, m)
  /\ tried' = [tried EXCEPT ![m] = @ + 1]
  /\ interrupted' = interrupted \cup {m}
  /\ flush' = [flush EXCEPT ![f] = Idle]
  /\ Touch
  /\ UNCHANGED <<activeHours, table>>

(* The process is gone and the next one starts; whatever was being sent may have
   arrived. *)
Restart ==
  LET held == {flush[f].item : f \in Flushes} \ {0}
  IN  /\ database' = "open"
      /\ \E arrived \in SUBSET held :
           tried' = [m \in Messages |-> IF m \in arrived THEN tried[m] + 1 ELSE tried[m]]
      /\ interrupted' = interrupted \cup held
      /\ flush' = [f \in Flushes |-> Idle]
      /\ UNCHANGED <<activeHours, table>>

Die == Fault /\ Restart

(* shutdown closes the database and goes on to await two more steps; the timer of
   the flush is cleared only after them.  The callers that enqueue and the HTTP
   server are taken to be stopped by then. *)
CloseDatabase ==
  /\ Fault /\ database = "open"
  /\ database' = "closed"
  /\ UNCHANGED <<activeHours, table, flush, tried, interrupted>>

Exit == database # "open" /\ Restart /\ UNCHANGED queueFaults

HoursChange ==
  /\ activeHours' = ~activeHours
  /\ UNCHANGED <<database, table, flush, tried, interrupted, queueFaults>>

ProactiveNext ==
  \/ \E k \in Kinds, limit \in QueueLimits : Enqueue(k, limit)
  \/ Claim \/ Die \/ CloseDatabase \/ Exit \/ HoursChange
  \/ \E f \in Flushes : StartFlush(f) \/ Sent(f) \/ SendThrows(f) \/ DeleteFails(f)

ProactiveSafety == ProactiveInit /\ [][ProactiveNext]_proactiveVars

(* Sends and shutdowns end; active hours come round every day and last for many
   ticks of the timer.  Nothing is assumed of the terminal UI. *)
ProactiveSpec ==
  /\ ProactiveSafety
  /\ WF_proactiveVars(~activeHours /\ HoursChange)
  /\ SF_proactiveVars(\E f \in Flushes : StartFlush(f))
  /\ \A f \in Flushes : WF_proactiveVars(Sent(f))
  /\ WF_proactiveVars(Exit)

-----------------------------------------------------------------------------
Gone == (1..lastId) \ queue

(* A message leaves the queue because a send of it has ended, because the UI has
   it, because nothing can deliver it, or to make room for newer ones; never in a
   crash or between two flushes. *)
NothingVanishes ==
  \A m \in Gone : \/ tried[m] > 0 \/ m \in claimed \/ kind[m] = "unsupported"
                  \/ m \in evicted /\ lastId >= m + Min(QueueLimits)

(* What was sent is sent a second time only by a flush that had listed it before:
   later ones do not find it, unless the delete failed or the process died. *)
SentIsNotListed ==
  \A m \in queue : tried[m] > 0 => m \in interrupted

(* Overlapping flushes, failures and crashes keep the order: when the first send
   of a message ends, every older message that can be sent has had its turn or
   was evicted. *)
SentInOrder ==
  \A m, n \in 1..lastId :
    m < n /\ kind[m] \in Immediate /\ kind[n] \in Immediate /\ tried[n] > 0 =>
      tried[m] > 0 \/ m \in evicted

(* A message the queue can deliver, or cannot deliver at all, does not stay in it,
   with one exception: the flush lists the oldest FlushLimit rows, and as many rows
   that nobody pulls may stand before it (callers with the higher limit queue
   more rows than a flush looks at). *)
Buried(m) == Cardinality({n \in queue : n < m /\ kind[n] = "pull"}) >= FlushLimit

NothingIsStuck ==
  \A m \in Messages :
    []<>~(m \in queue /\ kind[m] # "pull" /\ ~Buried(m))

(* The promise of a comment in the code: when the shutdown closes the database,
   every writer is stopped, so that no write-ahead log is left behind. *)
ClosedForGood == database # "reopened"
=============================================================================
