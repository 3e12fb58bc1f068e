---------------------------- MODULE A2AExchange ----------------------------
(***************************************************************************)
(* One gateway's outbox talking to another gateway's inbox: A2AOutbox and  *)
(* A2AInbox joined by the HTTP request deliverA2AItem posts and            *)
(* acceptA2AJsonRpcInboundRequest answers (src/src/a2a/a2a-inbound.ts).    *)
(*                                                                         *)
(* A request may be lost (it is never taken), may arrive after its sender  *)
(* has given up on the connection or has crashed, and its answer reaches   *)
(* the sender only while that very connection is still waited for.         *)
(***************************************************************************)
EXTENDS A2AOutbox, A2AInbox

CONSTANTS EnvelopeOf,    \* item.envelope
          PolicyUpdates  \* intent policy.update

Answers == {"accepted", "duplicate", "denied", "error"}

ASSUME ExchangeAssumption ==
  /\ EnvelopeOf \in [Items -> Envelopes] /\ PolicyUpdates \subseteq Envelopes
  /\ None \notin Answers

VARIABLES
  wire,    \* requests on their way: the item, and which of its posts this is
  posts,   \* posts[i]: requests posted for item i so far
  answer   \* answer[i]: the response to the latest post of i, if it came

netVars == <<wire, posts, answer>>
exchangeVars == <<outbox, escalation, running, stage, snap, timer, faults,
                  stored, dispatch, phase, replying, replies, inboxFaults,
                  wire, posts, answer>>

ExchangeTypeOK ==
  /\ OutboxTypeOK /\ InboxTypeOK
  /\ wire \subseteq [item: Items, post: Nat]
  /\ posts \in [Items -> Nat]
  /\ answer \in [Items -> Answers \cup {None}]

Init ==
  /\ OutboxInit /\ InboxInit
  /\ wire = {}
  /\ posts = [i \in Items |-> 0]
  /\ answer = [i \in Items |-> None]

-----------------------------------------------------------------------------
(* The sender, up to the request. *)
Post(d, i) ==
  /\ PostRequest(d, i)
  /\ posts' = [posts EXCEPT ![i] = @ + 1]
  /\ wire' = wire \cup {[item |-> i, post |-> posts[i] + 1]}
  /\ answer' = [answer EXCEPT ![i] = None]
  /\ UNCHANGED inboxVars

FailsBeforePost(d, i) ==
  /\ stage[d][i] \in {"resolve", "card"}
  /\ \/ \E decision \in {"retry", "fail-fast"} : AttemptFails(d, i, decision)
     \/ WriteFails(d, i)

SenderStep ==
  /\ \/ \E i \in Items : Enqueue(i)
     \/ \E d \in Drains : StartDrain(d) \/ StartBatch(d) \/ EndDrain(d)
     \/ \E d \in Drains, i \in Items : ResolveTarget(d, i) \/ FailsBeforePost(d, i)
     \/ \E s \in Sessions : OperatorAnswers(s)
     \/ StopProcessor
  /\ UNCHANGED <<inboxVars, netVars>>

SenderCrash ==
  /\ OutboxCrash \/ \E d \in Drains, i \in Items : CrashInFailItem(d, i)
  /\ answer' = [i \in Items |-> None]
  /\ UNCHANGED <<inboxVars, wire, posts>>

-----------------------------------------------------------------------------
(* classifyA2AHttpStatus over the statuses the receiver answers with: 202;
   409 for a duplicate; 401 and 400; 500. *)
Decision(a) ==
  CASE a = "accepted" -> "proceed"
    [] a \in {"duplicate", "denied"} -> "fail-fast"
    [] a = "error" -> "retry"

Conclude(d, i) ==
  /\ stage[d][i] = "post"
  /\ answer' = [answer EXCEPT ![i] = None]
  /\ UNCHANGED <<inboxVars, wire, posts>>

(* The attempt is over, but its write fails. *)
ForgetAnswer(d, i) == Conclude(d, i) /\ WriteFails(d, i)

ReadAnswer(d, i) ==
  /\ answer[i] # None
  /\ Conclude(d, i)
  /\ IF Decision(answer[i]) = "proceed"
     THEN AttemptSucceeds(d, i)
     ELSE AttemptFails(d, i, Decision(answer[i]))

(* readJsonRpcResponse throws: the status line came, the body did not. *)
LoseBody(d, i) ==
  /\ answer[i] = "accepted"
  /\ Conclude(d, i)
  /\ AttemptFails(d, i, "fail-fast")

(* fetch rejects: connection refused, reset or timed out. *)
LoseConnection(d, i) ==
  /\ Conclude(d, i)
  /\ AttemptFails(d, i, "retry")

-----------------------------------------------------------------------------
(* The receiver takes a request from the wire and answers it, if the sender
   still waits on that connection. *)
Respond(m, a) ==
  answer' = IF m.post = posts[m.item] /\ \E d \in Drains : stage[d][m.item] = "post"
            THEN [answer EXCEPT ![m.item] = a] ELSE answer

Take(m) ==
  /\ wire' = wire \ {m}
  /\ UNCHANGED <<outboxVars, posts>>

(* Mutant of ReceivePolicyUpdate: the intent is not looked at. *)
ReceivePolicyUpdateAsMessage(m) ==
  /\ EnvelopeOf[m.item] \in PolicyUpdates
  /\ Take(m) /\ Accept(EnvelopeOf[m.item]) /\ Respond(m, "accepted")

(* acceptA2AInboundEnvelope rejects a policy update that does not come through
   the signed webhook, in a return value; the caller answers 202 all the same. *)
ReceivePolicyUpdate(m) ==
  /\ EnvelopeOf[m.item] \in PolicyUpdates
  /\ Take(m) /\ Respond(m, "accepted")
  /\ UNCHANGED inboxVars

IsMessage(m) == EnvelopeOf[m.item] \notin PolicyUpdates

ReceiveNew(m) ==
  IsMessage(m) /\ Take(m) /\ Accept(EnvelopeOf[m.item]) /\ Respond(m, "accepted")

(* Mutant of ReceiveAgain: a duplicate is confirmed, as the endpoint for plain
   HTTP envelopes does. *)
ReceiveAgainConfirmed(m) ==
  /\ EnvelopeOf[m.item] \in stored
  /\ Take(m) /\ Respond(m, "accepted")
  /\ UNCHANGED inboxVars

ReceiveAgain(m) ==
  /\ EnvelopeOf[m.item] \in stored
  /\ Take(m) /\ Respond(m, "duplicate")
  /\ UNCHANGED inboxVars

(* Authentication, decryption or validation refuses the request, or the first
   write of the store fails: nothing is kept. *)
ReceiveRefused(m) ==
  /\ Take(m)
  /\ \E a \in {"denied", "error"} : Respond(m, a)
  /\ UNCHANGED inboxVars

ReceiveHalfway(m) ==
  /\ IsMessage(m)
  /\ Take(m) /\ AcceptHalfway(EnvelopeOf[m.item]) /\ Respond(m, "error")

CrashInReceive(m) ==
  /\ IsMessage(m)
  /\ Take(m) /\ CrashInAccept(EnvelopeOf[m.item]) /\ UNCHANGED answer

Receive(m) ==
  ReceiveNew(m) \/ ReceiveAgain(m) \/ ReceiveRefused(m) \/ ReceivePolicyUpdate(m)

ReceiverStep == DispatchNext /\ UNCHANGED <<outboxVars, netVars>>

Next ==
  \/ SenderStep \/ SenderCrash
  \/ \E d \in Drains, i \in Items :
       \/ Post(d, i) \/ ReadAnswer(d, i) \/ ForgetAnswer(d, i)
       \/ LoseBody(d, i) \/ LoseConnection(d, i)
  \/ \E m \in wire :
       Receive(m) \/ ReceiveHalfway(m) \/ CrashInReceive(m)
  \/ ReceiverStep

Safety == Init /\ [][Next]_exchangeVars

(* The receiver's processor keeps running (DispatchFairness of A2AInbox). *)
ReceiverFairness ==
  /\ WF_exchangeVars(StartDispatchBatch /\ ReceiverStep)
  /\ WF_exchangeVars(EndDispatch /\ ReceiverStep)
  /\ \A e \in Envelopes : /\ WF_exchangeVars(Begin(e) /\ ReceiverStep)
                          /\ WF_exchangeVars(RunEnds(e) /\ ReceiverStep)
  /\ \A e \in Envelopes :
       SF_exchangeVars(/\ \E due \in SUBSET Queue, aged \in SUBSET Recent :
                            e \in due /\ StartDispatchOf(due, aged)
                       /\ ReceiverStep)

Spec == Safety /\ ReceiverFairness

-----------------------------------------------------------------------------
Messages == {i \in Items : EnvelopeOf[i] \notin PolicyUpdates}

(* Of several submissions of one message one at most is told "delivered". *)
OneConfirmation ==
  \A i, j \in Messages :
    /\ outbox[i].status = "delivered" /\ outbox[j].status = "delivered"
    /\ EnvelopeOf[i] = EnvelopeOf[j]
    => i = j

(* A policy update never becomes a message of an agent's thread, by no retry
   and no race with the ordinary messages it travels with. *)
PolicyUpdatesStayOut ==
  stored \cap PolicyUpdates = {} /\ In({"begin", "agent"}) \cap PolicyUpdates = {}

(* The exchange implements the promise of A2ADelivery for its messages. *)
Delivery == INSTANCE A2ADelivery
  WITH Items <- Messages,
       EnvelopeOf <- [i \in Messages |-> EnvelopeOf[i]],
       verdict <- [i \in Messages |-> outbox[i].status],
       held <- stored

ImplementsDelivery == Delivery!Spec

(* A confirmed message reaches an agent's turn or another outcome, unless the
   receiver crashes during that turn. *)
DeliveredReachesAgent ==
  \A i \in Messages :
    outbox[i].status = "delivered" ~>
      LET e == EnvelopeOf[i] IN dispatch[e].status \in Settled \/ Orphaned(e)

(* What the audit record of a delivery says, of every intent: the receiver has
   taken the envelope over.  A policy update refutes it. *)
DeliveredIsKept ==
  \A i \in Items : outbox[i].status = "delivered" => EnvelopeOf[i] \in stored
=============================================================================
