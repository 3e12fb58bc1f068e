-------------------------- MODULE A2AExchangeProofs --------------------------
(***************************************************************************)
(* The exchange of two gateways implements the promise of A2ADelivery, for *)
(* every number of messages, retries, faults and lost or late requests.    *)
(*                                                                         *)
(* Both halves keep their invariants, because every step of the exchange   *)
(* is a step or a stutter of each.  What joins them is a credit: the one   *)
(* request that makes the receiver store an envelope is the only one       *)
(* answered with "accepted", and so only its item is ever told             *)
(* "delivered".                                                            *)
(***************************************************************************)
EXTENDS A2AExchange, A2AOutboxProofs, A2AInboxProofs

Credited(i) == outbox[i].status = "delivered" \/ answer[i] = "accepted"

CreditIsBacked == \A i \in Messages : Credited(i) => EnvelopeOf[i] \in stored

OneCredit ==
  \A i, j \in Messages : Credited(i) /\ Credited(j) /\ EnvelopeOf[i] = EnvelopeOf[j] => i = j

WireIsSent == \A m \in wire : outbox[m.item].status # "none"

ExchangeInv ==
  /\ OutboxInv /\ InboxInv /\ ExchangeTypeOK
  /\ CreditIsBacked /\ OneCredit /\ WireIsSent
  /\ stored \cap PolicyUpdates = {}

(* What a step does to the statuses: nothing, or one item moves. *)
SameStatuses == \A i \in Items : outbox'[i].status = outbox[i].status
Moves(i, from, to) ==
  /\ outbox[i].status = from /\ outbox'[i].status = to
  /\ \A j \in Items \ {i} : outbox'[j].status = outbox[j].status

-----------------------------------------------------------------------------
(* Two gateways with empty tables and nothing on the wire. *)
LEMMA ExchangeInitInv == Init => ExchangeInv
<1> SUFFICES ASSUME Init PROVE ExchangeInv
  OBVIOUS
<1>1. OutboxInv /\ InboxInv
  BY OutboxInitInv, InboxInitInv DEF Init
<1>2. ExchangeTypeOK
  BY <1>1 DEF Init, ExchangeTypeOK, OutboxInv, InboxInv
<1>3. stored = {} /\ wire = {} /\ \A i \in Items : outbox[i].status = "none" /\ answer[i] = None
  BY DEF Init, OutboxInit, InboxInit, Absent
<1>4. \A i \in Messages : i \in Items /\ ~Credited(i)
  BY <1>3, ExchangeAssumption DEF Credited, Messages, Answers
<1> QED
  BY <1>1, <1>2, <1>3, <1>4 DEF ExchangeInv, CreditIsBacked, OneCredit, WireIsSent

(* The steps of the exchange are steps or stutters of its two halves. *)
LEMMA ExchangeIsOutbox == [Next]_exchangeVars => [OutboxNext]_outboxVars
<1> SUFFICES ASSUME [Next]_exchangeVars PROVE [OutboxNext]_outboxVars
  OBVIOUS
<1>1. CASE SenderStep
  BY <1>1 DEF SenderStep, FailsBeforePost, OutboxNext, DrainStep, AttemptEnds
<1>2. CASE SenderCrash
  BY <1>2 DEF SenderCrash, OutboxNext
<1>3. ASSUME NEW d \in Drains, NEW i \in Items,
             \/ Post(d, i) \/ ReadAnswer(d, i) \/ ForgetAnswer(d, i)
             \/ LoseBody(d, i) \/ LoseConnection(d, i)
      PROVE  OutboxNext
  <2>1. CASE Post(d, i)
    BY <2>1 DEF Post, OutboxNext, DrainStep
  <2>2. CASE ForgetAnswer(d, i)
    BY <2>2 DEF ForgetAnswer, OutboxNext
  <2>3. CASE ReadAnswer(d, i) \/ LoseBody(d, i) \/ LoseConnection(d, i)
    <3>1. AttemptSucceeds(d, i) \/ \E decision : AttemptFails(d, i, decision)
      BY <2>3 DEF ReadAnswer, LoseBody, LoseConnection
    <3>2. ASSUME NEW decision, AttemptFails(d, i, decision)
          PROVE  decision \in {"retry", "fail-fast"}
      BY <3>2 DEF AttemptFails
    <3>3. AttemptEnds(d, i)
      BY <3>1, <3>2 DEF AttemptEnds
    <3> QED
      BY <3>3 DEF OutboxNext
  <2> QED
    BY <1>3, <2>1, <2>2, <2>3
<1>4. ASSUME NEW m \in wire, Receive(m) \/ ReceiveHalfway(m) \/ CrashInReceive(m)
      PROVE  UNCHANGED outboxVars
  BY <1>4 DEF Receive, ReceiveNew, ReceiveAgain, ReceiveRefused, ReceivePolicyUpdate,
              ReceiveHalfway, CrashInReceive, Take
<1>5. CASE ReceiverStep
  BY <1>5 DEF ReceiverStep
<1>6. CASE UNCHANGED exchangeVars
  BY <1>6 DEF exchangeVars, outboxVars
<1> QED
  BY <1>1, <1>2, <1>3, <1>4, <1>5, <1>6 DEF Next

(* Seen from the receiving gateway, every step of the exchange is one of
   A2AInbox: an acceptance, a step of its dispatch, or nothing. *)
LEMMA ExchangeIsInbox == ExchangeInv /\ [Next]_exchangeVars => [InboxNext]_inboxVars
<1> SUFFICES ASSUME ExchangeInv, [Next]_exchangeVars PROVE [InboxNext]_inboxVars
  OBVIOUS
<1>1. CASE SenderStep \/ SenderCrash
  BY <1>1 DEF SenderStep, SenderCrash
<1>2. ASSUME NEW d \in Drains, NEW i \in Items,
             \/ Post(d, i) \/ ReadAnswer(d, i) \/ ForgetAnswer(d, i)
             \/ LoseBody(d, i) \/ LoseConnection(d, i)
      PROVE  UNCHANGED inboxVars
  BY <1>2 DEF Post, ReadAnswer, ForgetAnswer, LoseBody, LoseConnection, Conclude
<1>3. ASSUME NEW m \in wire, Receive(m) \/ ReceiveHalfway(m) \/ CrashInReceive(m)
      PROVE  [InboxNext]_inboxVars
  <2>1. EnvelopeOf[m.item] \in Envelopes
    BY ExchangeAssumption DEF ExchangeInv, ExchangeTypeOK
  <2> QED
    BY <1>3, <2>1
    DEF Receive, ReceiveNew, ReceiveAgain, ReceiveRefused, ReceivePolicyUpdate,
        ReceiveHalfway, CrashInReceive, InboxNext
<1>4. CASE ReceiverStep
  BY <1>4 DEF ReceiverStep, InboxNext
<1>5. CASE UNCHANGED exchangeVars
  BY <1>5 DEF exchangeVars, inboxVars
<1> QED
  BY <1>1, <1>2, <1>3, <1>4, <1>5 DEF Next

-----------------------------------------------------------------------------
(* What the end of an attempt does to the statuses. *)
LEMMA EndMoves ==
  ASSUME OutboxInv, NEW d \in Drains, NEW i \in Items
  PROVE  /\ AttemptSucceeds(d, i) => Moves(i, "pending", "delivered")
         /\ \A decision : AttemptFails(d, i, decision) =>
                            SameStatuses \/ Moves(i, "pending", "failed")
         /\ CrashInFailItem(d, i) => Moves(i, "pending", "failed")
<1>1. outbox \in [Items -> Item] /\ (stage[d][i] \in InFlight => outbox[i].status = "pending")
  BY DEF OutboxInv, OutboxTypeOK, BusyIsPending, Busy
<1>2. ASSUME NEW status, outbox' = [outbox EXCEPT ![i] = Attempted(snap[d][i], status)],
             stage[d][i] \in InFlight
      PROVE  Moves(i, "pending", status)
  BY <1>1, <1>2 DEF Moves, Attempted
<1>3. Moves(i, "pending", "pending") => SameStatuses
  BY DEF Moves, SameStatuses
<1> QED
  BY <1>2, <1>3
  DEF AttemptSucceeds, AttemptFails, RetryOrFail, FailItem, RetryItem, Settle,
      CrashInFailItem, InFlight

(* A step of the sender keeps what the receiver holds, forgets an answer or
   none, posts for a waiting item, and moves one item at most: to "delivered"
   only on the answer "accepted", which it consumes. *)
LEMMA SenderMoves ==
  ASSUME ExchangeInv,
         \/ SenderStep \/ SenderCrash
         \/ \E d \in Drains, i \in Items :
              \/ Post(d, i) \/ ReadAnswer(d, i) \/ ForgetAnswer(d, i)
              \/ LoseBody(d, i) \/ LoseConnection(d, i)
  PROVE  /\ stored' = stored
         /\ \A m \in wire' : m \in wire \/ outbox[m.item].status = "pending"
         /\ \A i \in Items : answer'[i] \in {answer[i], None}
         /\ \/ SameStatuses
            \/ \E i \in Items : \/ Moves(i, "none", "pending") \/ Moves(i, "pending", "failed")
                                \/ /\ Moves(i, "pending", "delivered")
                                   /\ answer[i] = "accepted" /\ answer'[i] = None
<1>1. /\ OutboxInv /\ outbox \in [Items -> Item]
      /\ answer \in [Items -> Answers \cup {None}]
      /\ \A d \in Drains, i \in Items :
           stage[d][i] \in InFlight => outbox[i].status = "pending" /\ snap[d][i] = outbox[i]
  BY DEF ExchangeInv, ExchangeTypeOK, OutboxInv, OutboxTypeOK, BusyIsPending, Busy, NoStaleWrite
<1>2. CASE SenderStep
  <2>1. UNCHANGED <<stored, wire, answer>>
    BY <1>2 DEF SenderStep, inboxVars, netVars
  <2>2. ASSUME NEW i \in Items, Enqueue(i) PROVE Moves(i, "none", "pending")
    BY <1>1, <2>2 DEF Enqueue, Moves
  <2>3. ASSUME NEW d \in Drains, StartDrain(d) \/ StartBatch(d) \/ EndDrain(d)
        PROVE  SameStatuses
    BY <2>3 DEF StartDrain, StartDrainOf, StartBatch, EndDrain, SameStatuses
  <2>4. ASSUME NEW d \in Drains, NEW i \in Items, ResolveTarget(d, i)
        PROVE  SameStatuses
    BY <1>1, <2>4 DEF ResolveTarget, InFlight, SameStatuses, Item
  <2>5. ASSUME NEW d \in Drains, NEW i \in Items, FailsBeforePost(d, i)
        PROVE  SameStatuses \/ Moves(i, "pending", "failed")
    BY <1>1, <2>5, EndMoves DEF FailsBeforePost, WriteFails, SameStatuses
  <2>6. ASSUME StopProcessor \/ \E s \in Sessions : OperatorAnswers(s)
        PROVE  SameStatuses
    BY <2>6 DEF StopProcessor, OperatorAnswers, SameStatuses
  <2>7. \/ SameStatuses
        \/ \E i \in Items : Moves(i, "none", "pending") \/ Moves(i, "pending", "failed")
    BY <1>2, <2>2, <2>3, <2>4, <2>5, <2>6 DEF SenderStep
  <2> QED
    BY <2>1, <2>7
<1>3. CASE SenderCrash
  <2>1. UNCHANGED <<stored, wire>> /\ answer' = [i \in Items |-> None]
    BY <1>3 DEF SenderCrash, inboxVars
  <2>2. SameStatuses \/ \E i \in Items : Moves(i, "pending", "failed")
    BY <1>1, <1>3, EndMoves DEF SenderCrash, OutboxCrash, SameStatuses
  <2> QED
    BY <2>1, <2>2
<1>4. ASSUME NEW d \in Drains, NEW i \in Items, Post(d, i)
      PROVE  /\ stored' = stored /\ SameStatuses
             /\ \A m \in wire' : m \in wire \/ outbox[m.item].status = "pending"
             /\ \A j \in Items : answer'[j] \in {answer[j], None}
  BY <1>1, <1>4 DEF Post, PostRequest, inboxVars, InFlight, SameStatuses
<1>5. ASSUME NEW d \in Drains, NEW i \in Items, Conclude(d, i)
      PROVE  /\ UNCHANGED <<stored, wire>> /\ answer'[i] = None
             /\ \A j \in Items : answer'[j] \in {answer[j], None}
  BY <1>1, <1>5 DEF Conclude, inboxVars
<1>6. ASSUME NEW d \in Drains, NEW i \in Items,
             ForgetAnswer(d, i) \/ LoseBody(d, i) \/ LoseConnection(d, i)
      PROVE  Conclude(d, i) /\ (SameStatuses \/ Moves(i, "pending", "failed"))
  BY <1>1, <1>6, EndMoves DEF ForgetAnswer, LoseBody, LoseConnection, WriteFails, SameStatuses
<1>7. ASSUME NEW d \in Drains, NEW i \in Items, ReadAnswer(d, i)
      PROVE  /\ Conclude(d, i)
             /\ \/ SameStatuses \/ Moves(i, "pending", "failed")
                \/ Moves(i, "pending", "delivered") /\ answer[i] = "accepted"
  <2>1. answer[i] \in Answers
    BY <1>1, <1>7 DEF ReadAnswer
  <2>2. Decision(answer[i]) = "proceed" => answer[i] = "accepted"
    BY <2>1 DEF Decision, Answers
  <2> QED
    BY <1>1, <1>7, <2>2, EndMoves DEF ReadAnswer
<1> QED
  BY <1>2, <1>3, <1>4, <1>5, <1>6, <1>7

(* A step of the receiver that takes request m keeps a message or nothing, and
   says "accepted" to a message only as it takes the envelope into the store. *)
LEMMA ReceiverMoves ==
  ASSUME ExchangeInv, NEW m \in wire, Receive(m) \/ ReceiveHalfway(m) \/ CrashInReceive(m)
  PROVE  /\ outbox' = outbox /\ wire' \subseteq wire /\ m.item \in Items
         /\ \/ stored' = stored
            \/ /\ m.item \in Messages /\ EnvelopeOf[m.item] \notin stored
               /\ stored' = stored \cup {EnvelopeOf[m.item]}
         /\ \A i \in Messages :
              answer'[i] = "accepted" =>
                \/ answer[i] = "accepted"
                \/ i = m.item /\ EnvelopeOf[i] \notin stored /\ EnvelopeOf[i] \in stored'
<1>1. m.item \in Items /\ answer \in [Items -> Answers \cup {None}]
  BY DEF ExchangeInv, ExchangeTypeOK
<1>2. Take(m)
  BY DEF Receive, ReceiveNew, ReceiveAgain, ReceiveRefused, ReceivePolicyUpdate,
         ReceiveHalfway, CrashInReceive
<1>3. outbox' = outbox /\ wire' \subseteq wire
  BY <1>2 DEF Take, outboxVars
<1>4. ASSUME NEW a, Respond(m, a), NEW i \in Messages, answer'[i] = "accepted"
      PROVE  answer[i] = "accepted" \/ (i = m.item /\ a = "accepted")
  BY <1>1, <1>4 DEF Respond, Messages
<1>5. CASE ReceiveNew(m)
  <2>1. m.item \in Messages
    BY <1>1, <1>5 DEF ReceiveNew, IsMessage, Messages
  <2>2. EnvelopeOf[m.item] \notin stored /\ stored' = stored \cup {EnvelopeOf[m.item]}
    BY <1>5 DEF ReceiveNew, Accept, Save
  <2>3. Respond(m, "accepted")
    BY <1>5 DEF ReceiveNew
  <2> QED
    BY <1>1, <1>3, <1>4, <2>1, <2>2, <2>3
<1>6. CASE ReceiveAgain(m) \/ ReceiveRefused(m)
  <2>1. stored' = stored /\ \E a \in {"duplicate", "denied", "error"} : Respond(m, a)
    BY <1>6 DEF ReceiveAgain, ReceiveRefused, inboxVars
  <2> QED
    BY <1>1, <1>3, <1>4, <2>1
<1>7. CASE ReceivePolicyUpdate(m)
  <2>1. stored' = stored /\ Respond(m, "accepted") /\ m.item \notin Messages
    BY <1>7 DEF ReceivePolicyUpdate, inboxVars, Messages
  <2> QED
    BY <1>1, <1>3, <1>4, <2>1
<1>8. CASE ReceiveHalfway(m) \/ CrashInReceive(m)
  <2>1. m.item \in Messages
    BY <1>1, <1>8 DEF ReceiveHalfway, CrashInReceive, IsMessage, Messages
  <2>2. EnvelopeOf[m.item] \notin stored /\ stored' = stored \cup {EnvelopeOf[m.item]}
    BY <1>8 DEF ReceiveHalfway, CrashInReceive, AcceptHalfway, CrashInAccept, Save
  <2>3. Respond(m, "error") \/ answer' = answer
    BY <1>8 DEF ReceiveHalfway, CrashInReceive
  <2> QED
    BY <1>1, <1>3, <1>4, <2>1, <2>2, <2>3
<1> QED
  BY <1>5, <1>6, <1>7, <1>8 DEF Receive

(* The processor of the receiver touches neither the store nor the network. *)
LEMMA DispatchMovesNothing ==
  ASSUME ReceiverStep
  PROVE  UNCHANGED <<outbox, stored, wire, answer>>
  BY DEF ReceiverStep, outboxVars, netVars, DispatchNext, StartDispatch, StartDispatchOf,
         StartDispatchBatch, EndDispatch, InboxCrash, Begin, BeginIgnored, BeginUnresolved,
         BeginSuppressed, BeginRun, MarkTerminal, RunEnds, RunSucceeds, RunFails,
         RecordWriteFails, SendReply

(* The requests on their way and their answers keep their types. *)
LEMMA NetTypes ==
  ASSUME ExchangeInv, Next
  PROVE  /\ wire' \subseteq [item: Items, post: Nat] /\ posts' \in [Items -> Nat]
         /\ answer' \in [Items -> Answers \cup {None}]
<1>1. /\ wire \subseteq [item: Items, post: Nat] /\ posts \in [Items -> Nat]
      /\ answer \in [Items -> Answers \cup {None}]
  BY DEF ExchangeInv, ExchangeTypeOK
<1>2. CASE SenderStep \/ SenderCrash \/ ReceiverStep
  BY <1>1, <1>2 DEF SenderStep, SenderCrash, ReceiverStep, netVars
<1>3. ASSUME NEW d \in Drains, NEW i \in Items, Post(d, i)
      PROVE  /\ wire' \subseteq [item: Items, post: Nat] /\ posts' \in [Items -> Nat]
             /\ answer' \in [Items -> Answers \cup {None}]
  <2>1. [item |-> i, post |-> posts[i] + 1] \in [item: Items, post: Nat]
    BY <1>1
  <2> QED
    BY <1>1, <1>3, <2>1 DEF Post
<1>4. ASSUME NEW d \in Drains, NEW i \in Items, Conclude(d, i)
      PROVE  /\ wire' \subseteq [item: Items, post: Nat] /\ posts' \in [Items -> Nat]
             /\ answer' \in [Items -> Answers \cup {None}]
  BY <1>1, <1>4 DEF Conclude
<1>5. ASSUME NEW m \in wire, Receive(m) \/ ReceiveHalfway(m) \/ CrashInReceive(m)
      PROVE  /\ wire' \subseteq [item: Items, post: Nat] /\ posts' \in [Items -> Nat]
             /\ answer' \in [Items -> Answers \cup {None}]
  <2>1. Take(m) /\ (answer' = answer \/ \E a \in Answers : Respond(m, a))
    BY <1>5 DEF Receive, ReceiveNew, ReceiveAgain, ReceiveRefused, ReceivePolicyUpdate,
                ReceiveHalfway, CrashInReceive, Answers
  <2> QED
    BY <1>1, <2>1 DEF Take, Respond
<1> QED
  BY <1>2, <1>3, <1>4, <1>5 DEF Next, ReadAnswer, ForgetAnswer, LoseBody, LoseConnection

(* A credit is backed by the store and there is one for an envelope. *)
LEMMA CreditKeeps ==
  ASSUME ExchangeInv, Next
  PROVE  CreditIsBacked' /\ OneCredit' /\ WireIsSent' /\ stored' \cap PolicyUpdates = {}
<1>1. /\ None # "accepted" /\ \A i \in Messages : i \in Items
      /\ \A m \in wire : m.item \in Items /\ outbox[m.item].status # "none"
      /\ stored \cap PolicyUpdates = {}
  BY ExchangeAssumption DEF Answers, Messages, ExchangeInv, ExchangeTypeOK, WireIsSent
<1>2. CASE \/ SenderStep \/ SenderCrash
           \/ \E d \in Drains, i \in Items :
                \/ Post(d, i) \/ ReadAnswer(d, i) \/ ForgetAnswer(d, i)
                \/ LoseBody(d, i) \/ LoseConnection(d, i)
  <2>1. /\ stored' = stored
        /\ \A m \in wire' : m \in wire \/ outbox[m.item].status = "pending"
        /\ \A i \in Items : answer'[i] \in {answer[i], None}
        /\ \/ SameStatuses
           \/ \E i \in Items : \/ Moves(i, "none", "pending") \/ Moves(i, "pending", "failed")
                               \/ /\ Moves(i, "pending", "delivered")
                                  /\ answer[i] = "accepted" /\ answer'[i] = None
    BY <1>2, SenderMoves
  <2>2. ASSUME NEW i \in Items, Credited(i)' PROVE Credited(i)
    BY <1>1, <2>1, <2>2 DEF Credited, SameStatuses, Moves
  <2>3. CreditIsBacked' /\ OneCredit'
    BY <1>1, <2>1, <2>2 DEF ExchangeInv, CreditIsBacked, OneCredit
  <2>4. ASSUME NEW i \in Items, outbox[i].status # "none" PROVE outbox'[i].status # "none"
    BY <2>1, <2>4 DEF SameStatuses, Moves
  <2>5. \A m \in wire' : m.item \in Items /\ outbox[m.item].status # "none"
    <3>1. \A m \in wire' : m.item \in Items
      BY NetTypes
    <3> QED
      BY <1>1, <2>1, <3>1
  <2> QED
    BY <1>1, <2>1, <2>3, <2>4, <2>5 DEF WireIsSent
<1>3. ASSUME NEW m \in wire, Receive(m) \/ ReceiveHalfway(m) \/ CrashInReceive(m)
      PROVE  CreditIsBacked' /\ OneCredit' /\ WireIsSent' /\ stored' \cap PolicyUpdates = {}
  <2>1. /\ outbox' = outbox /\ wire' \subseteq wire
        /\ \/ stored' = stored
           \/ /\ m.item \in Messages /\ EnvelopeOf[m.item] \notin stored
              /\ stored' = stored \cup {EnvelopeOf[m.item]}
        /\ \A i \in Messages :
             answer'[i] = "accepted" =>
               \/ answer[i] = "accepted"
               \/ i = m.item /\ EnvelopeOf[i] \notin stored /\ EnvelopeOf[i] \in stored'
    BY <1>3, ReceiverMoves
  <2>2. ASSUME NEW i \in Messages, Credited(i)'
        PROVE  \/ Credited(i)
               \/ i = m.item /\ EnvelopeOf[i] \notin stored /\ EnvelopeOf[i] \in stored'
    BY <2>1, <2>2 DEF Credited
  <2>3. CreditIsBacked'
    BY <2>1, <2>2 DEF ExchangeInv, CreditIsBacked
  <2>4. OneCredit'
    BY <2>2 DEF ExchangeInv, CreditIsBacked, OneCredit
  <2> QED
    BY <1>1, <2>1, <2>3, <2>4 DEF WireIsSent, Messages
<1>4. CASE ReceiverStep
  BY <1>4, DispatchMovesNothing
  DEF ExchangeInv, CreditIsBacked, OneCredit, WireIsSent, Credited
<1> QED
  BY <1>2, <1>3, <1>4 DEF Next

(* Every step of the exchange keeps the invariant. *)
LEMMA ExchangeStepInv == ExchangeInv /\ [Next]_exchangeVars => ExchangeInv'
<1> SUFFICES ASSUME ExchangeInv, [Next]_exchangeVars PROVE ExchangeInv'
  OBVIOUS
<1>1. OutboxInv' /\ InboxInv'
  BY ExchangeIsOutbox, ExchangeIsInbox, OutboxStepInv, InboxStepInv DEF ExchangeInv
<1>2. CASE Next
  <2>1. ExchangeTypeOK'
    BY <1>1, <1>2, NetTypes DEF ExchangeTypeOK, OutboxInv, InboxInv
  <2> QED
    BY <1>1, <1>2, <2>1, CreditKeeps DEF ExchangeInv
<1>3. CASE UNCHANGED exchangeVars
  <2>1. UNCHANGED <<outbox, stored, wire, posts, answer>>
    BY <1>3 DEF exchangeVars
  <2>2. ExchangeTypeOK'
    BY <1>1, <2>1 DEF ExchangeInv, ExchangeTypeOK, OutboxInv, InboxInv
  <2> QED
    BY <1>1, <2>1, <2>2
    DEF ExchangeInv, CreditIsBacked, OneCredit, WireIsSent, Credited
<1> QED
  BY <1>2, <1>3

-----------------------------------------------------------------------------
(* The inductive invariant holds in every state of the exchange. *)
THEOREM ExchangeInvariant == Safety => []ExchangeInv
  BY ExchangeInitInv, ExchangeStepInv, PTL DEF Safety

(* Both halves and the requests between them keep their types. *)
THEOREM ExchangeTypeCorrect == Safety => []ExchangeTypeOK
<1>1. ExchangeInv => ExchangeTypeOK
  BY DEF ExchangeInv
<1> QED
  BY <1>1, ExchangeInvariant, PTL

(* However often a message is submitted, posted, lost and posted again, one
   submission at most is told "delivered". *)
THEOREM OneConfirmationHolds == Safety => []OneConfirmation
<1>1. ExchangeInv => OneConfirmation
  BY DEF ExchangeInv, OneCredit, OneConfirmation, Credited
<1> QED
  BY <1>1, ExchangeInvariant, PTL

(* acceptA2AInboundEnvelope never lets a policy update into the thread store,
   and what is not stored is not handed to an agent. *)
THEOREM PolicyUpdatesNeverEnter == Safety => []PolicyUpdatesStayOut
<1>1. ExchangeInv => PolicyUpdatesStayOut
  <2> SUFFICES ASSUME ExchangeInv, NEW e \in In({"begin", "agent"})
               PROVE  e \in stored
    BY DEF ExchangeInv, PolicyUpdatesStayOut
  <2>1. e \in Envelopes /\ phase[e] \in {"begin", "agent"}
    BY DEF In
  <2> QED
    BY <2>1 DEF ExchangeInv, InboxInv, RecordsFit, RecordFits, QueuedIsStored
<1> QED
  BY <1>1, ExchangeInvariant, PTL

(* The composition leaves each gateway its own specification, so that whatever
   A2AOutboxProofs and A2AInboxProofs show of one gateway, the final verdict, the
   loop budget and the single reply among it, holds while the two talk. *)
THEOREM ExchangeImplementsOutbox == Safety => OutboxSafety
<1>1. Init => OutboxInit
  BY DEF Init
<1> QED
  BY <1>1, ExchangeIsOutbox, PTL DEF Safety, OutboxSafety

(* The receiving gateway; that an accepted item names an envelope takes the
   invariant. *)
THEOREM ExchangeImplementsInbox == Safety => InboxSafety
<1>1. Init => InboxInit
  BY DEF Init
<1> QED
  BY <1>1, ExchangeIsInbox, ExchangeInvariant, PTL DEF Safety, InboxSafety

-----------------------------------------------------------------------------
(* The verdicts of A2ADelivery after a step that moves one item, or none. *)
Verdicts == [i \in Messages |-> outbox[i].status]

(* What such a step of the records does to the verdicts. *)
LEMMA VerdictMoves ==
  /\ SameStatuses => Verdicts' = Verdicts
  /\ \A i \in Items : \A from, to :
       Moves(i, from, to) =>
         IF i \in Messages
         THEN Verdicts[i] = from /\ Verdicts' = [Verdicts EXCEPT ![i] = to]
         ELSE Verdicts' = Verdicts
<1>1. \A i \in Messages : i \in Items
  BY DEF Messages
<1>2. Verdicts' = [i \in Messages |-> outbox'[i].status]
  BY DEF Verdicts, Messages
<1>3. SameStatuses => Verdicts' = Verdicts
  BY <1>1, <1>2 DEF SameStatuses, Verdicts
<1>4. ASSUME NEW i \in Items, NEW from, NEW to, Moves(i, from, to), i \in Messages
      PROVE  Verdicts[i] = from /\ Verdicts' = [Verdicts EXCEPT ![i] = to]
  BY <1>1, <1>2, <1>4 DEF Moves, Verdicts
<1>5. ASSUME NEW i \in Items, NEW from, NEW to, Moves(i, from, to), i \notin Messages
      PROVE  Verdicts' = Verdicts
  BY <1>1, <1>2, <1>5 DEF Moves, Verdicts
<1> QED
  BY <1>3, <1>4, <1>5

(* Every step of the exchange is a step of the promise, or invisible to it. *)
LEMMA ExchangeStepDelivers ==
  ASSUME ExchangeInv, [Next]_exchangeVars
  PROVE  [Delivery!Next]_(Delivery!deliveryVars)
<1>1. \A i \in Messages : i \in Items /\ [k \in Messages |-> EnvelopeOf[k]][i] = EnvelopeOf[i]
  BY DEF Messages
<1>2. CASE Verdicts' = Verdicts /\ stored' = stored
  BY <1>2 DEF Delivery!deliveryVars, Verdicts
<1>3. CASE \/ SenderStep \/ SenderCrash
           \/ \E d \in Drains, i \in Items :
                \/ Post(d, i) \/ ReadAnswer(d, i) \/ ForgetAnswer(d, i)
                \/ LoseBody(d, i) \/ LoseConnection(d, i)
  <2>1. /\ stored' = stored
        /\ \/ SameStatuses
           \/ \E i \in Items : \/ Moves(i, "none", "pending") \/ Moves(i, "pending", "failed")
                               \/ Moves(i, "pending", "delivered") /\ answer[i] = "accepted"
    BY <1>3, SenderMoves
  <2>2. ASSUME NEW i \in Messages, Moves(i, "none", "pending")
        PROVE  Delivery!Submit(i)
    <3>1. Verdicts[i] = "none" /\ Verdicts' = [Verdicts EXCEPT ![i] = "pending"]
      BY <1>1, <2>2, VerdictMoves
    <3> QED
      BY <2>1, <3>1 DEF Delivery!Submit, Verdicts
  <2>3. ASSUME NEW i \in Messages, Moves(i, "pending", "failed")
        PROVE  Delivery!Refuse(i)
    <3>1. Verdicts[i] = "pending" /\ Verdicts' = [Verdicts EXCEPT ![i] = "failed"]
      BY <1>1, <2>3, VerdictMoves
    <3> QED
      BY <2>1, <3>1 DEF Delivery!Refuse, Verdicts
  <2>4. ASSUME NEW i \in Messages, Moves(i, "pending", "delivered"), answer[i] = "accepted"
        PROVE  Delivery!Confirm(i)
    <3>1. Verdicts[i] = "pending" /\ Verdicts' = [Verdicts EXCEPT ![i] = "delivered"]
      BY <1>1, <2>4, VerdictMoves
    <3>2. EnvelopeOf[i] \in stored
      BY <2>4 DEF ExchangeInv, CreditIsBacked, Credited
    <3>3. ASSUME NEW j \in Messages, EnvelopeOf[j] = EnvelopeOf[i]
          PROVE  Verdicts[j] # "delivered"
      <4>1. CASE j = i
        BY <3>1, <4>1
      <4>2. CASE j # i
        <5>1. outbox[j].status # "delivered"
          BY <2>4, <3>3, <4>2 DEF ExchangeInv, OneCredit, Credited
        <5> QED
          BY <5>1 DEF Verdicts
      <4> QED
        BY <4>1, <4>2
    <3> QED
      BY <1>1, <2>1, <3>1, <3>2, <3>3 DEF Delivery!Confirm, Verdicts
  <2>5. ASSUME NEW i \in Items \ Messages, NEW from, NEW to, Moves(i, from, to)
        PROVE  Verdicts' = Verdicts
    BY <2>5, VerdictMoves
  <2> QED
    BY <1>2, <2>1, <2>2, <2>3, <2>4, <2>5, VerdictMoves DEF Delivery!Next
<1>4. ASSUME NEW m \in wire, Receive(m) \/ ReceiveHalfway(m) \/ CrashInReceive(m)
      PROVE  [Delivery!Next]_(Delivery!deliveryVars)
  <2>1. /\ outbox' = outbox
        /\ \/ stored' = stored
           \/ /\ m.item \in Messages /\ EnvelopeOf[m.item] \notin stored
              /\ stored' = stored \cup {EnvelopeOf[m.item]}
    BY <1>4, ReceiverMoves
  <2>2. Verdicts' = Verdicts
    BY <2>1, VerdictMoves DEF SameStatuses
  <2>3. ASSUME m.item \in Messages, EnvelopeOf[m.item] \notin stored,
               stored' = stored \cup {EnvelopeOf[m.item]}
        PROVE  Delivery!Hold(m.item)
    <3>1. Verdicts[m.item] # "none"
      BY <2>3 DEF ExchangeInv, WireIsSent, Verdicts
    <3> QED
      BY <1>1, <2>2, <2>3, <3>1 DEF Delivery!Hold, Verdicts
  <2> QED
    BY <1>2, <2>1, <2>2, <2>3 DEF Delivery!Next
<1>5. CASE ReceiverStep \/ UNCHANGED exchangeVars
  <2>1. UNCHANGED <<outbox, stored>>
    BY <1>5, DispatchMovesNothing DEF exchangeVars
  <2> QED
    BY <1>2, <2>1, VerdictMoves DEF SameStatuses
<1> QED
  BY <1>3, <1>4, <1>5 DEF Next

(* The exchange keeps the promise made to the users of agent-to-agent messages:
   ImplementsDelivery, for every value of the constants. *)
THEOREM ExchangeImplementsDelivery == Safety => ImplementsDelivery
<1>1. Init => Delivery!Init
  <2> SUFFICES ASSUME Init PROVE Delivery!Init
    OBVIOUS
  <2>1. stored = {} /\ \A i \in Messages : outbox[i].status = "none"
    BY DEF Init, OutboxInit, InboxInit, Absent, Messages
  <2> QED
    BY <2>1 DEF Delivery!Init
<1>2. ExchangeInv /\ [Next]_exchangeVars => [Delivery!Next]_(Delivery!deliveryVars)
  BY ExchangeStepDelivers
<1> QED
  BY <1>1, <1>2, ExchangeInvariant, PTL DEF Safety, ImplementsDelivery, Delivery!Spec
=============================================================================
