---------------------------- MODULE A2ADelivery ----------------------------
(***************************************************************************)
(* What agent-to-agent messaging promises its users, whatever the network  *)
(* and the two gateways do: a message is kept by the receiver only if it   *)
(* was sent, and once; it gets one verdict; the verdict is "delivered"     *)
(* only if the receiver has it, and for one submission only.  The promise  *)
(* says nothing of "failed": the receiver may have the message or get it   *)
(* later.                                                                  *)
(***************************************************************************)
CONSTANTS Items, Envelopes, EnvelopeOf

VARIABLES verdict,  \* verdict[i]: what the sender is told of submission i
          held      \* envelopes the receiver keeps

deliveryVars == <<verdict, held>>

Init == verdict = [i \in Items |-> "none"] /\ held = {}

Submit(i) ==
  /\ verdict[i] = "none"
  /\ verdict' = [verdict EXCEPT ![i] = "pending"]
  /\ UNCHANGED held

Hold(i) ==
  /\ verdict[i] # "none"
  /\ EnvelopeOf[i] \notin held
  /\ held' = held \cup {EnvelopeOf[i]}
  /\ UNCHANGED verdict

Confirm(i) ==
  /\ verdict[i] = "pending"
  /\ EnvelopeOf[i] \in held
  /\ \A j \in Items : EnvelopeOf[j] = EnvelopeOf[i] => verdict[j] # "delivered"
  /\ verdict' = [verdict EXCEPT ![i] = "delivered"]
  /\ UNCHANGED held

Refuse(i) ==
  /\ verdict[i] = "pending"
  /\ verdict' = [verdict EXCEPT ![i] = "failed"]
  /\ UNCHANGED held

Next == \E i \in Items : Submit(i) \/ Hold(i) \/ Confirm(i) \/ Refuse(i)

Spec == Init /\ [][Next]_deliveryVars
=============================================================================
