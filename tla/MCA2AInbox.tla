----------------------------- MODULE MCA2AInbox -----------------------------
(* Instances of the inbox for TLC: envelopes of one thread, which compete for
   its loop budget. *)
EXTENDS A2AInbox, TLC

CONSTANTS e1, e2, e3, e4, t1

MCThreadOf == [e \in Envelopes |-> t1]
=============================================================================
