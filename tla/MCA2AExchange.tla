--------------------------- MODULE MCA2AExchange ---------------------------
(* Instances of the exchange for TLC: i1 and i2 are two submissions of one envelope,
   i3 is one of another. *)
EXTENDS A2AExchange, TLC

CONSTANTS i1, i2, i3, e1, e2, s1, t1

MCSessionOf == [i \in Items |-> s1]
MCThreadOf == [e \in Envelopes |-> t1]
MCEnvelopeOf == [i \in Items |-> IF i = i3 THEN e2 ELSE e1]
=============================================================================
