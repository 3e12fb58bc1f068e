---------------------------- MODULE MCA2AOutbox ----------------------------
(* Instances of the outbox for TLC: three items, two of them of one session. *)
EXTENDS A2AOutbox, TLC

CONSTANTS i1, i2, i3, s1, s2

MCSessionOf == i1 :> s1 @@ i2 :> s1 @@ i3 :> s2
=============================================================================
