----------------------------- MODULE MCProposals -----------------------------
(* Proposals on a small instance: one leg whose amount moves in steps of its *)
(* minimum, so that two small moves make a material one.                     *)
EXTENDS Proposals

Amounts == 1..3
Plans == {NoLegs} \cup
         {[k \in Legs |-> [amount |-> n, minimum |-> 1]] : n \in Amounts}
=============================================================================
