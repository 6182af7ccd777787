---------------------------- MODULE MCOrderLedger ----------------------------
(* OrderLedger on a small instance. *)
EXTENDS OrderLedger, TLC

\* Evaluators and attempts are interchangeable: sound for safety.
Symmetry == Permutations(Evaluators) \cup Permutations(Attempts)
=============================================================================
