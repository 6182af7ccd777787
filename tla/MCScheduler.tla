---------------------------- MODULE MCScheduler ----------------------------
(* Instances of Scheduler for TLC. *)
EXTENDS Scheduler, TLC

CONSTANTS u1, u2, p1, p2

MCSymmetry == Permutations({p1, p2})
=============================================================================
