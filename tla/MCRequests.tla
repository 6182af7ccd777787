----------------------------- MODULE MCRequests -----------------------------
(* Instance: two requests of each kind; a sign-in, its rotation and the one    *)
(* after; a key added before the one before it is gone; three assets of a      *)
(* whole of three; an evaluation against a refresh; pages of one record.       *)
EXTENDS Tables, TLC

CONSTANTS r1, r2

MCSymmetry == Permutations({r1, r2})
=============================================================================
