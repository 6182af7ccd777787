------------------------- MODULE OrderLedgerLockLoss -------------------------
(***************************************************************************)
(* OrderLedger when the database drops the connection that holds the lock  *)
(* (a restart, a failover, an idle timeout) and the process lives on.  The *)
(* sessions of the evaluation reconnect (core/db/session.py sets           *)
(* pool_pre_ping so that they do), and nothing in core/execution.py asks   *)
(* whether the lock is still held.                                         *)
(***************************************************************************)
EXTENDS OrderLedger

LoseLock(p) ==
  /\ lock = p
  /\ lock' = Nobody
  /\ UNCHANGED <<pc, evalVars, ledger, exchange>>

LossyNext == Next \/ \E p \in Evaluators : LoseLock(p)

LossySpec == Init /\ [][LossyNext]_vars
=============================================================================
