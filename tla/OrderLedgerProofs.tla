-------------------------- MODULE OrderLedgerProofs --------------------------
(***************************************************************************)
(* Proofs about OrderLedger, for every number of evaluators and attempts,  *)
(* every plan length, volume and grace period with ListBound < Grace.      *)
(*                                                                         *)
(* The safety properties are not inductive by themselves.  IInv adds what  *)
(* they rest on: only the holder of the lock is under way (LockInv), each  *)
(* row against its order at Kraken (RowInv), the row at hand (HandInv),    *)
(* what a lookup found and that it still holds when it is written down     *)
(* (LookupInv), that resolve_pending skips no PENDING row (ResolveInv),    *)
(* and whose rows are open while the plan is sent (SendInv, LegsInv).      *)
(***************************************************************************)
EXTENDS OrderLedger, TLAPS

-----------------------------------------------------------------------------
(* Types. *)

\* What a listing says of an order is a lookup.
LEMMA ListedType ==
  ASSUME TypeOK, NEW a \in Attempts
  PROVE  Listed(a) \in Lookups
BY DEF TypeOK, Listed, Lookups, LookupKind

\* An answer that proves nothing and an absence are lookups.
LEMMA NoLookupType == NoLookup \in Lookups /\ Absent \in Lookups
BY ConstantsOK DEF NoLookup, Absent, Lookups, LookupKind

\* What `settle` writes has the columns' types.
LEMMA SettleType ==
  ASSUME TypeOK, NEW a \in Attempts, NEW look \in Lookups, Settle(a, look)
  PROVE  /\ status' \in [Attempts -> RowStatus] /\ txid' \in [Attempts -> BOOLEAN]
         /\ executed' \in [Attempts -> 0..Volume] /\ age' = age
<1> USE DEF TypeOK, RowStatus
<1>1. CASE look.kind = "failed" /\ UNCHANGED ledger
  BY <1>1 DEF ledger
<1>2. CASE mark_failed(a)
  BY <1>2 DEF mark_failed
<1>3. CASE mark_filled(a, look.volume)
  BY <1>3 DEF mark_filled, Lookups
<1>4. CASE mark_sent(a)
  BY <1>4 DEF mark_sent
<1> QED
  BY <1>1, <1>2, <1>3, <1>4 DEF Settle

\* The variables start with their types.
LEMMA TypeInit == Init => TypeOK
BY ConstantsOK, NoLookupType DEF Init, TypeOK, PC, AtHand, Unnamed, Results, RowStatus,
     KrakenState

\* No step of an evaluator, of Kraken or of the clock takes a variable out of
\* its type.
LEMMA TypeStep == TypeOK /\ [Next]_vars => TypeOK'
<1> SUFFICES ASSUME TypeOK, [Next]_vars PROVE TypeOK'
  OBVIOUS
<1> USE ConstantsOK DEF TypeOK, evalVars, ledger, exchange
<1>1. ASSUME NEW p \in Evaluators, TakeLock(p) PROVE TypeOK'
  BY <1>1 DEF TakeLock, Goto, PC, AtHand, Unnamed, Working, Planned, Sending, Resolving
<1>2. ASSUME NEW p \in Evaluators, BeginEvaluation(p) PROVE TypeOK'
  BY <1>2 DEF BeginEvaluation, Goto, PC, AtHand, Unnamed, Working, Planned, Sending,
      Resolving
<1>3. ASSUME NEW p \in Evaluators, NextPending(p) PROVE TypeOK'
  BY <1>3 DEF NextPending, Goto, PC, AtHand, Unnamed, Working, Planned, Sending, Resolving
<1>4. ASSUME NEW p \in Evaluators, QueryByTxid(p) PROVE TypeOK'
  BY <1>4, ListedType DEF QueryByTxid, Goto, PC, AtHand, Unnamed, Working, Planned, Sending,
      Resolving
<1>5. ASSUME NEW p \in Evaluators, OpenOrders(p) PROVE TypeOK'
  <2>1. cur[p] \in Attempts
    BY <1>5 DEF OpenOrders, AtHand
  <2>2. lookup' \in [Evaluators -> Lookups]
    BY <1>5, <2>1, ListedType DEF OpenOrders
  <2>3. pc' = [pc EXCEPT ![p] = "settle"] \/ pc' = [pc EXCEPT ![p] = "closed"]
    BY <1>5 DEF OpenOrders, Goto
  <2>4. cur' = cur /\ pc' \in [Evaluators -> PC]
    BY <1>5, <2>3 DEF OpenOrders, PC, AtHand, Unnamed, Working, Planned, Sending, Resolving
  <2>5. \A q \in Evaluators : pc'[q] \in AtHand => cur'[q] \in Attempts
    BY <2>1, <2>3, <2>4 DEF AtHand, Unnamed
  <2> QED
    BY <1>5, <2>2, <2>4, <2>5 DEF OpenOrders
<1>6. ASSUME NEW p \in Evaluators, ClosedOrders(p) PROVE TypeOK'
  BY <1>6, ListedType, NoLookupType DEF ClosedOrders, Goto, PC, AtHand, Unnamed, Working,
      Planned, Sending, Resolving
<1>7. ASSUME NEW p \in Evaluators, HoldAbsence(p) PROVE TypeOK'
  BY <1>7 DEF HoldAbsence, Goto, WithinGrace, PC, AtHand, Unnamed, Working, Planned,
      Sending, Resolving
<1>8. ASSUME NEW p \in Evaluators, SettlePending(p) PROVE TypeOK'
  <2>1. cur[p] \in Attempts /\ Settle(cur[p], lookup[p])
    BY <1>8 DEF SettlePending, AtHand
  <2>2. /\ status' \in [Attempts -> RowStatus] /\ txid' \in [Attempts -> BOOLEAN]
        /\ executed' \in [Attempts -> 0..Volume] /\ age' = age
    BY <2>1, SettleType
  <2> QED
    BY <1>8, <2>2 DEF SettlePending, Goto, PC, AtHand, Unnamed, Working, Planned, Sending,
         Resolving
<1>9. ASSUME NEW p \in Evaluators, EndResolve(p) PROVE TypeOK'
  BY <1>9 DEF EndResolve, Goto, EndAs, PC, AtHand, Unnamed, Working, Planned, Sending,
      Resolving, Results
<1>10. ASSUME NEW p \in Evaluators, Plan(p) PROVE TypeOK'
  BY <1>10 DEF Plan, Goto, PC, AtHand, Unnamed, Working, Planned, Sending, Resolving
<1>11. ASSUME NEW p \in Evaluators, PlanUnavailable(p) PROVE TypeOK'
  BY <1>11 DEF PlanUnavailable, Goto, EndAs, PC, AtHand, Unnamed, Working, Planned, Sending,
      Resolving, Results
<1>12. ASSUME NEW p \in Evaluators, LetThrough(p) PROVE TypeOK'
  BY <1>12 DEF LetThrough, Goto, PC, AtHand, Unnamed, Working, Planned, Sending, Resolving
<1>13. ASSUME NEW p \in Evaluators, TurnDown(p) PROVE TypeOK'
  BY <1>13 DEF TurnDown, Goto, EndAs, PC, AtHand, Unnamed, Working, Planned, Sending,
      Resolving, Results
<1>14. ASSUME NEW p \in Evaluators, SkipLeg(p) PROVE TypeOK'
  BY <1>14 DEF SkipLeg, Goto, PC, AtHand, Unnamed, Working, Planned, Sending, Resolving
<1>15. ASSUME NEW p \in Evaluators, RecordAttempt(p) PROVE TypeOK'
  BY <1>15 DEF RecordAttempt, Goto, PC, AtHand, Unnamed, Working, Planned, Sending,
      Resolving, RowStatus
<1>16. ASSUME NEW p \in Evaluators, PlaceOrder(p) PROVE TypeOK'
  BY <1>16 DEF PlaceOrder, Goto, PC, AtHand, Unnamed, Working, Planned, Sending, Resolving,
      KrakenState
<1>17. ASSUME NEW p \in Evaluators, AnswerRefused(p) PROVE TypeOK'
  BY <1>17 DEF AnswerRefused, Goto, PC, AtHand, Unnamed, Working, Planned, Sending,
      Resolving
<1>18. ASSUME NEW p \in Evaluators, AnswerSent(p) PROVE TypeOK'
  BY <1>18 DEF AnswerSent, Goto, PC, AtHand, Unnamed, Working, Planned, Sending, Resolving
<1>19. ASSUME NEW p \in Evaluators, AnswerUnknown(p) PROVE TypeOK'
  BY <1>19 DEF AnswerUnknown, Goto, PC, AtHand, Unnamed, Working, Planned, Sending,
      Resolving
<1>20. ASSUME NEW p \in Evaluators, MarkRefused(p) PROVE TypeOK'
  BY <1>20 DEF MarkRefused, Goto, mark_failed, PC, AtHand, Unnamed, Working, Planned,
      Sending, Resolving, RowStatus
<1>21. ASSUME NEW p \in Evaluators, MarkSent(p) PROVE TypeOK'
  BY <1>21 DEF MarkSent, Goto, mark_sent, PC, AtHand, Unnamed, Working, Planned, Sending,
      Resolving
<1>22. ASSUME NEW p \in Evaluators, SettleSent(p) PROVE TypeOK'
  <2>1. cur[p] \in Attempts /\ Settle(cur[p], lookup[p])
    BY <1>22 DEF SettleSent, AtHand
  <2>2. /\ status' \in [Attempts -> RowStatus] /\ txid' \in [Attempts -> BOOLEAN]
        /\ executed' \in [Attempts -> 0..Volume] /\ age' = age
    BY <2>1, SettleType
  <2> QED
    BY <1>22, <2>2 DEF SettleSent, Goto, PC, AtHand, Unnamed, Working, Planned, Sending, Resolving
<1>23. ASSUME NEW p \in Evaluators, EndSend(p) PROVE TypeOK'
  BY <1>23 DEF EndSend, Goto, EndAs, PC, AtHand, Unnamed, Working, Planned, Sending,
      Resolving, SentStatus, Results, Verdicts
<1>24. ASSUME NEW p \in Evaluators, Unlock(p) PROVE TypeOK'
  BY <1>24, NoLookupType DEF Unlock, Goto, Forget, PC, AtHand, Unnamed, Working, Planned,
      Sending, Resolving, Results
<1>25. ASSUME NEW p \in Evaluators, QueryByTxidFails(p) PROVE TypeOK'
  BY <1>25, NoLookupType DEF QueryByTxidFails, Goto, PC, AtHand, Unnamed, Working, Planned,
      Sending, Resolving
<1>26. ASSUME NEW p \in Evaluators, OpenOrdersFails(p) PROVE TypeOK'
  BY <1>26 DEF OpenOrdersFails, Goto, PC, AtHand, Unnamed, Working, Planned, Sending,
      Resolving
<1>27. ASSUME NEW p \in Evaluators, ClosedOrdersFails(p) PROVE TypeOK'
  BY <1>27, NoLookupType DEF ClosedOrdersFails, Goto, PC, AtHand, Unnamed, Working, Planned,
      Sending, Resolving
<1>28. ASSUME NEW p \in Evaluators, Raise(p) PROVE TypeOK'
  BY <1>28 DEF Raise, Goto, EndAs, Working, PC, AtHand, Unnamed, Planned, Sending,
      Resolving, Results
<1>29. ASSUME NEW p \in Evaluators, Crash(p) PROVE TypeOK'
  BY <1>29, NoLookupType DEF Crash, Goto, Forget, PC, AtHand, Unnamed, Working, Planned,
      Sending, Resolving, Results
<1>30. ASSUME NEW a \in Attempts, Accept(a) PROVE TypeOK'
  BY <1>30 DEF Accept, KrakenState
<1>31. ASSUME NEW a \in Attempts, Drop(a) PROVE TypeOK'
  BY <1>31 DEF Drop, KrakenState
<1>32. ASSUME NEW a \in Attempts, List(a) PROVE TypeOK'
  BY <1>32 DEF List, KrakenState
<1>33. ASSUME NEW a \in Attempts, Trade(a) PROVE TypeOK'
  BY <1>33 DEF Trade, KrakenState
<1>34. ASSUME NEW a \in Attempts, Close(a) PROVE TypeOK'
  BY <1>34 DEF Close, KrakenState
<1>35. ASSUME Tick PROVE TypeOK'
  BY <1>35 DEF Tick
<1>36. CASE UNCHANGED vars
  BY <1>36 DEF vars
<1> QED
  BY <1>1, <1>2, <1>3, <1>4, <1>5, <1>6, <1>7, <1>8, <1>9, <1>10, <1>11, <1>12, <1>13, <1>14,
       <1>15, <1>16, <1>17, <1>18, <1>19, <1>20, <1>21, <1>22, <1>23, <1>24, <1>25, <1>26,
       <1>27, <1>28, <1>29, <1>30, <1>31, <1>32, <1>33, <1>34, <1>35, <1>36 DEF
      Next, Progress, Fault, Kraken

\* Every variable keeps its type, and a step that works on a row has one.
THEOREM TypeCorrect == Spec => []TypeOK
BY TypeInit, TypeStep, PTL DEF Spec

-----------------------------------------------------------------------------
(* The inductive invariant. *)

\* Nothing recorded, nothing sent, nobody at work: the invariant holds at first.
LEMMA InvInit == Init => IInv
<1> SUFFICES ASSUME Init PROVE IInv
  OBVIOUS
<1>1. TypeOK
  BY TypeInit
<1>2. LockInv /\ RowInv
  BY ConstantsOK DEF Init, LockInv, RowInv, Exists
<1>3. HandInv /\ LookupInv /\ ResolveInv /\ SendInv /\ LegsInv /\ ReportIsTrue
  BY DEF Init, HandInv, LookupInv, ResolveInv, SendInv, LegsInv, ReportIsTrue,
         AtHand, Unnamed, Planned, Sending, Resolving
<1>4. AtMostOneUnknown
  BY DEF Init, AtMostOneUnknown, Unknown
<1> QED
  BY <1>1, <1>2, <1>3, <1>4 DEF IInv

\* A row that matches its order still does after `settle` wrote what is true.
LEMMA SettleKeepsRows ==
  ASSUME TypeOK, RowInv, NEW a \in Attempts, NEW look \in Lookups, Settle(a, look),
         UNCHANGED exchange, status[a] = "PENDING",
         look.kind = "absent" => kraken[a] \in Nothing,
         look.kind = "unfinished" => kraken[a] \in Exists,
         look.kind = "finished" => kraken[a] = "Closed" /\ look.volume = traded[a]
  PROVE  RowInv'
<1> USE DEF TypeOK, RowInv, exchange, Exists, Nothing
<1>1. CASE look.kind = "failed" /\ UNCHANGED ledger
  BY <1>1 DEF ledger
<1>2. CASE look.kind = "absent" /\ mark_failed(a)
  BY <1>2 DEF mark_failed
<1>3. CASE look.kind = "finished" /\ look.volume > 0 /\ mark_filled(a, look.volume)
  BY <1>3 DEF mark_filled
<1>4. CASE look.kind = "finished" /\ look.volume = 0 /\ mark_failed(a)
  BY <1>4 DEF mark_failed
<1>5. CASE look.kind = "unfinished" /\ mark_sent(a)
  BY <1>5 DEF mark_sent
<1> QED
  BY <1>1, <1>2, <1>3, <1>4, <1>5 DEF Settle

\* While an evaluation is under way every other evaluator is idle.
LEMMA OthersIdle ==
  ASSUME LockInv, NEW p \in Evaluators, pc[p] # "idle"
  PROVE  \A q \in Evaluators : q # p => pc[q] = "idle"
BY DEF LockInv

\* Every step keeps the inductive invariant.
LEMMA InvStep ==
  ASSUME TypeOK, LockInv, RowInv, HandInv, LookupInv, ResolveInv, SendInv, LegsInv,
         AtMostOneUnknown, ReportIsTrue, [Next]_vars
  PROVE  IInv'
<1> USE ConstantsOK, GraceCoversListing
      DEF TypeOK, AtHand, Unnamed, Resolving, Planned, Sending, evalVars, ledger, exchange
<1>0. TypeOK'
  BY TypeStep
<1>1. ASSUME NEW p \in Evaluators, TakeLock(p) PROVE IInv'
  <2>1. RowInv' /\ AtMostOneUnknown'
    BY <1>1 DEF TakeLock, Goto, RowInv, AtMostOneUnknown, Unknown
  <2>2. LockInv'
    BY <1>1 DEF TakeLock, Goto, LockInv
  <2>3. HandInv'
    BY <1>1 DEF TakeLock, Goto, HandInv, LockInv, RowInv
  <2>4. LookupInv'
    BY <1>1 DEF TakeLock, Goto, LookupInv, LockInv, RowInv, HandInv, Exists, Nothing
  <2>5. ResolveInv'
    BY <1>1 DEF TakeLock, Goto, ResolveInv, LockInv, HandInv
  <2>6. SendInv'
    BY <1>1 DEF TakeLock, Goto, SendInv, LockInv, HandInv, Unknown
  <2>7. LegsInv'
    BY <1>1 DEF TakeLock, Goto, LegsInv, LockInv, Unknown
  <2>8. ReportIsTrue'
    BY <1>1 DEF TakeLock, Goto, ReportIsTrue, LockInv, Verdicts
  <2> QED
    BY <1>0, <2>1, <2>2, <2>3, <2>4, <2>5, <2>6, <2>7, <2>8 DEF IInv
<1>2. ASSUME NEW p \in Evaluators, BeginEvaluation(p) PROVE IInv'
  <2>0. \A q \in Evaluators : q # p => pc[q] = "idle"
    BY <1>2, OthersIdle DEF BeginEvaluation
  <2>1. RowInv' /\ AtMostOneUnknown'
    BY <1>2 DEF BeginEvaluation, Goto, RowInv, AtMostOneUnknown, Unknown
  <2>2. LockInv'
    BY <1>2, <2>0 DEF BeginEvaluation, Goto, LockInv
  <2>3. HandInv'
    BY <1>2, <2>0 DEF BeginEvaluation, Goto, HandInv, LockInv, RowInv
  <2>4. LookupInv'
    BY <1>2, <2>0 DEF BeginEvaluation, Goto, LookupInv, LockInv, RowInv, HandInv, Exists,
        Nothing
  <2>5. ResolveInv'
    BY <1>2, <2>0 DEF BeginEvaluation, Goto, ResolveInv, LockInv, HandInv
  <2>6. SendInv'
    BY <1>2, <2>0 DEF BeginEvaluation, Goto, SendInv, LockInv, HandInv, Unknown
  <2>7. LegsInv'
    BY <1>2, <2>0 DEF BeginEvaluation, Goto, LegsInv, LockInv, Unknown
  <2>8. ReportIsTrue'
    BY <1>2, <2>0 DEF BeginEvaluation, Goto, ReportIsTrue, LockInv, Verdicts
  <2> QED
    BY <1>0, <2>1, <2>2, <2>3, <2>4, <2>5, <2>6, <2>7, <2>8 DEF IInv
<1>3. ASSUME NEW p \in Evaluators, NextPending(p) PROVE IInv'
  <2>0. \A q \in Evaluators : q # p => pc[q] = "idle"
    BY <1>3, OthersIdle DEF NextPending
  <2>1. RowInv' /\ AtMostOneUnknown'
    BY <1>3 DEF NextPending, Goto, RowInv, AtMostOneUnknown, Unknown
  <2>2. LockInv'
    BY <1>3, <2>0 DEF NextPending, Goto, LockInv
  <2>3. HandInv'
    BY <1>3, <2>0 DEF NextPending, Goto, HandInv, LockInv, RowInv, ResolveInv
  <2>4. LookupInv'
    BY <1>3, <2>0 DEF NextPending, Goto, LookupInv, LockInv, RowInv, HandInv, Exists,
        Nothing
  <2>5. ResolveInv'
    BY <1>3, <2>0 DEF NextPending, Goto, ResolveInv, LockInv, HandInv
  <2>6. SendInv'
    BY <1>3, <2>0 DEF NextPending, Goto, SendInv, LockInv, HandInv, Unknown
  <2>7. LegsInv'
    BY <1>3, <2>0 DEF NextPending, Goto, LegsInv, LockInv, Unknown
  <2>8. ReportIsTrue'
    BY <1>3, <2>0 DEF NextPending, Goto, ReportIsTrue, LockInv, Verdicts
  <2> QED
    BY <1>0, <2>1, <2>2, <2>3, <2>4, <2>5, <2>6, <2>7, <2>8 DEF IInv
<1>4. ASSUME NEW p \in Evaluators, QueryByTxid(p) PROVE IInv'
  <2>0. \A q \in Evaluators : q # p => pc[q] = "idle"
    BY <1>4, OthersIdle DEF QueryByTxid
  <2>1. RowInv' /\ AtMostOneUnknown'
    BY <1>4 DEF QueryByTxid, Goto, Listed, RowInv, AtMostOneUnknown, Unknown
  <2>2. LockInv'
    BY <1>4, <2>0 DEF QueryByTxid, Goto, Listed, LockInv
  <2>3. HandInv'
    BY <1>4, <2>0 DEF QueryByTxid, Goto, Listed, HandInv, LockInv, RowInv
  <2>4. LookupInv'
    BY <1>4, <2>0 DEF QueryByTxid, Goto, Listed, LookupInv, LockInv, RowInv, HandInv,
        Exists, Nothing
  <2>5. ResolveInv'
    BY <1>4, <2>0 DEF QueryByTxid, Goto, Listed, ResolveInv, LockInv, HandInv
  <2>6. SendInv'
    BY <1>4, <2>0 DEF QueryByTxid, Goto, Listed, SendInv, LockInv, HandInv, Unknown
  <2>7. LegsInv'
    BY <1>4, <2>0 DEF QueryByTxid, Goto, Listed, LegsInv, LockInv, Unknown
  <2>8. ReportIsTrue'
    BY <1>4, <2>0 DEF QueryByTxid, Goto, Listed, ReportIsTrue, LockInv, Verdicts
  <2> QED
    BY <1>0, <2>1, <2>2, <2>3, <2>4, <2>5, <2>6, <2>7, <2>8 DEF IInv
<1>5. ASSUME NEW p \in Evaluators, OpenOrders(p) PROVE IInv'
  <2>0. \A q \in Evaluators : q # p => pc[q] = "idle"
    BY <1>5, OthersIdle DEF OpenOrders
  <2>1. RowInv' /\ AtMostOneUnknown'
    BY <1>5 DEF OpenOrders, Goto, Listed, RowInv, AtMostOneUnknown, Unknown
  <2>2. LockInv'
    BY <1>5, <2>0 DEF OpenOrders, Goto, Listed, LockInv
  <2>3. HandInv'
    BY <1>5, <2>0 DEF OpenOrders, Goto, Listed, HandInv, LockInv, RowInv
  <2>4. LookupInv'
    <3>1. CASE kraken[cur[p]] = "Open"
      <4>1. lookup'[p].kind = "unfinished" /\ pc' = [pc EXCEPT ![p] = "settle"]
        BY <1>5, <3>1 DEF OpenOrders, Listed, Goto
      <4> QED
        BY <1>5, <2>0, <3>1, <4>1 DEF OpenOrders, LookupInv, Exists
    <3>2. CASE kraken[cur[p]] # "Open"
      <4>1. cur[p] \in mature[p] => kraken[cur[p]] \in Nothing \cup {"Closed"}
        BY <1>5, <3>2 DEF OpenOrders, LookupInv, RowInv, Nothing, KrakenState
      <4>2. lookup' = lookup /\ pc' = [pc EXCEPT ![p] = "closed"]
        BY <1>5, <3>2 DEF OpenOrders, Goto
      <4> QED
        BY <1>5, <2>0, <4>1, <4>2 DEF OpenOrders, LookupInv
    <3> QED
      BY <3>1, <3>2
  <2>5. ResolveInv'
    <3>1. pc' = [pc EXCEPT ![p] = "settle"] \/ pc' = [pc EXCEPT ![p] = "closed"]
      BY <1>5 DEF OpenOrders, Goto
    <3> QED
      BY <1>5, <2>0, <3>1 DEF OpenOrders, ResolveInv
  <2>6. SendInv'
    BY <1>5, <2>0 DEF OpenOrders, Goto, Listed, SendInv, LockInv, HandInv, Unknown
  <2>7. LegsInv'
    BY <1>5, <2>0 DEF OpenOrders, Goto, Listed, LegsInv, LockInv, Unknown
  <2>8. ReportIsTrue'
    BY <1>5, <2>0 DEF OpenOrders, Goto, Listed, ReportIsTrue, LockInv, Verdicts
  <2> QED
    BY <1>0, <2>1, <2>2, <2>3, <2>4, <2>5, <2>6, <2>7, <2>8 DEF IInv
<1>6. ASSUME NEW p \in Evaluators, ClosedOrders(p) PROVE IInv'
  <2>0. \A q \in Evaluators : q # p => pc[q] = "idle"
    BY <1>6, OthersIdle DEF ClosedOrders
  <2>1. RowInv' /\ AtMostOneUnknown'
    BY <1>6 DEF ClosedOrders, Goto, Listed, Absent, NoLookup, RowInv, AtMostOneUnknown,
        Unknown
  <2>2. LockInv'
    BY <1>6, <2>0 DEF ClosedOrders, Goto, Listed, Absent, NoLookup, LockInv
  <2>3. HandInv'
    BY <1>6, <2>0 DEF ClosedOrders, Goto, Listed, Absent, NoLookup, HandInv, LockInv, RowInv
  <2>4. LookupInv'
    BY <1>6, <2>0 DEF ClosedOrders, Goto, Listed, Absent, NoLookup, LookupInv, LockInv,
        RowInv, HandInv, Exists, Nothing
  <2>5. ResolveInv'
    BY <1>6, <2>0 DEF ClosedOrders, Goto, Listed, Absent, NoLookup, ResolveInv, LockInv,
        HandInv
  <2>6. SendInv'
    BY <1>6, <2>0 DEF ClosedOrders, Goto, Listed, Absent, NoLookup, SendInv, LockInv,
        HandInv, Unknown
  <2>7. LegsInv'
    BY <1>6, <2>0 DEF ClosedOrders, Goto, Listed, Absent, NoLookup, LegsInv, LockInv,
        Unknown
  <2>8. ReportIsTrue'
    BY <1>6, <2>0 DEF ClosedOrders, Goto, Listed, Absent, NoLookup, ReportIsTrue, LockInv,
        Verdicts
  <2> QED
    BY <1>0, <2>1, <2>2, <2>3, <2>4, <2>5, <2>6, <2>7, <2>8 DEF IInv
<1>7. ASSUME NEW p \in Evaluators, HoldAbsence(p) PROVE IInv'
  <2>0. \A q \in Evaluators : q # p => pc[q] = "idle"
    BY <1>7, OthersIdle DEF HoldAbsence
  <2>1. RowInv' /\ AtMostOneUnknown'
    BY <1>7 DEF HoldAbsence, Goto, WithinGrace, RowInv, AtMostOneUnknown, Unknown
  <2>2. LockInv'
    BY <1>7, <2>0 DEF HoldAbsence, Goto, WithinGrace, LockInv
  <2>3. HandInv'
    BY <1>7, <2>0 DEF HoldAbsence, Goto, WithinGrace, HandInv, LockInv, RowInv
  <2>4. LookupInv'
    BY <1>7, <2>0 DEF HoldAbsence, Goto, WithinGrace, LookupInv, LockInv, RowInv, HandInv,
        Exists, Nothing
  <2>5. ResolveInv'
    BY <1>7, <2>0 DEF HoldAbsence, Goto, WithinGrace, ResolveInv, LockInv, HandInv
  <2>6. SendInv'
    BY <1>7, <2>0 DEF HoldAbsence, Goto, WithinGrace, SendInv, LockInv, HandInv, Unknown
  <2>7. LegsInv'
    BY <1>7, <2>0 DEF HoldAbsence, Goto, WithinGrace, LegsInv, LockInv, Unknown
  <2>8. ReportIsTrue'
    BY <1>7, <2>0 DEF HoldAbsence, Goto, WithinGrace, ReportIsTrue, LockInv, Verdicts
  <2> QED
    BY <1>0, <2>1, <2>2, <2>3, <2>4, <2>5, <2>6, <2>7, <2>8 DEF IInv
<1>8. ASSUME NEW p \in Evaluators, SettlePending(p) PROVE IInv'
  <2>0. \A q \in Evaluators : q # p => pc[q] = "idle"
    BY <1>8, OthersIdle DEF SettlePending
  <2>1. LockInv'
    BY <1>8, <2>0 DEF SettlePending, Goto, Settle, mark_sent, mark_filled, mark_failed,
        WithinGrace, StillPending, LockInv
  <2>2. RowInv'
    <3>1. cur[p] \in Attempts /\ lookup[p] \in Lookups /\ status[cur[p]] = "PENDING"
      BY <1>8 DEF SettlePending, HandInv
    <3>2. /\ lookup[p].kind = "absent" => kraken[cur[p]] \in Nothing
          /\ lookup[p].kind = "unfinished" => kraken[cur[p]] \in Exists
          /\ lookup[p].kind = "finished" =>
               kraken[cur[p]] = "Closed" /\ lookup[p].volume = traded[cur[p]]
      BY <1>8 DEF SettlePending, LookupInv, WithinGrace
    <3>3. Settle(cur[p], lookup[p]) /\ UNCHANGED exchange
      BY <1>8 DEF SettlePending
    <3> QED
      BY <3>1, <3>2, <3>3, SettleKeepsRows
  <2>3. HandInv'
    BY <1>8, <2>0 DEF SettlePending, Goto, Settle, mark_sent, mark_filled, mark_failed,
        WithinGrace, StillPending, HandInv, LockInv, RowInv
  <2>4. LookupInv'
    BY <1>8, <2>0 DEF SettlePending, Goto, Settle, mark_sent, mark_filled, mark_failed,
        WithinGrace, StillPending, LookupInv, LockInv, RowInv, HandInv, Exists, Nothing
  <2>5. ResolveInv'
    BY <1>8, <2>0 DEF SettlePending, Goto, Settle, mark_sent, mark_filled, mark_failed,
        WithinGrace, StillPending, ResolveInv, LockInv, HandInv
  <2>6. SendInv'
    BY <1>8, <2>0 DEF SettlePending, Goto, Settle, mark_sent, mark_filled, mark_failed,
        WithinGrace, StillPending, SendInv, LockInv, HandInv, Unknown
  <2>7. LegsInv'
    BY <1>8, <2>0 DEF SettlePending, Goto, Settle, mark_sent, mark_filled, mark_failed,
        WithinGrace, StillPending, LegsInv, LockInv, Unknown
  <2>8. AtMostOneUnknown'
    BY <1>8 DEF SettlePending, Goto, Settle, mark_sent, mark_filled, mark_failed,
        WithinGrace, StillPending, AtMostOneUnknown, Unknown
  <2>9. ReportIsTrue'
    BY <1>8, <2>0 DEF SettlePending, Goto, Settle, mark_sent, mark_filled, mark_failed,
        WithinGrace, StillPending, ReportIsTrue, LockInv, Verdicts
  <2> QED
    BY <1>0, <2>1, <2>2, <2>3, <2>4, <2>5, <2>6, <2>7, <2>8, <2>9 DEF IInv
<1>9. ASSUME NEW p \in Evaluators, EndResolve(p) PROVE IInv'
  <2>0. \A q \in Evaluators : q # p => pc[q] = "idle"
    BY <1>9, OthersIdle DEF EndResolve
  <2>1. RowInv' /\ AtMostOneUnknown'
    BY <1>9 DEF EndResolve, Goto, EndAs, RowInv, AtMostOneUnknown, Unknown
  <2>2. LockInv'
    BY <1>9, <2>0 DEF EndResolve, Goto, EndAs, LockInv
  <2>3. HandInv'
    BY <1>9, <2>0 DEF EndResolve, Goto, EndAs, HandInv, LockInv, RowInv
  <2>4. LookupInv'
    BY <1>9, <2>0 DEF EndResolve, Goto, EndAs, LookupInv, LockInv, RowInv, HandInv, Exists,
        Nothing
  <2>5. ResolveInv'
    BY <1>9, <2>0 DEF EndResolve, Goto, EndAs, ResolveInv, LockInv, HandInv
  <2>6. SendInv'
    BY <1>9, <2>0 DEF EndResolve, Goto, EndAs, SendInv, LockInv, HandInv, Unknown,
        ResolveInv
  <2>7. LegsInv'
    BY <1>9, <2>0 DEF EndResolve, Goto, EndAs, LegsInv, LockInv, Unknown
  <2>8. ReportIsTrue'
    BY <1>9, <2>0 DEF EndResolve, Goto, EndAs, ReportIsTrue, LockInv, Verdicts
  <2> QED
    BY <1>0, <2>1, <2>2, <2>3, <2>4, <2>5, <2>6, <2>7, <2>8 DEF IInv
<1>10. ASSUME NEW p \in Evaluators, Plan(p) PROVE IInv'
  <2>0. \A q \in Evaluators : q # p => pc[q] = "idle"
    BY <1>10, OthersIdle DEF Plan
  <2>1. RowInv' /\ AtMostOneUnknown'
    BY <1>10 DEF Plan, Goto, RowInv, AtMostOneUnknown, Unknown
  <2>2. LockInv'
    BY <1>10, <2>0 DEF Plan, Goto, LockInv
  <2>3. HandInv'
    BY <1>10, <2>0 DEF Plan, Goto, HandInv, LockInv, RowInv
  <2>4. LookupInv'
    BY <1>10, <2>0 DEF Plan, Goto, LookupInv, LockInv, RowInv, HandInv, Exists, Nothing
  <2>5. ResolveInv'
    BY <1>10, <2>0 DEF Plan, Goto, ResolveInv, LockInv, HandInv
  <2>6. SendInv'
    BY <1>10, <2>0 DEF Plan, Goto, SendInv, LockInv, HandInv, Unknown
  <2>7. LegsInv'
    BY <1>10, <2>0 DEF Plan, Goto, LegsInv, LockInv, Unknown
  <2>8. ReportIsTrue'
    BY <1>10, <2>0 DEF Plan, Goto, ReportIsTrue, LockInv, Verdicts
  <2> QED
    BY <1>0, <2>1, <2>2, <2>3, <2>4, <2>5, <2>6, <2>7, <2>8 DEF IInv
<1>11. ASSUME NEW p \in Evaluators, PlanUnavailable(p) PROVE IInv'
  <2>0. \A q \in Evaluators : q # p => pc[q] = "idle"
    BY <1>11, OthersIdle DEF PlanUnavailable
  <2>1. RowInv' /\ AtMostOneUnknown'
    BY <1>11 DEF PlanUnavailable, Goto, EndAs, RowInv, AtMostOneUnknown, Unknown
  <2>2. LockInv'
    BY <1>11, <2>0 DEF PlanUnavailable, Goto, EndAs, LockInv
  <2>3. HandInv'
    BY <1>11, <2>0 DEF PlanUnavailable, Goto, EndAs, HandInv, LockInv, RowInv
  <2>4. LookupInv'
    BY <1>11, <2>0 DEF PlanUnavailable, Goto, EndAs, LookupInv, LockInv, RowInv, HandInv,
        Exists, Nothing
  <2>5. ResolveInv'
    BY <1>11, <2>0 DEF PlanUnavailable, Goto, EndAs, ResolveInv, LockInv, HandInv
  <2>6. SendInv'
    BY <1>11, <2>0 DEF PlanUnavailable, Goto, EndAs, SendInv, LockInv, HandInv, Unknown
  <2>7. LegsInv'
    BY <1>11, <2>0 DEF PlanUnavailable, Goto, EndAs, LegsInv, LockInv, Unknown
  <2>8. ReportIsTrue'
    BY <1>11, <2>0 DEF PlanUnavailable, Goto, EndAs, ReportIsTrue, LockInv, Verdicts
  <2> QED
    BY <1>0, <2>1, <2>2, <2>3, <2>4, <2>5, <2>6, <2>7, <2>8 DEF IInv
<1>12. ASSUME NEW p \in Evaluators, LetThrough(p) PROVE IInv'
  <2>0. \A q \in Evaluators : q # p => pc[q] = "idle"
    BY <1>12, OthersIdle DEF LetThrough
  <2>1. RowInv' /\ AtMostOneUnknown'
    BY <1>12 DEF LetThrough, Goto, RowInv, AtMostOneUnknown, Unknown
  <2>2. LockInv'
    BY <1>12, <2>0 DEF LetThrough, Goto, LockInv
  <2>3. HandInv'
    BY <1>12, <2>0 DEF LetThrough, Goto, HandInv, LockInv, RowInv
  <2>4. LookupInv'
    BY <1>12, <2>0 DEF LetThrough, Goto, LookupInv, LockInv, RowInv, HandInv, Exists,
        Nothing
  <2>5. ResolveInv'
    BY <1>12, <2>0 DEF LetThrough, Goto, ResolveInv, LockInv, HandInv
  <2>6. SendInv'
    BY <1>12, <2>0 DEF LetThrough, Goto, SendInv, LockInv, HandInv, Unknown
  <2>7. LegsInv'
    BY <1>12, <2>0 DEF LetThrough, Goto, LegsInv, LockInv, Unknown
  <2>8. ReportIsTrue'
    BY <1>12, <2>0 DEF LetThrough, Goto, ReportIsTrue, LockInv, Verdicts
  <2> QED
    BY <1>0, <2>1, <2>2, <2>3, <2>4, <2>5, <2>6, <2>7, <2>8 DEF IInv
<1>13. ASSUME NEW p \in Evaluators, TurnDown(p) PROVE IInv'
  <2>0. \A q \in Evaluators : q # p => pc[q] = "idle"
    BY <1>13, OthersIdle DEF TurnDown
  <2>1. RowInv' /\ AtMostOneUnknown'
    BY <1>13 DEF TurnDown, Goto, EndAs, RowInv, AtMostOneUnknown, Unknown
  <2>2. LockInv'
    BY <1>13, <2>0 DEF TurnDown, Goto, EndAs, LockInv
  <2>3. HandInv'
    BY <1>13, <2>0 DEF TurnDown, Goto, EndAs, HandInv, LockInv, RowInv
  <2>4. LookupInv'
    BY <1>13, <2>0 DEF TurnDown, Goto, EndAs, LookupInv, LockInv, RowInv, HandInv, Exists,
        Nothing
  <2>5. ResolveInv'
    BY <1>13, <2>0 DEF TurnDown, Goto, EndAs, ResolveInv, LockInv, HandInv
  <2>6. SendInv'
    BY <1>13, <2>0 DEF TurnDown, Goto, EndAs, SendInv, LockInv, HandInv, Unknown
  <2>7. LegsInv'
    BY <1>13, <2>0 DEF TurnDown, Goto, EndAs, LegsInv, LockInv, Unknown
  <2>8. ReportIsTrue'
    BY <1>13, <2>0 DEF TurnDown, Goto, EndAs, ReportIsTrue, LockInv, Verdicts
  <2> QED
    BY <1>0, <2>1, <2>2, <2>3, <2>4, <2>5, <2>6, <2>7, <2>8 DEF IInv
<1>14. ASSUME NEW p \in Evaluators, SkipLeg(p) PROVE IInv'
  <2>0. \A q \in Evaluators : q # p => pc[q] = "idle"
    BY <1>14, OthersIdle DEF SkipLeg
  <2>1. RowInv' /\ AtMostOneUnknown'
    BY <1>14 DEF SkipLeg, Goto, RowInv, AtMostOneUnknown, Unknown
  <2>2. LockInv'
    BY <1>14, <2>0 DEF SkipLeg, Goto, LockInv
  <2>3. HandInv'
    BY <1>14, <2>0 DEF SkipLeg, Goto, HandInv, LockInv, RowInv
  <2>4. LookupInv'
    BY <1>14, <2>0 DEF SkipLeg, Goto, LookupInv, LockInv, RowInv, HandInv, Exists, Nothing
  <2>5. ResolveInv'
    BY <1>14, <2>0 DEF SkipLeg, Goto, ResolveInv, LockInv, HandInv
  <2>6. SendInv'
    BY <1>14, <2>0 DEF SkipLeg, Goto, SendInv, LockInv, HandInv, Unknown
  <2>7. LegsInv'
    BY <1>14, <2>0 DEF SkipLeg, Goto, LegsInv, LockInv, Unknown
  <2>8. ReportIsTrue'
    BY <1>14, <2>0 DEF SkipLeg, Goto, ReportIsTrue, LockInv, Verdicts
  <2> QED
    BY <1>0, <2>1, <2>2, <2>3, <2>4, <2>5, <2>6, <2>7, <2>8 DEF IInv
<1>15. ASSUME NEW p \in Evaluators, RecordAttempt(p) PROVE IInv'
  <2>0. \A q \in Evaluators : q # p => pc[q] = "idle"
    BY <1>15, OthersIdle DEF RecordAttempt
  <2>1. LockInv'
    BY <1>15, <2>0 DEF RecordAttempt, Goto, LockInv
  <2>2. RowInv'
    BY <1>15 DEF RecordAttempt, Goto, RowInv, Exists, Nothing, HandInv, LookupInv
  <2>3. HandInv'
    BY <1>15, <2>0 DEF RecordAttempt, Goto, HandInv, LockInv, RowInv, Exists
  <2>4. LookupInv'
    BY <1>15, <2>0 DEF RecordAttempt, Goto, LookupInv, LockInv, RowInv, HandInv, Exists,
        Nothing
  <2>5. ResolveInv'
    BY <1>15, <2>0 DEF RecordAttempt, Goto, ResolveInv, LockInv, HandInv
  <2>6. SendInv'
    BY <1>15, <2>0 DEF RecordAttempt, Goto, SendInv, LockInv, HandInv, Unknown
  <2>7. LegsInv'
    BY <1>15, <2>0 DEF RecordAttempt, Goto, LegsInv, LockInv, Unknown
  <2>8. AtMostOneUnknown'
    <3>1. \A a \in Attempts : ~Unknown(a)
      BY <1>15 DEF RecordAttempt, SendInv
    <3>2. PICK b \in Attempts : status' = [status EXCEPT ![b] = "PENDING"]
      BY <1>15 DEF RecordAttempt
    <3>3. txid' = txid
      BY <1>15 DEF RecordAttempt
    <3> QED
      BY <3>1, <3>2, <3>3 DEF AtMostOneUnknown, Unknown
  <2>9. ReportIsTrue'
    BY <1>15, <2>0 DEF RecordAttempt, Goto, ReportIsTrue, LockInv, Verdicts
  <2> QED
    BY <1>0, <2>1, <2>2, <2>3, <2>4, <2>5, <2>6, <2>7, <2>8, <2>9 DEF IInv
<1>16. ASSUME NEW p \in Evaluators, PlaceOrder(p) PROVE IInv'
  <2>0. \A q \in Evaluators : q # p => pc[q] = "idle"
    BY <1>16, OthersIdle DEF PlaceOrder
  <2>1. LockInv'
    BY <1>16, <2>0 DEF PlaceOrder, Goto, LockInv
  <2>2. RowInv'
    BY <1>16 DEF PlaceOrder, Goto, RowInv, Exists, Nothing, HandInv, LookupInv
  <2>3. HandInv'
    BY <1>16, <2>0 DEF PlaceOrder, Goto, HandInv, LockInv, RowInv
  <2>4. LookupInv'
    BY <1>16, <2>0 DEF PlaceOrder, Goto, LookupInv, LockInv, RowInv, HandInv, Exists,
        Nothing
  <2>5. ResolveInv'
    BY <1>16, <2>0 DEF PlaceOrder, Goto, ResolveInv, LockInv, HandInv
  <2>6. SendInv'
    BY <1>16, <2>0 DEF PlaceOrder, Goto, SendInv, LockInv, HandInv, Unknown
  <2>7. LegsInv'
    BY <1>16, <2>0 DEF PlaceOrder, Goto, LegsInv, LockInv, Unknown
  <2>8. AtMostOneUnknown'
    BY <1>16 DEF PlaceOrder, Goto, AtMostOneUnknown, Unknown
  <2>9. ReportIsTrue'
    BY <1>16, <2>0 DEF PlaceOrder, Goto, ReportIsTrue, LockInv, Verdicts
  <2> QED
    BY <1>0, <2>1, <2>2, <2>3, <2>4, <2>5, <2>6, <2>7, <2>8, <2>9 DEF IInv
<1>17. ASSUME NEW p \in Evaluators, AnswerRefused(p) PROVE IInv'
  <2>0. \A q \in Evaluators : q # p => pc[q] = "idle"
    BY <1>17, OthersIdle DEF AnswerRefused
  <2>1. RowInv' /\ AtMostOneUnknown'
    BY <1>17 DEF AnswerRefused, Goto, RowInv, AtMostOneUnknown, Unknown
  <2>2. LockInv'
    BY <1>17, <2>0 DEF AnswerRefused, Goto, LockInv
  <2>3. HandInv'
    BY <1>17, <2>0 DEF AnswerRefused, Goto, HandInv, LockInv, RowInv
  <2>4. LookupInv'
    BY <1>17, <2>0 DEF AnswerRefused, Goto, LookupInv, LockInv, RowInv, HandInv, Exists,
        Nothing
  <2>5. ResolveInv'
    BY <1>17, <2>0 DEF AnswerRefused, Goto, ResolveInv, LockInv, HandInv
  <2>6. SendInv'
    BY <1>17, <2>0 DEF AnswerRefused, Goto, SendInv, LockInv, HandInv, Unknown
  <2>7. LegsInv'
    BY <1>17, <2>0 DEF AnswerRefused, Goto, LegsInv, LockInv, Unknown
  <2>8. ReportIsTrue'
    BY <1>17, <2>0 DEF AnswerRefused, Goto, ReportIsTrue, LockInv, Verdicts
  <2> QED
    BY <1>0, <2>1, <2>2, <2>3, <2>4, <2>5, <2>6, <2>7, <2>8 DEF IInv
<1>18. ASSUME NEW p \in Evaluators, AnswerSent(p) PROVE IInv'
  <2>0. \A q \in Evaluators : q # p => pc[q] = "idle"
    BY <1>18, OthersIdle DEF AnswerSent
  <2>1. RowInv' /\ AtMostOneUnknown'
    BY <1>18 DEF AnswerSent, Goto, RowInv, AtMostOneUnknown, Unknown
  <2>2. LockInv'
    BY <1>18, <2>0 DEF AnswerSent, Goto, LockInv
  <2>3. HandInv'
    BY <1>18, <2>0 DEF AnswerSent, Goto, HandInv, LockInv, RowInv, Exists
  <2>4. LookupInv'
    BY <1>18, <2>0 DEF AnswerSent, Goto, LookupInv, LockInv, RowInv, HandInv, Exists,
        Nothing
  <2>5. ResolveInv'
    BY <1>18, <2>0 DEF AnswerSent, Goto, ResolveInv, LockInv, HandInv
  <2>6. SendInv'
    BY <1>18, <2>0 DEF AnswerSent, Goto, SendInv, LockInv, HandInv, Unknown
  <2>7. LegsInv'
    BY <1>18, <2>0 DEF AnswerSent, Goto, LegsInv, LockInv, Unknown
  <2>8. ReportIsTrue'
    BY <1>18, <2>0 DEF AnswerSent, Goto, ReportIsTrue, LockInv, Verdicts
  <2> QED
    BY <1>0, <2>1, <2>2, <2>3, <2>4, <2>5, <2>6, <2>7, <2>8 DEF IInv
<1>19. ASSUME NEW p \in Evaluators, AnswerUnknown(p) PROVE IInv'
  <2>0. \A q \in Evaluators : q # p => pc[q] = "idle"
    BY <1>19, OthersIdle DEF AnswerUnknown
  <2>1. RowInv' /\ AtMostOneUnknown'
    BY <1>19 DEF AnswerUnknown, Goto, RowInv, AtMostOneUnknown, Unknown
  <2>2. LockInv'
    BY <1>19, <2>0 DEF AnswerUnknown, Goto, LockInv
  <2>3. HandInv'
    BY <1>19, <2>0 DEF AnswerUnknown, Goto, HandInv, LockInv, RowInv
  <2>4. LookupInv'
    BY <1>19, <2>0 DEF AnswerUnknown, Goto, LookupInv, LockInv, RowInv, HandInv, Exists,
        Nothing
  <2>5. ResolveInv'
    BY <1>19, <2>0 DEF AnswerUnknown, Goto, ResolveInv, LockInv, HandInv
  <2>6. SendInv'
    BY <1>19, <2>0 DEF AnswerUnknown, Goto, SendInv, LockInv, HandInv, Unknown
  <2>7. LegsInv'
    BY <1>19, <2>0 DEF AnswerUnknown, Goto, LegsInv, LockInv, Unknown, SendInv, HandInv
  <2>8. ReportIsTrue'
    BY <1>19, <2>0 DEF AnswerUnknown, Goto, ReportIsTrue, LockInv, Verdicts
  <2> QED
    BY <1>0, <2>1, <2>2, <2>3, <2>4, <2>5, <2>6, <2>7, <2>8 DEF IInv
<1>20. ASSUME NEW p \in Evaluators, MarkRefused(p) PROVE IInv'
  <2>0. \A q \in Evaluators : q # p => pc[q] = "idle"
    BY <1>20, OthersIdle DEF MarkRefused
  <2>1. LockInv'
    BY <1>20, <2>0 DEF MarkRefused, Goto, mark_failed, LockInv
  <2>2. RowInv'
    BY <1>20 DEF MarkRefused, Goto, mark_failed, RowInv, Exists, Nothing, HandInv, LookupInv
  <2>3. HandInv'
    BY <1>20, <2>0 DEF MarkRefused, Goto, mark_failed, HandInv, LockInv, RowInv
  <2>4. LookupInv'
    BY <1>20, <2>0 DEF MarkRefused, Goto, mark_failed, LookupInv, LockInv, RowInv, HandInv,
        Exists, Nothing
  <2>5. ResolveInv'
    BY <1>20, <2>0 DEF MarkRefused, Goto, mark_failed, ResolveInv, LockInv, HandInv
  <2>6. SendInv'
    BY <1>20, <2>0 DEF MarkRefused, Goto, mark_failed, SendInv, LockInv, HandInv, Unknown
  <2>7. LegsInv'
    BY <1>20, <2>0 DEF MarkRefused, Goto, mark_failed, LegsInv, LockInv, Unknown
  <2>8. AtMostOneUnknown'
    BY <1>20 DEF MarkRefused, Goto, mark_failed, AtMostOneUnknown, Unknown
  <2>9. ReportIsTrue'
    BY <1>20, <2>0 DEF MarkRefused, Goto, mark_failed, ReportIsTrue, LockInv, Verdicts
  <2> QED
    BY <1>0, <2>1, <2>2, <2>3, <2>4, <2>5, <2>6, <2>7, <2>8, <2>9 DEF IInv
<1>21. ASSUME NEW p \in Evaluators, MarkSent(p) PROVE IInv'
  <2>0. \A q \in Evaluators : q # p => pc[q] = "idle"
    BY <1>21, OthersIdle DEF MarkSent
  <2>1. LockInv'
    BY <1>21, <2>0 DEF MarkSent, Goto, mark_sent, LockInv
  <2>2. RowInv'
    BY <1>21 DEF MarkSent, Goto, mark_sent, RowInv, Exists, Nothing, HandInv, LookupInv
  <2>3. HandInv'
    BY <1>21, <2>0 DEF MarkSent, Goto, mark_sent, HandInv, LockInv, RowInv
  <2>4. LookupInv'
    BY <1>21, <2>0 DEF MarkSent, Goto, mark_sent, LookupInv, LockInv, RowInv, HandInv,
        Exists, Nothing
  <2>5. ResolveInv'
    BY <1>21, <2>0 DEF MarkSent, Goto, mark_sent, ResolveInv, LockInv, HandInv
  <2>6. SendInv'
    BY <1>21, <2>0 DEF MarkSent, Goto, mark_sent, SendInv, LockInv, HandInv, Unknown
  <2>7. LegsInv'
    BY <1>21, <2>0 DEF MarkSent, Goto, mark_sent, LegsInv, LockInv, Unknown
  <2>8. AtMostOneUnknown'
    BY <1>21 DEF MarkSent, Goto, mark_sent, AtMostOneUnknown, Unknown
  <2>9. ReportIsTrue'
    BY <1>21, <2>0 DEF MarkSent, Goto, mark_sent, ReportIsTrue, LockInv, Verdicts
  <2> QED
    BY <1>0, <2>1, <2>2, <2>3, <2>4, <2>5, <2>6, <2>7, <2>8, <2>9 DEF IInv
<1>22. ASSUME NEW p \in Evaluators, SettleSent(p) PROVE IInv'
  <2>0. \A q \in Evaluators : q # p => pc[q] = "idle"
    BY <1>22, OthersIdle DEF SettleSent
  <2>1. LockInv'
    BY <1>22, <2>0 DEF SettleSent, Goto, Settle, mark_sent, mark_filled, mark_failed,
        LockInv
  <2>2. RowInv'
    <3>1. cur[p] \in Attempts /\ lookup[p] \in Lookups /\ status[cur[p]] = "PENDING"
      BY <1>22 DEF SettleSent, HandInv
    <3>2. /\ lookup[p].kind = "absent" => kraken[cur[p]] \in Nothing
          /\ lookup[p].kind = "unfinished" => kraken[cur[p]] \in Exists
          /\ lookup[p].kind = "finished" =>
               kraken[cur[p]] = "Closed" /\ lookup[p].volume = traded[cur[p]]
      BY <1>22 DEF SettleSent, LookupInv
    <3>3. Settle(cur[p], lookup[p]) /\ UNCHANGED exchange
      BY <1>22 DEF SettleSent
    <3> QED
      BY <3>1, <3>2, <3>3, SettleKeepsRows
  <2>3. HandInv'
    BY <1>22, <2>0 DEF SettleSent, Goto, Settle, mark_sent, mark_filled, mark_failed,
        HandInv, LockInv, RowInv
  <2>4. LookupInv'
    BY <1>22, <2>0 DEF SettleSent, Goto, Settle, mark_sent, mark_filled, mark_failed,
        LookupInv, LockInv, RowInv, HandInv, Exists, Nothing
  <2>5. ResolveInv'
    BY <1>22, <2>0 DEF SettleSent, Goto, Settle, mark_sent, mark_filled, mark_failed,
        ResolveInv, LockInv, HandInv
  <2>6. SendInv'
    BY <1>22, <2>0 DEF SettleSent, Goto, Settle, mark_sent, mark_filled, mark_failed,
        SendInv, LockInv, HandInv, Unknown
  <2>7. LegsInv'
    BY <1>22, <2>0 DEF SettleSent, Goto, Settle, mark_sent, mark_filled, mark_failed,
        LegsInv, LockInv, Unknown
  <2>8. AtMostOneUnknown'
    BY <1>22 DEF SettleSent, Goto, Settle, mark_sent, mark_filled, mark_failed,
        AtMostOneUnknown, Unknown
  <2>9. ReportIsTrue'
    BY <1>22, <2>0 DEF SettleSent, Goto, Settle, mark_sent, mark_filled, mark_failed,
        ReportIsTrue, LockInv, Verdicts
  <2> QED
    BY <1>0, <2>1, <2>2, <2>3, <2>4, <2>5, <2>6, <2>7, <2>8, <2>9 DEF IInv
<1>23. ASSUME NEW p \in Evaluators, EndSend(p) PROVE IInv'
  <2>0. \A q \in Evaluators : q # p => pc[q] = "idle"
    BY <1>23, OthersIdle DEF EndSend
  <2>1. RowInv' /\ AtMostOneUnknown'
    BY <1>23 DEF EndSend, Goto, EndAs, RowInv, AtMostOneUnknown, Unknown
  <2>2. LockInv'
    BY <1>23, <2>0 DEF EndSend, Goto, EndAs, LockInv
  <2>3. HandInv'
    BY <1>23, <2>0 DEF EndSend, Goto, EndAs, HandInv, LockInv, RowInv
  <2>4. LookupInv'
    BY <1>23, <2>0 DEF EndSend, Goto, EndAs, LookupInv, LockInv, RowInv, HandInv, Exists,
        Nothing
  <2>5. ResolveInv'
    BY <1>23, <2>0 DEF EndSend, Goto, EndAs, ResolveInv, LockInv, HandInv
  <2>6. SendInv'
    BY <1>23, <2>0 DEF EndSend, Goto, EndAs, SendInv, LockInv, HandInv, Unknown
  <2>7. LegsInv'
    BY <1>23, <2>0 DEF EndSend, Goto, EndAs, LegsInv, LockInv, Unknown
  <2>8. ReportIsTrue'
    <3>1. \A a \in Attempts : Unknown(a) => stopped[p]
      BY <1>23 DEF EndSend, SendInv
    <3>2. \A a \in sent[p] : status[a] # "NONE"
      BY <1>23 DEF EndSend, LegsInv
    <3>3. stopped[p] => \E a \in sent[p] : Unknown(a)
      BY <1>23 DEF EndSend, LegsInv
    <3>4. \A a \in Attempts : status[a] = "FILLED" => txid[a]
      BY DEF RowInv
    <3>5. ~stopped[p] => \A a \in sent[p] : txid[a] \/ status[a] = "FAILED"
      BY <3>1, <3>2, <3>4 DEF Unknown, RowStatus
    <3>6. result'[p] = SentStatus(p) /\ sent' = sent /\ status' = status /\ txid' = txid
      BY <1>23 DEF EndSend, EndAs
    <3>7. result'[p] \in Verdicts \cup {"UNRESOLVED", "KRAKEN_UNAVAILABLE"} => sent[p] = {}
      BY <3>6 DEF SentStatus, Verdicts
    <3>8. result'[p] = "DONE" => \A a \in sent[p] : txid[a] /\ status[a] # "FAILED"
      BY <3>5, <3>6 DEF SentStatus
    <3>9. result'[p] = "PARTIAL" => ~stopped[p]
      BY <3>6 DEF SentStatus
    <3>10. result'[p] = "STOPPED" => stopped[p]
      BY <3>6 DEF SentStatus
    <3>11. \A q \in Evaluators : pc'[q] = "finish" => q = p
      BY <1>23, <2>0 DEF EndSend, EndAs, Goto
    <3> QED
      BY <3>3, <3>5, <3>6, <3>7, <3>8, <3>9, <3>10, <3>11 DEF ReportIsTrue, Unknown
  <2> QED
    BY <1>0, <2>1, <2>2, <2>3, <2>4, <2>5, <2>6, <2>7, <2>8 DEF IInv
<1>24. ASSUME NEW p \in Evaluators, Unlock(p) PROVE IInv'
  <2>0. \A q \in Evaluators : q # p => pc[q] = "idle"
    BY <1>24, OthersIdle DEF Unlock
  <2>1. RowInv' /\ AtMostOneUnknown'
    BY <1>24 DEF Unlock, Goto, Forget, NoLookup, RowInv, AtMostOneUnknown, Unknown
  <2>2. LockInv'
    BY <1>24, <2>0 DEF Unlock, Goto, Forget, NoLookup, LockInv
  <2>3. HandInv'
    BY <1>24, <2>0 DEF Unlock, Goto, Forget, NoLookup, HandInv, LockInv, RowInv
  <2>4. LookupInv'
    BY <1>24, <2>0 DEF Unlock, Goto, Forget, NoLookup, LookupInv, LockInv, RowInv, HandInv,
        Exists, Nothing
  <2>5. ResolveInv'
    BY <1>24, <2>0 DEF Unlock, Goto, Forget, NoLookup, ResolveInv, LockInv, HandInv
  <2>6. SendInv'
    BY <1>24, <2>0 DEF Unlock, Goto, Forget, NoLookup, SendInv, LockInv, HandInv, Unknown
  <2>7. LegsInv'
    BY <1>24, <2>0 DEF Unlock, Goto, Forget, NoLookup, LegsInv, LockInv, Unknown
  <2>8. ReportIsTrue'
    BY <1>24, <2>0 DEF Unlock, Goto, Forget, NoLookup, ReportIsTrue, LockInv, Verdicts
  <2> QED
    BY <1>0, <2>1, <2>2, <2>3, <2>4, <2>5, <2>6, <2>7, <2>8 DEF IInv
<1>25. ASSUME NEW p \in Evaluators, QueryByTxidFails(p) PROVE IInv'
  <2>0. \A q \in Evaluators : q # p => pc[q] = "idle"
    BY <1>25, OthersIdle DEF QueryByTxidFails
  <2>1. RowInv' /\ AtMostOneUnknown'
    BY <1>25 DEF QueryByTxidFails, Goto, NoLookup, RowInv, AtMostOneUnknown, Unknown
  <2>2. LockInv'
    BY <1>25, <2>0 DEF QueryByTxidFails, Goto, NoLookup, LockInv
  <2>3. HandInv'
    BY <1>25, <2>0 DEF QueryByTxidFails, Goto, NoLookup, HandInv, LockInv, RowInv
  <2>4. LookupInv'
    BY <1>25, <2>0 DEF QueryByTxidFails, Goto, NoLookup, LookupInv, LockInv, RowInv,
        HandInv, Exists, Nothing
  <2>5. ResolveInv'
    BY <1>25, <2>0 DEF QueryByTxidFails, Goto, NoLookup, ResolveInv, LockInv, HandInv
  <2>6. SendInv'
    BY <1>25, <2>0 DEF QueryByTxidFails, Goto, NoLookup, SendInv, LockInv, HandInv, Unknown
  <2>7. LegsInv'
    BY <1>25, <2>0 DEF QueryByTxidFails, Goto, NoLookup, LegsInv, LockInv, Unknown
  <2>8. ReportIsTrue'
    BY <1>25, <2>0 DEF QueryByTxidFails, Goto, NoLookup, ReportIsTrue, LockInv, Verdicts
  <2> QED
    BY <1>0, <2>1, <2>2, <2>3, <2>4, <2>5, <2>6, <2>7, <2>8 DEF IInv
<1>26. ASSUME NEW p \in Evaluators, OpenOrdersFails(p) PROVE IInv'
  <2>0. \A q \in Evaluators : q # p => pc[q] = "idle"
    BY <1>26, OthersIdle DEF OpenOrdersFails
  <2>1. RowInv' /\ AtMostOneUnknown'
    BY <1>26 DEF OpenOrdersFails, Goto, RowInv, AtMostOneUnknown, Unknown
  <2>2. LockInv'
    BY <1>26, <2>0 DEF OpenOrdersFails, Goto, LockInv
  <2>3. HandInv'
    BY <1>26, <2>0 DEF OpenOrdersFails, Goto, HandInv, LockInv, RowInv
  <2>4. LookupInv'
    BY <1>26, <2>0 DEF OpenOrdersFails, Goto, LookupInv, LockInv, RowInv, HandInv, Exists,
        Nothing
  <2>5. ResolveInv'
    BY <1>26, <2>0 DEF OpenOrdersFails, Goto, ResolveInv, LockInv, HandInv
  <2>6. SendInv'
    BY <1>26, <2>0 DEF OpenOrdersFails, Goto, SendInv, LockInv, HandInv, Unknown
  <2>7. LegsInv'
    BY <1>26, <2>0 DEF OpenOrdersFails, Goto, LegsInv, LockInv, Unknown
  <2>8. ReportIsTrue'
    BY <1>26, <2>0 DEF OpenOrdersFails, Goto, ReportIsTrue, LockInv, Verdicts
  <2> QED
    BY <1>0, <2>1, <2>2, <2>3, <2>4, <2>5, <2>6, <2>7, <2>8 DEF IInv
<1>27. ASSUME NEW p \in Evaluators, ClosedOrdersFails(p) PROVE IInv'
  <2>0. \A q \in Evaluators : q # p => pc[q] = "idle"
    BY <1>27, OthersIdle DEF ClosedOrdersFails
  <2>1. RowInv' /\ AtMostOneUnknown'
    BY <1>27 DEF ClosedOrdersFails, Goto, NoLookup, RowInv, AtMostOneUnknown, Unknown
  <2>2. LockInv'
    BY <1>27, <2>0 DEF ClosedOrdersFails, Goto, NoLookup, LockInv
  <2>3. HandInv'
    BY <1>27, <2>0 DEF ClosedOrdersFails, Goto, NoLookup, HandInv, LockInv, RowInv
  <2>4. LookupInv'
    BY <1>27, <2>0 DEF ClosedOrdersFails, Goto, NoLookup, LookupInv, LockInv, RowInv,
        HandInv, Exists, Nothing
  <2>5. ResolveInv'
    BY <1>27, <2>0 DEF ClosedOrdersFails, Goto, NoLookup, ResolveInv, LockInv, HandInv
  <2>6. SendInv'
    BY <1>27, <2>0 DEF ClosedOrdersFails, Goto, NoLookup, SendInv, LockInv, HandInv, Unknown
  <2>7. LegsInv'
    BY <1>27, <2>0 DEF ClosedOrdersFails, Goto, NoLookup, LegsInv, LockInv, Unknown
  <2>8. ReportIsTrue'
    BY <1>27, <2>0 DEF ClosedOrdersFails, Goto, NoLookup, ReportIsTrue, LockInv, Verdicts
  <2> QED
    BY <1>0, <2>1, <2>2, <2>3, <2>4, <2>5, <2>6, <2>7, <2>8 DEF IInv
<1>28. ASSUME NEW p \in Evaluators, Raise(p) PROVE IInv'
  <2>0. \A q \in Evaluators : q # p => pc[q] = "idle"
    BY <1>28, OthersIdle DEF Raise, Working
  <2>1. RowInv' /\ AtMostOneUnknown'
    BY <1>28 DEF Raise, Goto, EndAs, Working, RowInv, AtMostOneUnknown, Unknown
  <2>2. LockInv'
    BY <1>28, <2>0 DEF Raise, Goto, EndAs, Working, LockInv
  <2>3. HandInv'
    BY <1>28, <2>0 DEF Raise, Goto, EndAs, Working, HandInv, LockInv, RowInv
  <2>4. LookupInv'
    BY <1>28, <2>0 DEF Raise, Goto, EndAs, Working, LookupInv, LockInv, RowInv, HandInv,
        Exists, Nothing
  <2>5. ResolveInv'
    BY <1>28, <2>0 DEF Raise, Goto, EndAs, Working, ResolveInv, LockInv, HandInv
  <2>6. SendInv'
    BY <1>28, <2>0 DEF Raise, Goto, EndAs, Working, SendInv, LockInv, HandInv, Unknown
  <2>7. LegsInv'
    BY <1>28, <2>0 DEF Raise, Goto, EndAs, Working, LegsInv, LockInv, Unknown
  <2>8. ReportIsTrue'
    BY <1>28, <2>0 DEF Raise, Goto, EndAs, Working, ReportIsTrue, LockInv, Verdicts
  <2> QED
    BY <1>0, <2>1, <2>2, <2>3, <2>4, <2>5, <2>6, <2>7, <2>8 DEF IInv
<1>29. ASSUME NEW p \in Evaluators, Crash(p) PROVE IInv'
  <2>0. \A q \in Evaluators : q # p => pc[q] = "idle"
    BY <1>29, OthersIdle DEF Crash
  <2>1. RowInv' /\ AtMostOneUnknown'
    BY <1>29 DEF Crash, Goto, Forget, NoLookup, RowInv, AtMostOneUnknown, Unknown
  <2>2. LockInv'
    BY <1>29, <2>0 DEF Crash, Goto, Forget, NoLookup, LockInv
  <2>3. HandInv'
    BY <1>29, <2>0 DEF Crash, Goto, Forget, NoLookup, HandInv, LockInv, RowInv
  <2>4. LookupInv'
    BY <1>29, <2>0 DEF Crash, Goto, Forget, NoLookup, LookupInv, LockInv, RowInv, HandInv,
        Exists, Nothing
  <2>5. ResolveInv'
    BY <1>29, <2>0 DEF Crash, Goto, Forget, NoLookup, ResolveInv, LockInv, HandInv
  <2>6. SendInv'
    BY <1>29, <2>0 DEF Crash, Goto, Forget, NoLookup, SendInv, LockInv, HandInv, Unknown
  <2>7. LegsInv'
    BY <1>29, <2>0 DEF Crash, Goto, Forget, NoLookup, LegsInv, LockInv, Unknown
  <2>8. ReportIsTrue'
    BY <1>29, <2>0 DEF Crash, Goto, Forget, NoLookup, ReportIsTrue, LockInv, Verdicts
  <2> QED
    BY <1>0, <2>1, <2>2, <2>3, <2>4, <2>5, <2>6, <2>7, <2>8 DEF IInv
<1>30. ASSUME NEW a \in Attempts, Accept(a) PROVE IInv'
  <2>1. LockInv' /\ ResolveInv' /\ SendInv' /\ LegsInv' /\ AtMostOneUnknown' /\ ReportIsTrue'
    BY <1>30 DEF Accept, LockInv, ResolveInv, SendInv, LegsInv, AtMostOneUnknown, Unknown,
        ReportIsTrue
  <2>2. RowInv'
    BY <1>30 DEF Accept, RowInv, Exists, Nothing, HandInv, LookupInv
  <2>3. HandInv'
    BY <1>30 DEF Accept, HandInv, LockInv, RowInv, Exists
  <2>4. LookupInv'
    BY <1>30 DEF Accept, LookupInv, LockInv, RowInv, HandInv, Exists, Nothing
  <2> QED
    BY <1>0, <2>1, <2>2, <2>3, <2>4 DEF IInv
<1>31. ASSUME NEW a \in Attempts, Drop(a) PROVE IInv'
  <2>1. LockInv' /\ ResolveInv' /\ SendInv' /\ LegsInv' /\ AtMostOneUnknown' /\ ReportIsTrue'
    BY <1>31 DEF Drop, LockInv, ResolveInv, SendInv, LegsInv, AtMostOneUnknown, Unknown,
        ReportIsTrue
  <2>2. RowInv'
    BY <1>31 DEF Drop, RowInv, Exists, Nothing, HandInv, LookupInv
  <2>3. HandInv'
    BY <1>31 DEF Drop, HandInv, LockInv, RowInv, Exists
  <2>4. LookupInv'
    BY <1>31 DEF Drop, LookupInv, LockInv, RowInv, HandInv, Exists, Nothing
  <2> QED
    BY <1>0, <2>1, <2>2, <2>3, <2>4 DEF IInv
<1>32. ASSUME NEW a \in Attempts, List(a) PROVE IInv'
  <2>1. LockInv' /\ ResolveInv' /\ SendInv' /\ LegsInv' /\ AtMostOneUnknown' /\ ReportIsTrue'
    BY <1>32 DEF List, LockInv, ResolveInv, SendInv, LegsInv, AtMostOneUnknown, Unknown,
        ReportIsTrue
  <2>2. RowInv'
    BY <1>32 DEF List, RowInv, Exists, Nothing, HandInv, LookupInv
  <2>3. HandInv'
    BY <1>32 DEF List, HandInv, LockInv, RowInv, Exists
  <2>4. LookupInv'
    BY <1>32 DEF List, LookupInv, LockInv, RowInv, HandInv, Exists, Nothing
  <2> QED
    BY <1>0, <2>1, <2>2, <2>3, <2>4 DEF IInv
<1>33. ASSUME NEW a \in Attempts, Trade(a) PROVE IInv'
  <2>1. LockInv' /\ ResolveInv' /\ SendInv' /\ LegsInv' /\ AtMostOneUnknown' /\ ReportIsTrue'
    BY <1>33 DEF Trade, LockInv, ResolveInv, SendInv, LegsInv, AtMostOneUnknown, Unknown,
        ReportIsTrue
  <2>2. RowInv'
    BY <1>33 DEF Trade, RowInv, Exists, Nothing, HandInv, LookupInv
  <2>3. HandInv'
    BY <1>33 DEF Trade, HandInv, LockInv, RowInv, Exists
  <2>4. LookupInv'
    BY <1>33 DEF Trade, LookupInv, LockInv, RowInv, HandInv, Exists, Nothing
  <2> QED
    BY <1>0, <2>1, <2>2, <2>3, <2>4 DEF IInv
<1>34. ASSUME NEW a \in Attempts, Close(a) PROVE IInv'
  <2>1. LockInv' /\ ResolveInv' /\ SendInv' /\ LegsInv' /\ AtMostOneUnknown' /\ ReportIsTrue'
    BY <1>34 DEF Close, LockInv, ResolveInv, SendInv, LegsInv, AtMostOneUnknown, Unknown,
        ReportIsTrue
  <2>2. RowInv'
    BY <1>34 DEF Close, RowInv, Exists, Nothing, HandInv, LookupInv
  <2>3. HandInv'
    BY <1>34 DEF Close, HandInv, LockInv, RowInv, Exists
  <2>4. LookupInv'
    BY <1>34 DEF Close, LookupInv, LockInv, RowInv, HandInv, Exists, Nothing
  <2> QED
    BY <1>0, <2>1, <2>2, <2>3, <2>4 DEF IInv
<1>35. ASSUME Tick PROVE IInv'
  <2>1. LockInv' /\ ResolveInv' /\ SendInv' /\ LegsInv' /\ AtMostOneUnknown' /\ ReportIsTrue'
    BY <1>35 DEF Tick, LockInv, ResolveInv, SendInv, LegsInv, AtMostOneUnknown, Unknown,
        ReportIsTrue, Unlisted, Placing
  <2>2. RowInv'
    BY <1>35 DEF Tick, RowInv, Exists, Nothing, HandInv, LookupInv, Unlisted, Placing
  <2>3. HandInv'
    BY <1>35 DEF Tick, HandInv, LockInv, RowInv, Unlisted, Placing
  <2>4. LookupInv'
    BY <1>35 DEF Tick, LookupInv, LockInv, RowInv, HandInv, Exists, Nothing, Unlisted,
        Placing
  <2> QED
    BY <1>0, <2>1, <2>2, <2>3, <2>4 DEF IInv
<1>36. CASE UNCHANGED vars
  BY <1>36, <1>0 DEF vars, IInv, LockInv, RowInv, HandInv, LookupInv, ResolveInv, SendInv,
      LegsInv, AtMostOneUnknown, ReportIsTrue, Unknown
<1> QED
  BY <1>1, <1>2, <1>3, <1>4, <1>5, <1>6, <1>7, <1>8, <1>9, <1>10, <1>11, <1>12, <1>13, <1>14,
       <1>15, <1>16, <1>17, <1>18, <1>19, <1>20, <1>21, <1>22, <1>23, <1>24, <1>25, <1>26,
       <1>27, <1>28, <1>29, <1>30, <1>31, <1>32, <1>33, <1>34, <1>35, <1>36 DEF
      Next, Progress, Fault, Kraken

\* The inductive invariant holds in every reachable state.
THEOREM Invariance == Spec => []IInv
<1>1. IInv /\ [Next]_vars => IInv'
  BY InvStep DEF IInv
<1> QED
  BY InvInit, <1>1, PTL DEF Spec

-----------------------------------------------------------------------------
(* The safety properties. *)

\* Under IInv, nothing more can trade once a row is not PENDING.
LEMMA OverUnlessPending ==
  ASSUME IInv, NEW a \in Attempts, status[a] # "PENDING"
  PROVE  Over(a)
<1>1. kraken[a] \in {"None", "Dropped", "Closed"}
  BY DEF IInv, TypeOK, RowInv, RowStatus, Nothing
<1>2. ~Placing(a)
  BY DEF IInv, HandInv, AtHand, Unnamed, Placing
<1> QED
  BY <1>1, <1>2 DEF Over

\* A FAILED row traded nothing and never will; a FILLED row holds all its
\* order traded.
THEOREM LedgerTrue == Spec => []LedgerIsTrue
<1>1. IInv => LedgerIsTrue
  BY OverUnlessPending DEF IInv, RowInv, LedgerIsTrue
<1> QED
  BY <1>1, Invariance, PTL

\* From the read of the account to the last leg, no order of another
\* evaluation can trade.
THEOREM SettledAccount == Spec => []PlansOnSettledAccount
<1>1. IInv => PlansOnSettledAccount
  BY OverUnlessPending DEF IInv, SendInv, PlansOnSettledAccount
<1> QED
  BY <1>1, Invariance, PTL

\* Never two attempts whose fate is unknown.
THEOREM OneUnknown == Spec => []AtMostOneUnknown
<1>1. IInv => AtMostOneUnknown
  BY DEF IInv
<1> QED
  BY <1>1, Invariance, PTL

\* Nothing is at Kraken, or on its way there, without a committed row.
THEOREM RowBeforeOrder == Spec => []EveryOrderHasItsRow
<1>1. IInv => EveryOrderHasItsRow
  BY DEF IInv, RowInv, EveryOrderHasItsRow
<1> QED
  BY <1>1, Invariance, PTL

\* What an evaluation reports about its orders is true when it lets go of the
\* lock.
THEOREM TrueReport == Spec => []ReportIsTrue
<1>1. IInv => ReportIsTrue
  BY DEF IInv
<1> QED
  BY <1>1, Invariance, PTL
-----------------------------------------------------------------------------
(***************************************************************************)
(* OrderLedger implements OrderPromise, for every value of the constants.  *)
(* Under the inductive invariant every step of OrderLedger is a step of the*)
(* promise about the row it touches, or leaves the promise's state alone.  *)
(***************************************************************************)
\* An empty ledger maps to the promise's empty ledger.
LEMMA PromiseInit == Init => Promise!Init
BY DEF Init, Promise!Init, market

\* The market's view of the attempts changes with the rows, the orders and
\* the requests about to be sent, and with nothing else.
LEMMA MarketStutters ==
  ASSUME status' = status, kraken' = kraken, \A a \in Attempts : Placing(a)' <=> Placing(a)
  PROVE  market' = market
BY DEF market, Over

\* A step that touches neither rows nor orders, and does not enter or leave
\* the sending of a request, is invisible.
LEMMA Invisible ==
  ASSUME UNCHANGED <<status, txid, executed, exchange>>,
         \A a \in Attempts : Placing(a)' <=> Placing(a)
  PROVE  UNCHANGED Promise!promiseVars
BY MarketStutters DEF exchange, Promise!promiseVars

\* When only the request about to be sent for row c is given up, that attempt
\* is over and nothing else moves.
LEMMA GivenUp ==
  ASSUME IInv, NEW p \in Evaluators, pc[p] # "idle", TypeOK',
         UNCHANGED <<status, txid, executed, exchange>>,
         pc' = [pc EXCEPT ![p] = pc'[p]], pc'[p] # "place",
         \A q \in Evaluators : q # p => cur'[q] = cur[q]
  PROVE  [Promise!Next]_(Promise!promiseVars)
<1> USE DEF IInv
<1>1. \A q \in Evaluators : q # p => pc[q] = "idle"
  BY OthersIdle
<1>2. \A a \in Attempts : ~Placing(a)'
  BY <1>1 DEF TypeOK, Placing
<1>3. CASE pc[p] = "place"
  <2> DEFINE c == cur[p]
  <2>1. c \in Attempts /\ status[c] = "PENDING" /\ kraken[c] = "None"
    BY <1>3 DEF TypeOK, HandInv, AtHand, Unnamed
  <2>2. Placing(c) /\ \A a \in Attempts : Placing(a) => a = c
    BY <1>1, <1>3 DEF Placing
  <2>3. market[c] = "live"
    BY <2>1, <2>2 DEF market, Over
  <2>4. market' = [market EXCEPT ![c] = "over"]
    BY <1>2, <2>1, <2>2 DEF market, Over, exchange
  <2>5. Promise!End(c)
    BY <2>3, <2>4 DEF Promise!End, exchange
  <2> QED
    BY <2>1, <2>5 DEF Promise!Next
<1>4. CASE pc[p] # "place"
  <2>1. \A a \in Attempts : ~Placing(a)
    BY <1>1, <1>4 DEF Placing
  <2> QED
    BY <1>2, <2>1, Invisible
<1> QED
  BY <1>3, <1>4

\* What `settle` writes about the row at hand, whose lookup is true, is a
\* booking, a naming, or nothing.
LEMMA SettleIsPromised ==
  ASSUME IInv, NEW a \in Attempts, NEW look \in Lookups, Settle(a, look),
         UNCHANGED exchange, status[a] = "PENDING", ~Placing(a),
         \A b \in Attempts : Placing(b)' <=> Placing(b),
         look.kind = "absent" => kraken[a] \in Nothing,
         look.kind = "finished" => kraken[a] = "Closed" /\ look.volume = traded[a]
  PROVE  [Promise!Next]_(Promise!promiseVars)
<1> USE DEF IInv, TypeOK
<1>0. \A b \in Attempts : status'[b] # "NONE" <=> status[b] # "NONE"
  BY DEF Settle, ledger, mark_failed, mark_filled, mark_sent
<1>1. market' = market
  BY <1>0 DEF market, Over, exchange
<1>2. CASE look.kind = "failed" /\ UNCHANGED ledger
  BY <1>1, <1>2 DEF ledger, exchange, Promise!promiseVars
<1>3. CASE look.kind = "absent" /\ mark_failed(a)
  <2>1. traded[a] = 0 /\ executed[a] = 0 /\ market[a] = "over"
    BY <1>3 DEF RowInv, Nothing, Exists, market, Over
  <2>2. Promise!Book(a)
    BY <1>1, <1>3, <2>1 DEF mark_failed, exchange, Promise!Book
  <2> QED
    BY <2>2 DEF Promise!Next
<1>4. CASE look.kind = "finished" /\ look.volume > 0 /\ mark_filled(a, look.volume)
  <2>1. traded[a] > 0 /\ look.volume = traded[a] /\ market[a] = "over"
    BY <1>4 DEF market, Over
  <2>2. Promise!Book(a)
    BY <1>1, <1>4, <2>1 DEF mark_filled, exchange, Promise!Book
  <2> QED
    BY <2>2 DEF Promise!Next
<1>5. CASE look.kind = "finished" /\ look.volume = 0 /\ mark_failed(a)
  <2>1. traded[a] = 0 /\ executed[a] = 0 /\ market[a] = "over"
    BY <1>5 DEF RowInv, market, Over
  <2>2. Promise!Book(a)
    BY <1>1, <1>5, <2>1 DEF mark_failed, exchange, Promise!Book
  <2> QED
    BY <2>2 DEF Promise!Next
<1>6. CASE look.kind = "unfinished" /\ mark_sent(a)
  <2>1. Promise!Name(a)
    BY <1>1, <1>6 DEF mark_sent, exchange, Promise!Name
  <2> QED
    BY <2>1 DEF Promise!Next
<1> QED
  BY <1>2, <1>3, <1>4, <1>5, <1>6 DEF Settle

\* Every step of OrderLedger is a step of the promise or leaves it alone.
LEMMA PromiseStep == IInv /\ IInv' /\ [Next]_vars => [Promise!Next]_(Promise!promiseVars)
<1> SUFFICES ASSUME IInv, IInv', [Next]_vars PROVE [Promise!Next]_(Promise!promiseVars)
  OBVIOUS
<1> DEFINE Promised == [Promise!Next]_(Promise!promiseVars)
<1>0. TypeOK /\ TypeOK'
  BY DEF IInv
<1> USE DEF evalVars, ledger
<1>1. ASSUME NEW p \in Evaluators, BeginEvaluation(p) PROVE Promised
  <2>1. \A a \in Attempts : Placing(a)' <=> Placing(a)
    BY <1>0, <1>1 DEF BeginEvaluation, Goto, TypeOK, Placing
  <2> QED
    BY <1>1, <2>1, Invisible DEF BeginEvaluation
<1>2. ASSUME NEW p \in Evaluators, NextPending(p) PROVE Promised
  <2>1. \A a \in Attempts : Placing(a)' <=> Placing(a)
    BY <1>0, <1>2 DEF NextPending, Goto, TypeOK, Placing
  <2> QED
    BY <1>2, <2>1, Invisible DEF NextPending
<1>3. ASSUME NEW p \in Evaluators, QueryByTxid(p) PROVE Promised
  <2>1. \A a \in Attempts : Placing(a)' <=> Placing(a)
    BY <1>0, <1>3 DEF QueryByTxid, Goto, TypeOK, Placing
  <2> QED
    BY <1>3, <2>1, Invisible DEF QueryByTxid
<1>4. ASSUME NEW p \in Evaluators, OpenOrders(p) PROVE Promised
  <2>1. \A a \in Attempts : Placing(a)' <=> Placing(a)
    BY <1>0, <1>4 DEF OpenOrders, Goto, TypeOK, Placing
  <2> QED
    BY <1>4, <2>1, Invisible DEF OpenOrders
<1>5. ASSUME NEW p \in Evaluators, ClosedOrders(p) PROVE Promised
  <2>1. \A a \in Attempts : Placing(a)' <=> Placing(a)
    BY <1>0, <1>5 DEF ClosedOrders, Goto, TypeOK, Placing
  <2> QED
    BY <1>5, <2>1, Invisible DEF ClosedOrders
<1>6. ASSUME NEW p \in Evaluators, HoldAbsence(p) PROVE Promised
  <2>1. \A a \in Attempts : Placing(a)' <=> Placing(a)
    BY <1>0, <1>6 DEF HoldAbsence, Goto, TypeOK, Placing
  <2> QED
    BY <1>6, <2>1, Invisible DEF HoldAbsence
<1>7. ASSUME NEW p \in Evaluators, Plan(p) PROVE Promised
  <2>1. \A a \in Attempts : Placing(a)' <=> Placing(a)
    BY <1>0, <1>7 DEF Plan, Goto, TypeOK, Placing
  <2> QED
    BY <1>7, <2>1, Invisible DEF Plan
<1>8. ASSUME NEW p \in Evaluators, LetThrough(p) PROVE Promised
  <2>1. \A a \in Attempts : Placing(a)' <=> Placing(a)
    BY <1>0, <1>8 DEF LetThrough, Goto, TypeOK, Placing
  <2> QED
    BY <1>8, <2>1, Invisible DEF LetThrough
<1>9. ASSUME NEW p \in Evaluators, SkipLeg(p) PROVE Promised
  <2>1. \A a \in Attempts : Placing(a)' <=> Placing(a)
    BY <1>0, <1>9 DEF SkipLeg, Goto, TypeOK, Placing
  <2> QED
    BY <1>9, <2>1, Invisible DEF SkipLeg
<1>10. ASSUME NEW p \in Evaluators, AnswerRefused(p) PROVE Promised
  <2>1. \A a \in Attempts : Placing(a)' <=> Placing(a)
    BY <1>0, <1>10 DEF AnswerRefused, Goto, TypeOK, Placing
  <2> QED
    BY <1>10, <2>1, Invisible DEF AnswerRefused
<1>11. ASSUME NEW p \in Evaluators, AnswerSent(p) PROVE Promised
  <2>1. \A a \in Attempts : Placing(a)' <=> Placing(a)
    BY <1>0, <1>11 DEF AnswerSent, Goto, TypeOK, Placing
  <2> QED
    BY <1>11, <2>1, Invisible DEF AnswerSent
<1>12. ASSUME NEW p \in Evaluators, AnswerUnknown(p) PROVE Promised
  <2>1. \A a \in Attempts : Placing(a)' <=> Placing(a)
    BY <1>0, <1>12 DEF AnswerUnknown, Goto, TypeOK, Placing
  <2> QED
    BY <1>12, <2>1, Invisible DEF AnswerUnknown
<1>13. ASSUME NEW p \in Evaluators, QueryByTxidFails(p) PROVE Promised
  <2>1. \A a \in Attempts : Placing(a)' <=> Placing(a)
    BY <1>0, <1>13 DEF QueryByTxidFails, Goto, TypeOK, Placing
  <2> QED
    BY <1>13, <2>1, Invisible DEF QueryByTxidFails
<1>14. ASSUME NEW p \in Evaluators, OpenOrdersFails(p) PROVE Promised
  <2>1. \A a \in Attempts : Placing(a)' <=> Placing(a)
    BY <1>0, <1>14 DEF OpenOrdersFails, Goto, TypeOK, Placing
  <2> QED
    BY <1>14, <2>1, Invisible DEF OpenOrdersFails
<1>15. ASSUME NEW p \in Evaluators, ClosedOrdersFails(p) PROVE Promised
  <2>1. \A a \in Attempts : Placing(a)' <=> Placing(a)
    BY <1>0, <1>15 DEF ClosedOrdersFails, Goto, TypeOK, Placing
  <2> QED
    BY <1>15, <2>1, Invisible DEF ClosedOrdersFails
<1>16. ASSUME NEW p \in Evaluators, TakeLock(p) PROVE Promised
  <2>1. \A a \in Attempts : Placing(a)' <=> Placing(a)
    BY <1>0, <1>16 DEF TakeLock, Goto, TypeOK, Placing
  <2> QED
    BY <1>16, <2>1, Invisible DEF TakeLock
<1>17. ASSUME NEW p \in Evaluators, EndResolve(p) PROVE Promised
  <2>1. /\ pc' = [pc EXCEPT ![p] = pc'[p]] /\ pc'[p] # "place" /\ cur' = cur
        /\ UNCHANGED <<status, txid, executed, exchange>>
    BY <1>0, <1>17 DEF EndResolve, EndAs, Goto, TypeOK
  <2> QED
    BY <1>0, <1>17, <2>1, GivenUp DEF EndResolve
<1>18. ASSUME NEW p \in Evaluators, PlanUnavailable(p) PROVE Promised
  <2>1. /\ pc[p] # "idle" /\ pc' = [pc EXCEPT ![p] = pc'[p]] /\ pc'[p] # "place"
        /\ \A q \in Evaluators : q # p => cur'[q] = cur[q]
    BY <1>0, <1>18 DEF PlanUnavailable, Goto, EndAs, TypeOK
  <2> QED
    BY <1>0, <1>18, <2>1, GivenUp DEF PlanUnavailable, EndAs
<1>19. ASSUME NEW p \in Evaluators, TurnDown(p) PROVE Promised
  <2>1. /\ pc[p] # "idle" /\ pc' = [pc EXCEPT ![p] = pc'[p]] /\ pc'[p] # "place"
        /\ \A q \in Evaluators : q # p => cur'[q] = cur[q]
    BY <1>0, <1>19 DEF TurnDown, Goto, EndAs, TypeOK
  <2> QED
    BY <1>0, <1>19, <2>1, GivenUp DEF TurnDown, EndAs
<1>20. ASSUME NEW p \in Evaluators, EndSend(p) PROVE Promised
  <2>1. /\ pc[p] # "idle" /\ pc' = [pc EXCEPT ![p] = pc'[p]] /\ pc'[p] # "place"
        /\ \A q \in Evaluators : q # p => cur'[q] = cur[q]
    BY <1>0, <1>20 DEF EndSend, Goto, EndAs, TypeOK
  <2> QED
    BY <1>0, <1>20, <2>1, GivenUp DEF EndSend, EndAs
<1>21. ASSUME NEW p \in Evaluators, Raise(p) PROVE Promised
  <2>1. /\ pc[p] # "idle" /\ pc' = [pc EXCEPT ![p] = pc'[p]] /\ pc'[p] # "place"
        /\ \A q \in Evaluators : q # p => cur'[q] = cur[q]
    BY <1>0, <1>21 DEF Raise, Goto, EndAs, Working, Planned, Sending, Resolving, TypeOK
  <2> QED
    BY <1>0, <1>21, <2>1, GivenUp DEF Raise, EndAs
<1>22. ASSUME NEW p \in Evaluators, Unlock(p) PROVE Promised
  <2>1. /\ pc[p] # "idle" /\ pc' = [pc EXCEPT ![p] = pc'[p]] /\ pc'[p] # "place"
        /\ \A q \in Evaluators : q # p => cur'[q] = cur[q]
    BY <1>0, <1>22 DEF Unlock, Goto, Forget, TypeOK
  <2> QED
    BY <1>0, <1>22, <2>1, GivenUp DEF Unlock
<1>23. ASSUME NEW p \in Evaluators, Crash(p) PROVE Promised
  <2>1. /\ pc[p] # "idle" /\ pc' = [pc EXCEPT ![p] = pc'[p]] /\ pc'[p] # "place"
        /\ \A q \in Evaluators : q # p => cur'[q] = cur[q]
    BY <1>0, <1>23 DEF Crash, Goto, Forget, TypeOK
  <2> QED
    BY <1>0, <1>23, <2>1, GivenUp DEF Crash
<1>24. ASSUME NEW p \in Evaluators, RecordAttempt(p) PROVE Promised
  <2>0. \A q \in Evaluators : q # p => pc[q] = "idle"
    BY <1>24, OthersIdle DEF RecordAttempt, IInv
  <2>1. PICK a \in Attempts :
          /\ status[a] = "NONE"
          /\ status' = [status EXCEPT ![a] = "PENDING"]
          /\ cur' = [cur EXCEPT ![p] = a]
    BY <1>24 DEF RecordAttempt
  <2>2. \A b \in Attempts : ~Placing(b)
    BY <1>24, <2>0 DEF RecordAttempt, Placing
  <2>3. \A b \in Attempts : Placing(b)' <=> b = a
    BY <1>0, <1>24, <2>0, <2>1 DEF RecordAttempt, Goto, TypeOK, Placing
  <2>4. kraken[a] = "None" /\ kraken' = kraken
    BY <1>24, <2>1 DEF RecordAttempt, IInv, RowInv, exchange
  <2>5. market' = [market EXCEPT ![a] = "live"]
    BY <1>0, <2>1, <2>2, <2>3, <2>4 DEF TypeOK, market, Over
  <2>6. \A b \in Attempts : ~Promise!Unknown(b)
    BY <1>24 DEF RecordAttempt, IInv, SendInv, Unknown, Planned, Sending, Unnamed, Promise!Unknown
  <2>7. Promise!Record(a)
    BY <1>24, <2>1, <2>5, <2>6 DEF RecordAttempt, exchange, Promise!Record
  <2> QED
    BY <2>7 DEF Promise!Next
<1>25. ASSUME NEW p \in Evaluators, PlaceOrder(p) PROVE Promised
  <2>0. \A q \in Evaluators : q # p => pc[q] = "idle"
    BY <1>25, OthersIdle DEF PlaceOrder, IInv
  <2>1. cur[p] \in Attempts /\ kraken[cur[p]] = "None" /\ status[cur[p]] = "PENDING"
    BY <1>0, <1>25 DEF PlaceOrder, TypeOK, IInv, HandInv, AtHand, Unnamed
  <2>2. \A a \in Attempts : Placing(a) <=> a = cur[p]
    BY <1>25, <2>0, <2>1 DEF PlaceOrder, Placing
  <2>3. \A a \in Attempts : ~Placing(a)'
    BY <1>0, <1>25, <2>0 DEF PlaceOrder, Goto, TypeOK, Placing
  <2>4. kraken' = [kraken EXCEPT ![cur[p]] = "Flight"] /\ status' = status
    BY <1>25 DEF PlaceOrder
  <2>5. market' = market
    BY <1>0, <2>1, <2>2, <2>3, <2>4 DEF TypeOK, market, Over
  <2> QED
    BY <1>25, <2>5 DEF PlaceOrder, Promise!promiseVars
<1>26. ASSUME NEW p \in Evaluators, SettlePending(p) PROVE Promised
  <2>0. \A q \in Evaluators : q # p => pc[q] = "idle"
    BY <1>26, OthersIdle DEF SettlePending, IInv
  <2>1. \A a \in Attempts : ~Placing(a) /\ ~Placing(a)'
    BY <1>0, <1>26, <2>0 DEF SettlePending, Goto, TypeOK, Placing
  <2>2. cur[p] \in Attempts /\ lookup[p] \in Lookups /\ status[cur[p]] = "PENDING"
    BY <1>0, <1>26 DEF SettlePending, TypeOK, IInv, HandInv, AtHand
  <2>3. /\ lookup[p].kind = "absent" => kraken[cur[p]] \in Nothing
        /\ lookup[p].kind = "finished" =>
             kraken[cur[p]] = "Closed" /\ lookup[p].volume = traded[cur[p]]
    BY <1>26 DEF SettlePending, IInv, LookupInv, WithinGrace
  <2>4. Settle(cur[p], lookup[p]) /\ UNCHANGED exchange
    BY <1>26 DEF SettlePending
  <2> QED
    BY <2>1, <2>2, <2>3, <2>4, SettleIsPromised
<1>27. ASSUME NEW p \in Evaluators, SettleSent(p) PROVE Promised
  <2>0. \A q \in Evaluators : q # p => pc[q] = "idle"
    BY <1>27, OthersIdle DEF SettleSent, IInv
  <2>1. \A a \in Attempts : ~Placing(a) /\ ~Placing(a)'
    BY <1>0, <1>27, <2>0 DEF SettleSent, Goto, TypeOK, Placing
  <2>2. cur[p] \in Attempts /\ lookup[p] \in Lookups /\ status[cur[p]] = "PENDING"
    BY <1>0, <1>27 DEF SettleSent, TypeOK, IInv, HandInv, AtHand
  <2>3. /\ lookup[p].kind = "absent" => kraken[cur[p]] \in Nothing
        /\ lookup[p].kind = "finished" =>
             kraken[cur[p]] = "Closed" /\ lookup[p].volume = traded[cur[p]]
    BY <1>27 DEF SettleSent, IInv, LookupInv
  <2>4. Settle(cur[p], lookup[p]) /\ UNCHANGED exchange
    BY <1>27 DEF SettleSent
  <2> QED
    BY <2>1, <2>2, <2>3, <2>4, SettleIsPromised
<1>28. ASSUME NEW p \in Evaluators, MarkRefused(p) PROVE Promised
  <2>0. \A q \in Evaluators : q # p => pc[q] = "idle"
    BY <1>28, OthersIdle DEF MarkRefused, IInv
  <2>1. \A a \in Attempts : ~Placing(a) /\ ~Placing(a)'
    BY <1>0, <1>28, <2>0 DEF MarkRefused, Goto, TypeOK, Placing
  <2>2. cur[p] \in Attempts /\ kraken[cur[p]] = "Dropped" /\ status[cur[p]] = "PENDING"
    BY <1>0, <1>28 DEF MarkRefused, TypeOK, IInv, HandInv, AtHand, Unnamed
  <2> DEFINE look == Absent
  <2>3. look \in Lookups /\ look.kind = "absent" /\ kraken[cur[p]] \in Nothing
    BY <2>2, NoLookupType DEF Absent, Nothing
  <2>4. Settle(cur[p], look) /\ UNCHANGED exchange
    BY <1>28, <2>3 DEF MarkRefused, Settle
  <2> QED
    BY <2>1, <2>2, <2>3, <2>4, SettleIsPromised
<1>29. ASSUME NEW p \in Evaluators, MarkSent(p) PROVE Promised
  <2>1. cur[p] \in Attempts /\ status[cur[p]] = "PENDING"
    BY <1>0, <1>29 DEF MarkSent, TypeOK, IInv, HandInv, AtHand, Unnamed
  <2>2. \A a \in Attempts : Placing(a)' <=> Placing(a)
    BY <1>0, <1>29 DEF MarkSent, Goto, TypeOK, Placing
  <2>3. market' = market
    BY <1>29, <2>2, MarketStutters DEF MarkSent, mark_sent, exchange
  <2>4. Promise!Name(cur[p])
    BY <1>29, <2>1, <2>3 DEF MarkSent, mark_sent, exchange, Promise!Name
  <2> QED
    BY <2>1, <2>4 DEF Promise!Next
<1>30. ASSUME NEW a \in Attempts, Accept(a) PROVE Promised
  <2>1. market' = market
    BY <1>0, <1>30 DEF Accept, TypeOK, market, Over, Placing
  <2> QED
    BY <1>30, <2>1 DEF Accept, Promise!promiseVars
<1>31. ASSUME NEW a \in Attempts, List(a) PROVE Promised
  <2>1. market' = market
    BY <1>0, <1>31 DEF List, TypeOK, market, Over, Placing
  <2> QED
    BY <1>31, <2>1 DEF List, Promise!promiseVars
<1>32. ASSUME NEW a \in Attempts, Drop(a) PROVE Promised
  <2>1. status[a] # "NONE" /\ market[a] = "live"
    BY <1>32 DEF Drop, IInv, RowInv, market, Over
  <2>2. market' = [market EXCEPT ![a] = "over"]
    BY <1>0, <1>32, <2>1 DEF Drop, TypeOK, market, Over, Placing
  <2>3. Promise!End(a)
    BY <1>32, <2>1, <2>2 DEF Drop, Promise!End
  <2> QED
    BY <2>3 DEF Promise!Next
<1>33. ASSUME NEW a \in Attempts, Close(a) PROVE Promised
  <2>1. status[a] # "NONE" /\ market[a] = "live"
    BY <1>33 DEF Close, IInv, RowInv, market, Over
  <2>2. market' = [market EXCEPT ![a] = "over"]
    BY <1>0, <1>33, <2>1 DEF Close, TypeOK, market, Over, Placing
  <2>3. Promise!End(a)
    BY <1>33, <2>1, <2>2 DEF Close, Promise!End
  <2> QED
    BY <2>3 DEF Promise!Next
<1>34. ASSUME NEW a \in Attempts, Trade(a) PROVE Promised
  <2>1. market[a] = "live"
    BY <1>34 DEF Trade, IInv, RowInv, market, Over
  <2>2. market' = market
    BY <1>34 DEF Trade, market, Over, Placing
  <2>3. Promise!Trade(a)
    BY <1>34, <2>1, <2>2 DEF Trade, Promise!Trade
  <2> QED
    BY <2>3 DEF Promise!Next
<1>35. ASSUME Tick PROVE Promised
  <2>1. \A a \in Attempts : Placing(a)' <=> Placing(a)
    BY <1>35 DEF Tick, Placing
  <2> QED
    BY <1>35, <2>1, Invisible DEF Tick
<1>36. CASE UNCHANGED vars
  <2>1. \A a \in Attempts : Placing(a)' <=> Placing(a)
    BY <1>36 DEF vars, Placing
  <2> QED
    BY <1>36, <2>1, Invisible DEF vars
<1> QED
  BY <1>1, <1>2, <1>3, <1>4, <1>5, <1>6, <1>7, <1>8, <1>9, <1>10, <1>11, <1>12, <1>13, <1>14,
     <1>15, <1>16, <1>17, <1>18, <1>19, <1>20, <1>21, <1>22, <1>23, <1>24, <1>25, <1>26, <1>27, <1>28,
     <1>29, <1>30, <1>31, <1>32, <1>33, <1>34, <1>35, <1>36
     DEF Next, Progress, Fault, Kraken

\* The executor keeps its promise: each attempt is written down before it can
\* trade and never beside an unknown one, and is booked once, when it is
\* over, at exactly what it traded.
THEOREM Refinement == Spec => KeepsPromise
<1>1. Init => Promise!Init
  BY PromiseInit
<1>2. IInv /\ IInv' /\ [Next]_vars => [Promise!Next]_(Promise!promiseVars)
  BY PromiseStep
<1> QED
  BY <1>1, <1>2, Invariance, PTL DEF Spec, KeepsPromise, Promise!Spec
=============================================================================
