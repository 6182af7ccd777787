-------------------------- MODULE ProposalsProofs --------------------------
(***************************************************************************)
(* The safety properties of the proposal slot, for any number of workers,  *)
(* any set of plans and any bound on versions.                             *)
(***************************************************************************)
EXTENDS Proposals, TLAPS

\* The initial state satisfies the invariant: no row, nobody at work.
LEMMA InvInit == Init => IInv
<1> SUFFICES ASSUME Init PROVE IInv
  OBVIOUS
<1>1. TypeOK
  BY ProposalConstants DEF Init, TypeOK, Slots, NoSlot, ProposalStatus, Versions, Operations, Locked
<1>2. LockInv /\ SlotInv /\ ReadInv
  BY DEF Init, LockInv, SlotInv, ReadInv, NoSlot, Locked
<1>3. ExecutesWhatWasRead /\ ExecutedOnce /\ NothingLiveWhileSending
  BY DEF Init, ExecutesWhatWasRead, ExecutedOnce, NothingLiveWhileSending, NoSlot
<1> QED
  BY <1>1, <1>2, <1>3 DEF IInv

\* No row is a slot like any other.
LEMMA NoSlotType == NoSlot \in Slots /\ NoLegs \in Documents /\ 0 \in Versions
BY ProposalConstants DEF NoSlot, Slots, ProposalStatus, Versions

\* An operation whose locals are gone keeps their types.
LEMMA ForgetType ==
  ASSUME TypeOK, NEW w \in Workers, Forget(w)
  PROVE  /\ op' \in [Workers -> Operations]
         /\ asked' \in [Workers -> Versions]
         /\ document' \in [Workers -> Documents]
         /\ seen' \in [Workers -> Slots]
         /\ allowed' \in [Workers -> BOOLEAN]
<1>1. op' \in [Workers -> Operations] /\ allowed' \in [Workers -> BOOLEAN]
  BY DEF TypeOK, Forget, Operations
<1>2. /\ asked' \in [Workers -> Versions] /\ document' \in [Workers -> Documents]
      /\ seen' \in [Workers -> Slots]
  BY NoSlotType DEF TypeOK, Forget
<1> QED
  BY <1>1, <1>2

\* While one worker evaluates, no other does.
LEMMA OneEvaluates ==
  ASSUME IInv, NEW w \in Workers, pc[w] \in Locked,
         NEW u \in Workers, u # w
  PROVE  pc[u] \notin Locked
BY DEF IInv, LockInv

\* What `_keep` leaves in the slot when it acts on what a worker read.
LEMMA KeepSlot ==
  ASSUME IInv, NEW w \in Workers, pc[w] = "write",
         _keep(seen[w], document[w]), ran' = ran
  PROVE  /\ slot' \in Slots
         /\ offered' \in [Versions -> Documents]
         /\ SlotInv'
         /\ slot'.version >= slot.version
         /\ slot.status = "LIVE" /\ slot'.version = slot.version => slot'.plan = slot.plan
<1>1. /\ seen[w].version = slot.version /\ seen[w].plan = slot.plan
      /\ slot.status = "LIVE" => seen[w].status = "LIVE"
      /\ slot \in Slots /\ seen[w] \in Slots /\ document[w] \in Documents
      /\ slot.version < MaxVersion /\ slot.version \in Versions
      /\ slot.version + 1 \in Versions
  <2>1. slot \in Slots /\ seen[w] \in Slots /\ document[w] \in Documents
    BY DEF IInv, TypeOK
  <2>2. /\ seen[w].version = slot.version /\ seen[w].plan = slot.plan
        /\ slot.status = "LIVE" => seen[w].status = "LIVE"
        /\ slot.version < MaxVersion
    BY DEF IInv, ReadInv, LockInv
  <2>3. slot.version \in Versions
    BY <2>1 DEF Slots
  <2>4. slot.version + 1 \in Versions
    BY <2>2, <2>3, ProposalConstants DEF Versions
  <2> QED
    BY <2>1, <2>2, <2>3, <2>4
<1> USE DEF IInv, TypeOK
<1>2. CASE slot' = slot /\ offered' = offered
  BY <1>1, <1>2 DEF SlotInv, Fresh, Slots, Versions
<1>3. CASE slot' = set_status("WITHDRAWN") /\ offered' = offered
  <2>1. /\ slot' \in Slots /\ slot'.status # "LIVE" /\ slot'.plan = slot.plan
        /\ slot'.version = slot.version
    BY <1>1, <1>3 DEF Slots, set_status, ProposalStatus
  <2>2. offered' \in [Versions -> Documents]
    BY <1>3
  <2>3. SlotInv'
    BY <2>1 DEF SlotInv
  <2>4. slot'.version >= slot.version
    BY <1>1, <2>1, ProposalConstants DEF Versions
  <2> QED
    BY <2>1, <2>2, <2>3, <2>4
<1>4. CASE /\ slot' = save_proposal(seen[w], document[w], seen[w].version + 1)
           /\ offered' = [offered EXCEPT ![seen[w].version + 1] = document[w]]
  <2>1. /\ slot'.version = slot.version + 1
        /\ slot'.plan = document[w]
        /\ slot'.status \in ProposalStatus
    BY <1>1, <1>4 DEF save_proposal, Column, Slots, ProposalStatus, Versions
  <2>2. slot' \in Slots
    BY <1>1, <1>4, <2>1 DEF save_proposal, Slots
  <2>3. offered' \in [Versions -> Documents] /\ offered'[slot'.version] = document[w]
    BY <1>1, <1>4, <2>1
  <2>4. SlotInv'
    BY <1>1, <2>1, <2>3 DEF SlotInv, Fresh, Versions
  <2> QED
    BY <1>1, <2>1, <2>2, <2>3, <2>4 DEF Versions
<1> QED
  BY <1>2, <1>3, <1>4 DEF _keep

\* Every step keeps the invariant.
LEMMA InvStep == IInv /\ [Next]_vars => IInv'
<1> SUFFICES ASSUME IInv, [Next]_vars PROVE IInv'
  OBVIOUS
<1> USE DEF IInv
<1>1. ASSUME NEW w \in Workers, CheckVersion(w) PROVE IInv'
  <2> USE <1>1 DEF CheckVersion
  <2>1. TypeOK'
    BY DEF TypeOK, Slots, Operations, Locked, Goto, history
  <2>2. LockInv' /\ SlotInv' /\ ReadInv'
    BY DEF TypeOK, LockInv, SlotInv, ReadInv, Fresh, Locked, Goto, history
  <2>3. ExecutesWhatWasRead' /\ ExecutedOnce' /\ NothingLiveWhileSending'
    BY DEF TypeOK, ExecutesWhatWasRead, ExecutedOnce, NothingLiveWhileSending, Goto, history
  <2> QED
    BY <2>1, <2>2, <2>3
<1>2. ASSUME NEW w \in Workers, TakeLock(w) PROVE IInv'
  <2> USE <1>2 DEF TakeLock
  <2>1. TypeOK'
    BY DEF TypeOK, Operations, Locked, Goto, history
  <2>2. \A u \in Workers : pc[u] \notin Locked
    BY ProposalConstants DEF LockInv
  <2>3. LockInv' /\ SlotInv' /\ ReadInv'
    BY <2>2 DEF TypeOK, LockInv, SlotInv, ReadInv, Fresh, Locked, Goto, history
  <2>4. ExecutesWhatWasRead' /\ ExecutedOnce' /\ NothingLiveWhileSending'
    BY <2>2 DEF TypeOK, ExecutesWhatWasRead, ExecutedOnce, NothingLiveWhileSending, Locked, Goto, history
  <2> QED
    BY <2>1, <2>3, <2>4
<1>3. ASSUME NEW w \in Workers, GiveUp(w) PROVE IInv'
  <2> USE <1>3 DEF GiveUp
  <2>1. TypeOK'
    BY ForgetType DEF TypeOK, Locked, Goto, history
  <2>2. LockInv' /\ SlotInv' /\ ReadInv'
    BY DEF TypeOK, Forget, LockInv, SlotInv, ReadInv, Fresh, Locked, Goto, history
  <2>3. ExecutesWhatWasRead' /\ ExecutedOnce' /\ NothingLiveWhileSending'
    BY DEF TypeOK, Forget, ExecutesWhatWasRead, ExecutedOnce, NothingLiveWhileSending, Goto, history
  <2> QED
    BY <2>1, <2>2, <2>3
<1>4. ASSUME NEW w \in Workers, ReadSlot(w) PROVE IInv'
  <2> USE <1>4 DEF ReadSlot
  <2>1. TypeOK'
    BY DEF TypeOK, Locked, Goto, history
  <2>2. LockInv' /\ SlotInv'
    BY DEF TypeOK, LockInv, SlotInv, Fresh, Locked, Goto, history
  <2>3. ReadInv'
    BY DEF TypeOK, ReadInv, SlotInv, Fresh, Goto, history
  <2>4. \A u \in Workers : pc[u] # "send" /\ pc'[u] # "send"
    BY OneEvaluates DEF TypeOK, Locked, Goto
  <2>5. ExecutesWhatWasRead' /\ ExecutedOnce' /\ NothingLiveWhileSending'
    BY <2>4 DEF ExecutesWhatWasRead, ExecutedOnce, NothingLiveWhileSending, history
  <2> QED
    BY <2>1, <2>2, <2>3, <2>5
<1>5. ASSUME NEW w \in Workers, Propose(w) PROVE IInv'
  <2>1. /\ slot' \in Slots /\ offered' \in [Versions -> Documents]
        /\ SlotInv'
    BY <1>5, KeepSlot DEF Propose
  <2>2. /\ pc'[w] = "unlock"
        /\ \A u \in Workers \ {w} : pc'[u] = pc[u] /\ pc[u] \notin Locked
    BY <1>5, OneEvaluates DEF Propose, TypeOK, Locked, Goto
  <2>3. TypeOK'
    BY <1>5, <2>1, ForgetType DEF Propose, TypeOK, Locked, Goto
  <2>4. LockInv' /\ ReadInv'
    BY <1>5, <2>2 DEF Propose, LockInv, ReadInv, Locked
  <2>5. ExecutesWhatWasRead' /\ ExecutedOnce' /\ NothingLiveWhileSending'
    BY <1>5, <2>2 DEF Propose, ExecutesWhatWasRead, ExecutedOnce, NothingLiveWhileSending, Locked
  <2> QED
    BY <2>1, <2>3, <2>4, <2>5
<1>6. ASSUME NEW w \in Workers, Supersede(w) PROVE IInv'
  <2>1. /\ slot' \in Slots /\ offered' \in [Versions -> Documents]
        /\ SlotInv'
    <3>1. CASE _keep(seen[w], document[w])
      BY <1>6, <3>1, KeepSlot DEF Supersede
    <3>2. CASE UNCHANGED <<slot, offered>>
      BY <1>6, <3>2 DEF Supersede, TypeOK, SlotInv, Fresh
    <3> QED
      BY <1>6, <3>1, <3>2 DEF Supersede
  <2>2. /\ pc'[w] = "unlock"
        /\ \A u \in Workers \ {w} : pc'[u] = pc[u] /\ pc[u] \notin Locked
    BY <1>6, OneEvaluates DEF Supersede, TypeOK, Locked, Goto
  <2>3. TypeOK'
    BY <1>6, <2>1, ForgetType DEF Supersede, TypeOK, Locked, Goto
  <2>4. LockInv' /\ ReadInv'
    BY <1>6, <2>2 DEF Supersede, LockInv, ReadInv, Locked
  <2>5. ExecutesWhatWasRead' /\ ExecutedOnce' /\ NothingLiveWhileSending'
    BY <1>6, <2>2 DEF Supersede, ExecutesWhatWasRead, ExecutedOnce, NothingLiveWhileSending, Locked
  <2> QED
    BY <2>1, <2>3, <2>4, <2>5
<1>7. ASSUME NEW w \in Workers, Approve(w) PROVE IInv'
  <2> USE <1>7
  <2>1. /\ seen[w].version = slot.version /\ asked[w] = slot.version
        /\ seen[w].plan = slot.plan
        /\ Fresh(slot.version, slot.plan)
        /\ slot \in Slots /\ slot.version \in Versions /\ document[w] \in Documents
    BY DEF Approve, Current, ReadInv, TypeOK, Slots
  <2>2. /\ pc'[w] = "send"
        /\ \A u \in Workers \ {w} : pc'[u] = pc[u] /\ pc[u] \notin Locked
    BY OneEvaluates DEF Approve, TypeOK, Locked, Goto
  <2>3. /\ slot'.status = "EXECUTING" /\ slot'.version = slot.version
        /\ slot' \in Slots
    BY <2>1 DEF Approve, Current, save_executing, Column, Slots, ProposalStatus
  <2>4. TypeOK'
    <3>1. ran' \in [Versions -> Nat]
      BY <2>1 DEF Approve, TypeOK
    <3> QED
      BY <2>3, <3>1 DEF Approve, TypeOK, Locked, Goto
  <2>5. LockInv' /\ ReadInv'
    BY <2>2, <2>3 DEF Approve, LockInv, ReadInv, Locked
  <2>6. ran'[slot.version] = 1 /\ \A v \in Versions \ {slot.version} : ran'[v] = ran[v]
    BY <2>1 DEF Approve, TypeOK, Fresh
  <2>7. SlotInv'
    BY <2>1, <2>3, <2>6 DEF SlotInv, Versions
  <2>8. ExecutesWhatWasRead'
    BY <2>1, <2>2 DEF Approve, Stands, ExecutesWhatWasRead, Fresh, Locked, is_material, _sendable
  <2>9. ExecutedOnce' /\ NothingLiveWhileSending'
    BY <2>3, <2>6 DEF ExecutedOnce, NothingLiveWhileSending
  <2> QED
    BY <2>4, <2>5, <2>7, <2>8, <2>9
<1>8. ASSUME NEW w \in Workers, RebalanceNow(w) PROVE IInv'
  <2> USE <1>8
  <2>1. /\ pc'[w] \in {"send", "unlock"} /\ (pc'[w] = "send" => op'[w] = "REBALANCE")
        /\ \A u \in Workers \ {w} : pc'[u] = pc[u] /\ pc[u] \notin Locked
    BY OneEvaluates DEF RebalanceNow, TypeOK, Locked, Goto
  <2>2. /\ slot' \in Slots /\ slot'.version = slot.version
        /\ slot'.plan = slot.plan
        /\ slot'.status = "LIVE" => slot.status = "LIVE"
        /\ pc'[w] = "send" => slot'.status # "LIVE"
    BY DEF RebalanceNow, set_status, Slots, ProposalStatus, ReadInv, TypeOK, Goto
  <2>3. TypeOK'
    <3>1. CASE allowed[w]
      BY <2>2, <3>1 DEF RebalanceNow, TypeOK, Locked, Goto, history
    <3>2. CASE ~allowed[w]
      BY <2>2, <3>2, ForgetType DEF RebalanceNow, TypeOK, Locked, Goto, history
    <3> QED
      BY <3>1, <3>2
  <2>4. LockInv' /\ ReadInv'
    BY <2>1, <2>2 DEF RebalanceNow, LockInv, ReadInv, Locked
  <2>5. SlotInv'
    BY <2>2 DEF RebalanceNow, SlotInv, Fresh, history
  <2>6. ExecutesWhatWasRead' /\ ExecutedOnce' /\ NothingLiveWhileSending'
    BY <2>1, <2>2 DEF RebalanceNow, ExecutesWhatWasRead, ExecutedOnce, NothingLiveWhileSending, Locked, history
  <2> QED
    BY <2>3, <2>4, <2>5, <2>6
<1>9. ASSUME NEW w \in Workers, Send(w) PROVE IInv'
  <2> USE <1>9 DEF Send
  <2>1. TypeOK'
    BY ForgetType DEF TypeOK, Locked, Goto, locals, history
  <2>2. LockInv' /\ SlotInv' /\ ReadInv'
    BY DEF TypeOK, Forget, LockInv, SlotInv, ReadInv, Fresh, Slots, Locked, Goto, locals, history
  <2>3. ExecutesWhatWasRead' /\ ExecutedOnce' /\ NothingLiveWhileSending'
    BY DEF TypeOK, Forget, ExecutesWhatWasRead, ExecutedOnce, NothingLiveWhileSending, Slots, Goto, locals, history
  <2> QED
    BY <2>1, <2>2, <2>3
<1>10. ASSUME NEW w \in Workers, EndEarly(w) PROVE IInv'
  <2> USE <1>10 DEF EndEarly
  <2>1. TypeOK'
    BY ForgetType DEF TypeOK, Locked, Goto, locals, history
  <2>2. LockInv' /\ SlotInv' /\ ReadInv'
    BY DEF TypeOK, Forget, LockInv, SlotInv, ReadInv, Fresh, Slots, Locked, Goto, locals, history
  <2>3. ExecutesWhatWasRead' /\ ExecutedOnce' /\ NothingLiveWhileSending'
    BY DEF TypeOK, Forget, ExecutesWhatWasRead, ExecutedOnce, NothingLiveWhileSending, Slots, Goto, locals, history
  <2> QED
    BY <2>1, <2>2, <2>3
<1>11. ASSUME NEW w \in Workers, Unlock(w) PROVE IInv'
  <2> USE <1>11 DEF Unlock
  <2>1. TypeOK'
    BY DEF TypeOK, Slots, ProposalStatus, Locked, Goto, locals, history
  <2>2. LockInv' /\ SlotInv' /\ ReadInv'
    BY DEF TypeOK, LockInv, SlotInv, ReadInv, Fresh, Slots, Locked, Goto, locals, history
  <2>3. ExecutesWhatWasRead' /\ ExecutedOnce' /\ NothingLiveWhileSending'
    BY DEF TypeOK, ExecutesWhatWasRead, ExecutedOnce, NothingLiveWhileSending, Slots, Goto, locals, history
  <2> QED
    BY <2>1, <2>2, <2>3
<1>12. ASSUME NEW w \in Workers, MarkExecuted(w) PROVE IInv'
  <2> USE <1>12 DEF MarkExecuted
  <2>1. TypeOK'
    BY NoSlotType DEF TypeOK, Slots, ProposalStatus, Locked, Goto, locals, history, set_status
  <2>2. LockInv' /\ SlotInv' /\ ReadInv'
    BY DEF TypeOK, LockInv, SlotInv, ReadInv, Fresh, Slots, Locked, Goto, locals, history, set_status
  <2>3. ExecutesWhatWasRead' /\ ExecutedOnce' /\ NothingLiveWhileSending'
    BY DEF TypeOK, ExecutesWhatWasRead, ExecutedOnce, NothingLiveWhileSending, Slots, Goto, locals, history, set_status
  <2> QED
    BY <2>1, <2>2, <2>3
<1>a. ASSUME NEW w \in Workers, MarkFails(w) PROVE IInv'
  <2> USE <1>a DEF MarkFails
  <2>1. TypeOK'
    BY NoSlotType DEF TypeOK, Locked, Goto
  <2>2. LockInv' /\ SlotInv' /\ ReadInv'
    BY DEF TypeOK, LockInv, SlotInv, ReadInv, Fresh, Slots, Locked, Goto
  <2>3. ExecutesWhatWasRead' /\ ExecutedOnce' /\ NothingLiveWhileSending'
    BY DEF TypeOK, ExecutesWhatWasRead, ExecutedOnce, NothingLiveWhileSending, Slots, Goto
  <2> QED
    BY <2>1, <2>2, <2>3
<1>13. ASSUME NEW w \in Workers, Crash(w) PROVE IInv'
  <2> USE <1>13 DEF Crash
  <2>1. TypeOK'
    BY ForgetType, NoSlotType DEF TypeOK, Locked, Goto, locals, history
  <2>2. LockInv' /\ SlotInv' /\ ReadInv'
    BY DEF TypeOK, Forget, LockInv, SlotInv, ReadInv, Fresh, Slots, Locked, Goto, locals, history
  <2>3. ExecutesWhatWasRead' /\ ExecutedOnce' /\ NothingLiveWhileSending'
    BY DEF TypeOK, Forget, ExecutesWhatWasRead, ExecutedOnce, NothingLiveWhileSending, Slots, Goto, locals, history
  <2> QED
    BY <2>1, <2>2, <2>3
<1>14. CASE Withdraw
  <2> USE <1>14 DEF Withdraw
  <2>1. slot' \in Slots /\ slot'.version = slot.version /\ slot'.plan = slot.plan /\ slot'.status # "LIVE"
    BY DEF TypeOK, Slots, ProposalStatus, set_status
  <2>2. TypeOK'
    BY <2>1 DEF TypeOK, locals, history
  <2>3. LockInv' /\ SlotInv' /\ ReadInv'
    BY <2>1 DEF LockInv, SlotInv, ReadInv, Fresh, locals, history
  <2>4. ExecutesWhatWasRead' /\ ExecutedOnce' /\ NothingLiveWhileSending'
    BY <2>1 DEF ExecutesWhatWasRead, ExecutedOnce, NothingLiveWhileSending, locals, history
  <2> QED
    BY <2>2, <2>3, <2>4
<1>15. CASE Configure \/ UNCHANGED vars
  <2> USE <1>15 DEF Configure, vars
  <2>1. TypeOK'
    BY DEF TypeOK, locals, history
  <2>2. LockInv' /\ SlotInv' /\ ReadInv'
    BY DEF LockInv, SlotInv, ReadInv, Fresh, locals, history
  <2>3. ExecutesWhatWasRead' /\ ExecutedOnce' /\ NothingLiveWhileSending'
    BY DEF ExecutesWhatWasRead, ExecutedOnce, NothingLiveWhileSending, locals, history
  <2> QED
    BY <2>1, <2>2, <2>3
<1> QED
  BY <1>1, <1>2, <1>3, <1>4, <1>5, <1>6, <1>7, <1>8, <1>9, <1>10, <1>11, <1>12, <1>a, <1>13,
     <1>14, <1>15 DEF Next, Progress

\* The inductive invariant holds in every reachable state.
THEOREM Invariance == Spec => []IInv
BY InvInit, InvStep, PTL DEF Spec

\* Every variable of the slot and of its operations keeps its type.
THEOREM TypeCorrect == Spec => []TypeOK
<1>1. IInv => TypeOK
  BY DEF IInv
<1> QED
  BY <1>1, Invariance, PTL

\* An approval executes a plan within its minimums of the one the user read,
\* whatever other operations, withdrawals and crashes come between.
THEOREM ApprovedPlan == Spec => []ExecutesWhatWasRead
<1>1. IInv => ExecutesWhatWasRead
  BY DEF IInv
<1> QED
  BY <1>1, Invariance, PTL

\* No version of a proposal is let through twice by `approve`.
THEOREM NoDoubleExecution == Spec => []ExecutedOnce
<1>1. IInv => ExecutedOnce
  BY DEF IInv
<1> QED
  BY <1>1, Invariance, PTL

\* No proposal is on offer while a rebalance is being sent.
THEOREM NoOfferWhileSending == Spec => []NothingLiveWhileSending
<1>1. IInv => NothingLiveWhileSending
  BY DEF IInv
<1> QED
  BY <1>1, Invariance, PTL

\* A step never takes the version back, nor changes a plan on offer under its
\* version.
THEOREM StableOffer == Spec => OfferIsStable
<1> DEFINE Stable == /\ slot'.version >= slot.version
                     /\ slot.status = "LIVE" /\ slot'.status = "LIVE" /\ slot'.version = slot.version
                          => slot'.plan = slot.plan
<1>1. IInv /\ [Next]_vars => [Stable]_vars
  <2> SUFFICES ASSUME IInv, Next PROVE Stable
    BY DEF vars
  <2>1. slot.version \in Int
    BY DEF IInv, TypeOK, Slots, Versions
  <2>2. CASE slot' = slot
    BY <2>1, <2>2
  <2>3. ASSUME NEW w \in Workers, Propose(w) \/ Supersede(w) PROVE Stable
    BY <2>1, <2>2, <2>3, KeepSlot DEF Propose, Supersede
  <2>4. ASSUME NEW w \in Workers, Approve(w) PROVE Stable
    BY <2>1, <2>4 DEF Approve, Current, save_executing, Column
  <2>5. ASSUME NEW s \in ProposalStatus \ {"LIVE"}, slot' = set_status(s) PROVE Stable
    BY <2>1, <2>5 DEF set_status, IInv, TypeOK, Slots
  <2>6. ASSUME NEW w \in Workers, RebalanceNow(w) \/ MarkExecuted(w) PROVE Stable
    BY <2>2, <2>5, <2>6 DEF RebalanceNow, MarkExecuted, ProposalStatus
  <2>7. CASE Withdraw
    BY <2>5, <2>7 DEF Withdraw, ProposalStatus
  <2>8. ASSUME NEW w \in Workers,
               \/ CheckVersion(w) \/ TakeLock(w) \/ GiveUp(w) \/ ReadSlot(w)
               \/ Send(w) \/ EndEarly(w) \/ Unlock(w) \/ MarkFails(w) \/ Crash(w)
        PROVE  Stable
    BY <2>2, <2>8 DEF CheckVersion, TakeLock, GiveUp, ReadSlot, Send, EndEarly, Unlock,
                   MarkFails, Crash
  <2>9. CASE Configure
    BY <2>2, <2>9 DEF Configure
  <2> QED
    BY <2>3, <2>4, <2>6, <2>7, <2>8, <2>9 DEF Next, Progress
<1> QED
  BY <1>1, Invariance, PTL DEF Spec, OfferIsStable
=============================================================================
