------------------------------ MODULE Proposals ------------------------------
(***************************************************************************)
(* The one proposal slot of a user: core/rebalance.py, core/db/proposals.py*)
(* and core/proposal_plan.py.                                              *)
(*                                                                         *)
(* `propose`, `approve` and `rebalance_now` run an evaluation under the    *)
(* user's lock (OrderLedger has its inside) and touch the slot from its    *)
(* `decide` callback; `withdraw` and the `finally` of `approve` touch it   *)
(* with no lock.  The callback is one READ COMMITTED transaction that reads*)
(* the slot and then updates it by its key: another commit may fall between*)
(* the two, so they are two steps here.  The ORM writes only the columns   *)
(* whose value differs from the one it read.                               *)
(*                                                                         *)
(* A plan document maps (asset, side) to an amount and its minimum; a leg  *)
(* that is absent or carries a note, and so is not sent, has amount 0.     *)
(***************************************************************************)
EXTENDS Integers, FiniteSets

CONSTANTS
  Workers,     \* threads that run an operation for this user
  Nobody,      \* the lock is free
  Legs,        \* (asset, side) of the legs a plan may have
  Documents,   \* plans an evaluation may compute
  MaxVersion   \* bound: versions the slot goes through

\* The plan with nothing to send.
NoLegs == [k \in Legs |-> [amount |-> 0, minimum |-> 0]]

ASSUME ProposalConstants ==
  /\ Nobody \notin Workers
  /\ Documents \subseteq [Legs -> [amount : Nat, minimum : Nat]]
  /\ NoLegs \in Documents
  /\ MaxVersion \in Nat

VARIABLES
  lock,       \* holder of the user's advisory lock, or Nobody
  pc,         \* where each worker is
  op,         \* the operation it runs
  asked,      \* approve: the version the user named
  document,   \* the plan its evaluation computed
  seen,       \* the slot as its transaction read it
  allowed,    \* rebalance_now: the settings as it read them
  executing,  \* approve: `executing`, as the version it executes; 0 is False
  slot,       \* the row of the proposal table; status "NONE" is no row
  automatic,  \* auto_rebalance_enabled, and not paused
  offered,    \* history: the plan first stored under each version
  ran,        \* history: how often each version was let through to execute
  lost        \* history: versions whose EXECUTED was never written

locals == <<op, asked, document, seen, allowed, executing>>
history == <<offered, ran, lost>>
vars == <<lock, pc, locals, slot, automatic, history>>

Versions == 0..MaxVersion
ProposalStatus == {"NONE", "LIVE", "EXECUTING", "EXECUTED", "WITHDRAWN"}
Slots == [status : ProposalStatus, version : Versions, plan : Documents]
NoSlot == [status |-> "NONE", version |-> 0, plan |-> NoLegs]
Operations == {"PROPOSE", "APPROVE", "REBALANCE"}
\* Steps of an evaluation that hold the lock.
Locked == {"evaluate", "write", "send", "unlock"}

TypeOK ==
  /\ lock \in Workers \cup {Nobody}
  /\ pc \in [Workers -> {"idle", "checked", "finally"} \cup Locked]
  /\ op \in [Workers -> Operations]
  /\ asked \in [Workers -> Versions]
  /\ document \in [Workers -> Documents]
  /\ seen \in [Workers -> Slots]
  /\ allowed \in [Workers -> BOOLEAN]
  /\ executing \in [Workers -> Versions]
  /\ slot \in Slots
  /\ automatic \in BOOLEAN
  /\ offered \in [Versions -> Documents]
  /\ ran \in [Versions -> Nat]
  /\ lost \subseteq Versions

Init ==
  /\ lock = Nobody
  /\ pc = [w \in Workers |-> "idle"]
  /\ op = [w \in Workers |-> "PROPOSE"]
  /\ asked = [w \in Workers |-> 0]
  /\ document = [w \in Workers |-> NoLegs]
  /\ seen = [w \in Workers |-> NoSlot]
  /\ allowed = [w \in Workers |-> FALSE]
  /\ executing = [w \in Workers |-> 0]
  /\ slot = NoSlot
  /\ automatic \in BOOLEAN
  /\ offered = [v \in Versions |-> NoLegs]
  /\ ran = [v \in Versions |-> 0]
  /\ lost = {}

Goto(w, label) == pc' = [pc EXCEPT ![w] = label]

\* The local variables of an operation are gone, but for `executing`.
Forget(w) ==
  /\ op' = [op EXCEPT ![w] = "PROPOSE"]
  /\ asked' = [asked EXCEPT ![w] = 0]
  /\ document' = [document EXCEPT ![w] = NoLegs]
  /\ seen' = [seen EXCEPT ![w] = NoSlot]
  /\ allowed' = [allowed EXCEPT ![w] = FALSE]
-----------------------------------------------------------------------------
(***************************************************************************)
(* core/proposal_plan.py                                                   *)
(***************************************************************************)
_sendable(d) == {k \in Legs : d[k].amount > 0}

has_orders(d) == _sendable(d) # {}

Abs(n) == IF n < 0 THEN -n ELSE n

\* A leg comes or goes, or one moves by more than its minimum in `new`.
is_material(old, new) ==
  \/ _sendable(old) # _sendable(new)
  \/ \E k \in _sendable(new) : Abs(new[k].amount - old[k].amount) > new[k].minimum
-----------------------------------------------------------------------------
(***************************************************************************)
(* What a transaction of core/db/proposals.py leaves in the row: the value *)
(* it set where that differs from the value it read, else what is there.   *)
(***************************************************************************)
Column(read, set, there) == IF set = read THEN there ELSE set

save_proposal(read, d, version) ==
  [status |-> Column(read.status, "LIVE", slot.status),
   version |-> Column(read.version, version, slot.version),
   plan |-> Column(read.plan, d, slot.plan)]

\* save_proposal under the version approved, then set_status(EXECUTING).
save_executing(read, d) ==
  [status |-> Column(read.status, "EXECUTING", slot.status),
   version |-> slot.version,
   plan |-> Column(read.plan, d, slot.plan)]

set_status(status) == [slot EXCEPT !.status = status]

\* Mutant of _keep: the stored plan follows every move.
KeepRewrites(read, d) ==
  \/ /\ ~has_orders(d)
     /\ slot' = IF read.status = "LIVE" THEN set_status("WITHDRAWN") ELSE slot
     /\ UNCHANGED offered
  \/ /\ has_orders(d)
     /\ read.status = "LIVE" /\ ~is_material(read.plan, d)
     /\ slot' = save_proposal(read, d, read.version)
     /\ UNCHANGED offered
  \/ /\ has_orders(d)
     /\ read.status # "LIVE" \/ is_material(read.plan, d)
     /\ slot' = save_proposal(read, d, read.version + 1)
     /\ offered' = [offered EXCEPT ![read.version + 1] = d]

\* Mutant of _keep: a slot that is not live starts again at version 1.
KeepFromOne(read, d) ==
  \/ /\ ~has_orders(d)
     /\ slot' = IF read.status = "LIVE" THEN set_status("WITHDRAWN") ELSE slot
     /\ UNCHANGED offered
  \/ /\ has_orders(d)
     /\ read.status = "LIVE" /\ ~is_material(read.plan, d)
     /\ UNCHANGED <<slot, offered>>
  \/ /\ has_orders(d)
     /\ read.status # "LIVE" \/ is_material(read.plan, d)
     /\ LET v == IF read.status = "LIVE" THEN read.version + 1 ELSE 1
        IN  /\ slot' = save_proposal(read, d, v)
            /\ offered' = [offered EXCEPT ![v] = d]

\* `_keep`: nothing to send withdraws a live proposal; a live one whose plan
\* has not moved stands as it is; else the next version is stored.
_keep(read, d) ==
  \/ /\ ~has_orders(d)
     /\ slot' = IF read.status = "LIVE" THEN set_status("WITHDRAWN") ELSE slot
     /\ UNCHANGED offered
  \/ /\ has_orders(d)
     /\ read.status = "LIVE" /\ ~is_material(read.plan, d)
     /\ UNCHANGED <<slot, offered>>
  \/ /\ has_orders(d)
     /\ read.status # "LIVE" \/ is_material(read.plan, d)
     /\ slot' = save_proposal(read, d, read.version + 1)
     /\ offered' = [offered EXCEPT ![read.version + 1] = d]
-----------------------------------------------------------------------------
(***************************************************************************)
(* The operations.                                                         *)
(***************************************************************************)

\* `approve`, before the lock: the version named must be the live one.
CheckVersion(w) ==
  /\ pc[w] = "idle"
  /\ slot.status = "LIVE"
  /\ asked' = [asked EXCEPT ![w] = slot.version]
  /\ op' = [op EXCEPT ![w] = "APPROVE"]
  /\ Goto(w, "checked")
  /\ UNCHANGED <<lock, document, seen, allowed, executing, slot, automatic, history>>

\* Mutant of TakeLock: the answer of pg_try_advisory_lock is ignored.
TakeLockAnyway(w) ==
  /\ slot.version < MaxVersion
  /\ \/ pc[w] = "checked" /\ UNCHANGED op
     \/ /\ pc[w] = "idle"
        /\ \E o \in {"PROPOSE", "REBALANCE"} : op' = [op EXCEPT ![w] = o]
  /\ lock' = w
  /\ Goto(w, "evaluate")
  /\ UNCHANGED <<asked, document, seen, allowed, executing, slot, automatic, history>>

\* `evaluate` takes the user's lock, for an approval that passed its check,
\* for a proposal, or for the scheduler's automatic rebalance.  The bound on
\* versions ends the model, not the program.
TakeLock(w) ==
  /\ slot.version < MaxVersion
  /\ lock = Nobody
  /\ \/ pc[w] = "checked" /\ UNCHANGED op
     \/ /\ pc[w] = "idle"
        /\ \E o \in {"PROPOSE", "REBALANCE"} : op' = [op EXCEPT ![w] = o]
  /\ lock' = w
  /\ Goto(w, "evaluate")
  /\ UNCHANGED <<asked, document, seen, allowed, executing, slot, automatic, history>>

\* EvaluationBusy, NotReady: the approval ends before its evaluation.
GiveUp(w) ==
  /\ pc[w] = "checked"
  /\ Goto(w, "idle")
  /\ Forget(w)
  /\ UNCHANGED <<lock, executing, slot, automatic, history>>

\* The plan is computed and `decide` is called: its transaction reads the
\* slot (and, for rebalance_now, the settings).
ReadSlot(w) ==
  /\ pc[w] = "evaluate"
  /\ \E d \in Documents : document' = [document EXCEPT ![w] = d]
  /\ seen' = [seen EXCEPT ![w] = slot]
  /\ allowed' = [allowed EXCEPT ![w] = automatic /\ op[w] = "REBALANCE"]
  /\ Goto(w, "write")
  /\ UNCHANGED <<lock, op, asked, executing, slot, automatic, history>>

\* `decide` of propose: nothing is sent.
Propose(w) ==
  /\ pc[w] = "write" /\ op[w] = "PROPOSE"
  /\ _keep(seen[w], document[w])
  /\ Goto(w, "unlock")
  /\ Forget(w)
  /\ UNCHANGED <<lock, executing, automatic, ran, lost>>

\* The slot read holds the version approved, and it is live.
Current(w) == seen[w].status = "LIVE" /\ seen[w].version = asked[w]

\* The plan computed under the lock is the one approved.
Stands(w) == has_orders(document[w]) /\ ~is_material(seen[w].plan, document[w])

\* `decide` of approve, SUPERSEDED: nothing is sent.
Supersede(w) ==
  /\ pc[w] = "write" /\ op[w] = "APPROVE"
  /\ \/ ~Current(w) /\ UNCHANGED <<slot, offered>>
     \/ Current(w) /\ ~Stands(w) /\ _keep(seen[w], document[w])
  /\ Goto(w, "unlock")
  /\ Forget(w)
  /\ UNCHANGED <<lock, executing, automatic, ran, lost>>

\* Mutant of Approve: the check made before the lock is good enough.
ApproveUnchecked(w) ==
  /\ pc[w] = "write" /\ op[w] = "APPROVE"
  /\ Stands(w)
  /\ slot' = save_executing(seen[w], document[w])
  /\ ran' = [ran EXCEPT ![asked[w]] = @ + 1]
  /\ executing' = [executing EXCEPT ![w] = asked[w]]
  /\ Goto(w, "send")
  /\ UNCHANGED <<lock, op, asked, document, seen, allowed, automatic, offered, lost>>

\* `decide` of approve: today's plan is stored under the version approved,
\* and let through.
Approve(w) ==
  /\ pc[w] = "write" /\ op[w] = "APPROVE"
  /\ Current(w)
  /\ Stands(w)
  /\ slot' = save_executing(seen[w], document[w])
  /\ ran' = [ran EXCEPT ![asked[w]] = @ + 1]
  /\ executing' = [executing EXCEPT ![w] = asked[w]]
  /\ Goto(w, "send")
  /\ UNCHANGED <<lock, op, asked, document, seen, allowed, automatic, offered, lost>>

\* Mutant of RebalanceNow: a live proposal is left standing.
RebalanceKeepsProposal(w) ==
  /\ pc[w] = "write" /\ op[w] = "REBALANCE"
  /\ UNCHANGED slot
  /\ \/ allowed[w] /\ Goto(w, "send") /\ UNCHANGED <<op, asked, document, seen, allowed>>
     \/ ~allowed[w] /\ Goto(w, "unlock") /\ Forget(w)
  /\ UNCHANGED <<lock, executing, automatic, history>>

\* `decide` of rebalance_now: switched off or paused, nothing is sent; else a
\* live proposal is withdrawn and today's plan is let through.
RebalanceNow(w) ==
  /\ pc[w] = "write" /\ op[w] = "REBALANCE"
  /\ slot' = IF allowed[w] /\ seen[w].status = "LIVE" THEN set_status("WITHDRAWN") ELSE slot
  /\ \/ allowed[w] /\ Goto(w, "send") /\ UNCHANGED <<op, asked, document, seen, allowed>>
     \/ ~allowed[w] /\ Goto(w, "unlock") /\ Forget(w)
  /\ UNCHANGED <<lock, executing, automatic, history>>

\* The orders go out (OrderLedger), or an exception ends it midway.
Send(w) ==
  /\ pc[w] = "send"
  /\ Goto(w, "unlock")
  /\ Forget(w)
  /\ UNCHANGED <<lock, executing, slot, automatic, history>>

\* The evaluation ends before `decide` commits: an order unresolved, Kraken
\* unavailable, or an exception.
EndEarly(w) ==
  /\ pc[w] \in {"evaluate", "write"}
  /\ Goto(w, "unlock")
  /\ Forget(w)
  /\ UNCHANGED <<lock, executing, slot, automatic, history>>

\* Mutant of Unlock: the status is not recorded when the evaluation is over.
UnlockIsAll(w) ==
  /\ pc[w] = "unlock"
  /\ lock' = IF lock = w THEN Nobody ELSE lock
  /\ Goto(w, "idle")
  /\ executing' = [executing EXCEPT ![w] = 0]
  /\ UNCHANGED <<op, asked, document, seen, allowed, slot, automatic, history>>

\* `evaluate` returns or raises: the lock is free, and the `finally` of
\* approve has yet to run.
Unlock(w) ==
  /\ pc[w] = "unlock"
  /\ lock' = IF lock = w THEN Nobody ELSE lock
  /\ Goto(w, IF executing[w] # 0 THEN "finally" ELSE "idle")
  /\ UNCHANGED <<locals, slot, automatic, history>>

\* `finally`: whatever is in the slot is marked EXECUTED.
MarkExecuted(w) ==
  /\ pc[w] = "finally"
  /\ slot' = set_status("EXECUTED")
  /\ executing' = [executing EXCEPT ![w] = 0]
  /\ Goto(w, "idle")
  /\ UNCHANGED <<lock, op, asked, document, seen, allowed, automatic, history>>

\* The `finally` is a transaction of its own, with nobody to catch its error:
\* the evaluation is over and the slot stays as it is.
MarkFails(w) ==
  /\ pc[w] = "finally"
  /\ lost' = lost \cup {executing[w]}
  /\ executing' = [executing EXCEPT ![w] = 0]
  /\ Goto(w, "idle")
  /\ UNCHANGED <<lock, op, asked, document, seen, allowed, slot, automatic, offered, ran>>

\* `withdraw`, with the row locked: the version named is the live one.  A slot
\* that is not live, or another version, is refused and nothing changes.
Withdraw ==
  /\ slot.status = "LIVE"
  /\ slot' = set_status("WITHDRAWN")
  /\ UNCHANGED <<lock, pc, locals, automatic, history>>

\* The user changes auto_rebalance_enabled or paused.
Configure ==
  /\ automatic' = ~automatic
  /\ UNCHANGED <<lock, pc, locals, slot, history>>

\* The process dies: its lock goes, the rows stay.
Crash(w) ==
  /\ pc[w] # "idle"
  /\ lock' = IF lock = w THEN Nobody ELSE lock
  /\ executing' = [executing EXCEPT ![w] = 0]
  /\ Goto(w, "idle")
  /\ Forget(w)
  /\ lost' = lost \cup ({executing[w]} \ {0})
  /\ UNCHANGED <<slot, automatic, offered, ran>>
-----------------------------------------------------------------------------
Progress(w) ==
  \/ GiveUp(w) \/ ReadSlot(w) \/ Propose(w) \/ Supersede(w) \/ Approve(w)
  \/ RebalanceNow(w) \/ Send(w) \/ EndEarly(w) \/ Unlock(w) \/ MarkExecuted(w)

Next ==
  \/ \E w \in Workers : CheckVersion(w) \/ TakeLock(w) \/ Progress(w)
  \/ Withdraw
  \/ Configure
  \/ \E w \in Workers : MarkFails(w) \/ Crash(w)

Spec == Init /\ [][Next]_vars

\* For liveness: an operation that has begun goes on.  A process may die and a
\* `finally` may fail at any time.
FairSpec == Spec /\ \A w \in Workers : WF_vars(Progress(w))
-----------------------------------------------------------------------------
(***************************************************************************)
(* Correctness.                                                            *)
(***************************************************************************)

\* An approval executes what the user read: the plan being sent is within its
\* minimums of the plan first offered under the version approved, however many
\* evaluations came between.  A series of small moves adds up, so this rests on
\* `_keep` leaving the stored plan alone.
ExecutesWhatWasRead ==
  \A w \in Workers : pc[w] = "send" /\ op[w] = "APPROVE" =>
    ~is_material(offered[asked[w]], document[w])

\* No version is executed twice, whoever approves it at the same time and
\* wherever a process dies.
ExecutedOnce == \A v \in Versions : ran[v] <= 1

\* While a rebalance is being sent nothing is offered for approval: "left live,
\* it would offer an approval of something already done".
NothingLiveWhileSending ==
  (\E w \in Workers : pc[w] = "send") => slot.status # "LIVE"

\* The version never goes back, and a plan on offer is not changed under its
\* version: "the stored plan stays the one the user read".
OfferIsStable ==
  [][ /\ slot'.version >= slot.version
      /\ slot.status = "LIVE" /\ slot'.status = "LIVE" /\ slot'.version = slot.version
           => slot'.plan = slot.plan ]_vars

\* A proposal that began to execute does not stay EXECUTING ("a proposal left
\* EXECUTING would be neither live nor done"), whether the evaluation returns or
\* raises, unless the process died before its `finally` or the transaction of
\* the `finally` failed.  Nothing in the code looks for such a slot later.
ExecutionIsRecorded ==
  \A v \in Versions :
    (slot.status = "EXECUTING" /\ slot.version = v) ~>
    (slot.status # "EXECUTING" \/ slot.version # v \/ v \in lost)

\* A withdrawal that was answered as done holds: a withdrawn proposal does not
\* begin to execute ("An executed one is not withdrawn", core/rebalance.py).
WithdrawnIsNotExecuted ==
  [][slot.status = "WITHDRAWN" => slot'.status # "EXECUTING"]_vars

\* A slot marked EXECUTED holds a proposal whose execution was let through:
\* "the status says what is in the slot" (core/db/proposals.py).
StatusSaysWhatIsThere == slot.status = "EXECUTED" => ran[slot.version] > 0
-----------------------------------------------------------------------------
(***************************************************************************)
(* The inductive invariant behind the safety properties.                   *)
(***************************************************************************)

\* Only the holder of the lock evaluates, and below the bound on versions.
LockInv ==
  \A w \in Workers :
    /\ pc[w] \in Locked => lock = w
    /\ pc[w] \in {"evaluate", "write"} => slot.version < MaxVersion

\* Version v is offered with this plan, and was never let through.
Fresh(v, d) == d = offered[v] /\ ran[v] = 0

\* What is live is fresh, and so are the versions to come.
SlotInv ==
  /\ slot.status = "LIVE" => Fresh(slot.version, slot.plan)
  /\ \A v \in Versions : v > slot.version => ran[v] = 0

\* What a transaction read can be stale in its status alone, and only in that
\* a live proposal is no longer live.
ReadInv ==
  \A w \in Workers : pc[w] = "write" =>
    /\ seen[w].version = slot.version
    /\ seen[w].plan = slot.plan
    /\ slot.status = "LIVE" => seen[w].status = "LIVE"
    /\ seen[w].status = "LIVE" => Fresh(slot.version, slot.plan)

IInv == /\ TypeOK /\ LockInv /\ SlotInv /\ ReadInv
        /\ ExecutesWhatWasRead /\ ExecutedOnce /\ NothingLiveWhileSending
=============================================================================
