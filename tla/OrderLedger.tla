----------------------------- MODULE OrderLedger -----------------------------
(***************************************************************************)
(* The order ledger of one user and the evaluations that write it:         *)
(* core/execution.py, core/settlement.py, core/db/orders.py,               *)
(* core/db/locks.py and the order calls of exchange/.                      *)
(*                                                                         *)
(* An evaluation takes the user's advisory lock, resolves every PENDING    *)
(* row against Kraken, reads the account, plans, and sends the plan's legs *)
(* one at a time: the row is committed before AddOrder is called, and an   *)
(* answer that is lost leaves the row PENDING without a txid for the next  *)
(* evaluation to resolve.  Evaluators are the threads that can run one (API*)
(* requests, scheduler workers, in any process); every commit and every    *)
(* HTTP call is a step of its own, and a process may die between any two.  *)
(*                                                                         *)
(* Amounts are abstracted: an order trades a volume in 0..Volume, and a    *)
(* plan is the number of its legs.  Which legs carry a note (too small, not*)
(* tradable, shrunk by the budget) is left open.                           *)
(***************************************************************************)
EXTENDS Naturals, FiniteSets

CONSTANTS
  Evaluators,  \* threads that may evaluate this user
  Attempts,    \* client order ids; each is used for one attempt only
  Nobody,      \* the lock is free
  NoAttempt,   \* no row at hand
  MaxLegs,     \* bound: legs of one plan
  Volume,      \* what an order asks for; it may trade any part of it
  Grace,       \* ABSENCE_GRACE, in clock units
  ListBound    \* within this long of its attempt an order is listed, or never exists

ASSUME ConstantsOK ==
  /\ Nobody \notin Evaluators
  /\ NoAttempt \notin Attempts
  /\ MaxLegs \in Nat
  /\ Volume \in Nat \ {0}
  /\ Grace \in Nat
  /\ ListBound \in Nat

(***************************************************************************)
(* What ABSENCE_GRACE is for: from the commit of the row, the wait for the *)
(* limiter's turn, the HTTP timeout and Kraken's delay before it lists an  *)
(* accepted order together take less than the grace period.                *)
(***************************************************************************)
ASSUME GraceCoversListing == ListBound < Grace

VARIABLES
  lock,      \* holder of the advisory lock, or Nobody
  pc,        \* where each evaluator is
  batch,     \* resolve_pending: the PENDING rows read and not handled yet
  mature,    \* rows whose age had reached Grace when resolve_pending was called
  cur,       \* the row at hand: cl_ord_id of resolve_pending's loop and of _send
  lookup,    \* what Kraken answered about it
  unsure,    \* find_order_by_cl_ord_id: `unresolved`, an endpoint proved nothing
  clear,     \* resolve_pending: `clear`
  legs,      \* legs of the plan not handled yet
  stopped,   \* _send_all: `stopped`, an answer was lost
  sent,      \* attempts this evaluation recorded
  result,    \* _run: `status`, what the evaluation record will be closed with
  status,    \* orders.status; "NONE" is no row
  txid,      \* orders.txid is set
  executed,  \* orders.executed_volume
  age,       \* now - orders.attempted_at, counted up to Grace
  kraken,    \* the order at Kraken, or its request on the way there
  traded     \* volume the order has traded at Kraken

evalVars == <<batch, mature, cur, lookup, unsure, clear, legs, stopped, sent,
              result>>
ledger == <<status, txid, executed, age>>
exchange == <<kraken, traded>>
vars == <<lock, pc, evalVars, ledger, exchange>>

RowStatus == {"NONE", "PENDING", "FILLED", "FAILED"}
KrakenState == {"None", "Flight", "Dropped", "Accepted", "Open", "Closed"}
LookupKind == {"failed", "absent", "unfinished", "finished"}
Lookups == [kind : LookupKind, volume : 0..Volume]
Verdicts == {"NOTHING_TO_DO", "PROPOSED", "SUPERSEDED"}
Results == Verdicts \cup {"DONE", "PARTIAL", "STOPPED", "UNRESOLVED",
                          "KRAKEN_UNAVAILABLE", "ERROR"}

Resolving == {"resolve", "byTxid", "open", "closed", "settle"}
Sending == {"send", "place", "await", "refused", "accepted", "fill", "settleSent"}
\* The account has been read for planning and the plan may still be sent.
Planned == {"decide"} \cup Sending
\* The body of _run's try: an exception here ends the evaluation as ERROR.
Working == Resolving \cup {"plan"} \cup Planned
\* A row is at hand; Unnamed: its order was recorded and its txid not yet.
Unnamed == {"place", "await", "refused", "accepted"}
AtHand == {"byTxid", "open", "closed", "settle", "fill", "settleSent"} \cup Unnamed
PC == {"idle", "start", "finish"} \cup Working

NoLookup == [kind |-> "failed", volume |-> 0]
Absent == [kind |-> "absent", volume |-> 0]
\* What an answer that lists order a says of it.
Listed(a) == [kind |-> IF kraken[a] = "Closed" THEN "finished" ELSE "unfinished",
              volume |-> traded[a]]

TypeOK ==
  /\ lock \in Evaluators \cup {Nobody}
  /\ pc \in [Evaluators -> PC]
  /\ batch \in [Evaluators -> SUBSET Attempts]
  /\ mature \in [Evaluators -> SUBSET Attempts]
  /\ cur \in [Evaluators -> Attempts \cup {NoAttempt}]
  /\ \A p \in Evaluators : pc[p] \in AtHand => cur[p] \in Attempts
  /\ lookup \in [Evaluators -> Lookups]
  /\ unsure \in [Evaluators -> BOOLEAN]
  /\ clear \in [Evaluators -> BOOLEAN]
  /\ legs \in [Evaluators -> 0..MaxLegs]
  /\ stopped \in [Evaluators -> BOOLEAN]
  /\ sent \in [Evaluators -> SUBSET Attempts]
  /\ result \in [Evaluators -> Results]
  /\ status \in [Attempts -> RowStatus]
  /\ txid \in [Attempts -> BOOLEAN]
  /\ executed \in [Attempts -> 0..Volume]
  /\ age \in [Attempts -> 0..Grace]
  /\ kraken \in [Attempts -> KrakenState]
  /\ traded \in [Attempts -> 0..Volume]

Init ==
  /\ lock = Nobody
  /\ pc = [p \in Evaluators |-> "idle"]
  /\ batch = [p \in Evaluators |-> {}]
  /\ mature = [p \in Evaluators |-> {}]
  /\ cur = [p \in Evaluators |-> NoAttempt]
  /\ lookup = [p \in Evaluators |-> NoLookup]
  /\ unsure = [p \in Evaluators |-> FALSE]
  /\ clear = [p \in Evaluators |-> TRUE]
  /\ legs = [p \in Evaluators |-> 0]
  /\ stopped = [p \in Evaluators |-> FALSE]
  /\ sent = [p \in Evaluators |-> {}]
  /\ result = [p \in Evaluators |-> "ERROR"]
  /\ status = [a \in Attempts |-> "NONE"]
  /\ txid = [a \in Attempts |-> FALSE]
  /\ executed = [a \in Attempts |-> 0]
  /\ age = [a \in Attempts |-> 0]
  /\ kraken = [a \in Attempts |-> "None"]
  /\ traded = [a \in Attempts |-> 0]

Goto(p, label) == pc' = [pc EXCEPT ![p] = label]

\* The evaluation ends with this status; `finally` has yet to write it.
EndAs(p, s) ==
  /\ result' = [result EXCEPT ![p] = s]
  /\ Goto(p, "finish")
  /\ UNCHANGED <<lock, batch, mature, cur, lookup, unsure, clear, legs, stopped, sent,
                 ledger, exchange>>

-----------------------------------------------------------------------------
(***************************************************************************)
(* Taking the lock and resolving what earlier evaluations left PENDING.    *)
(***************************************************************************)

\* Mutant of TakeLock: the answer of pg_try_advisory_lock is ignored.
TakeLockAnyway(p) ==
  /\ pc[p] = "idle"
  /\ lock' = p
  /\ Goto(p, "start")
  /\ UNCHANGED <<evalVars, ledger, exchange>>

\* `evaluate`: pg_try_advisory_lock.  A held lock raises EvaluationBusy and
\* changes nothing.
TakeLock(p) ==
  /\ pc[p] = "idle"
  /\ lock = Nobody
  /\ lock' = p
  /\ Goto(p, "start")
  /\ UNCHANGED <<evalVars, ledger, exchange>>

\* `_run` opens the evaluation record (not kept here: no step reads it), with
\* ERROR as the status to close it with; `resolve_pending` is called with the
\* clock read now, and reads the PENDING rows.
BeginEvaluation(p) ==
  /\ pc[p] = "start"
  /\ batch' = [batch EXCEPT ![p] = {a \in Attempts : status[a] = "PENDING"}]
  /\ mature' = [mature EXCEPT ![p] = {a \in Attempts : age[a] >= Grace}]
  /\ Goto(p, "resolve")
  /\ UNCHANGED <<lock, cur, lookup, unsure, clear, legs, stopped, sent,
                 result, ledger, exchange>>

\* The loop takes the next row, and asks by txid when there is one.  The
\* code goes oldest first; any order is allowed here.
NextPending(p) ==
  /\ pc[p] = "resolve"
  /\ \E a \in batch[p] :
       /\ cur' = [cur EXCEPT ![p] = a]
       /\ batch' = [batch EXCEPT ![p] = @ \ {a}]
       /\ Goto(p, IF txid[a] THEN "byTxid" ELSE "open")
  /\ unsure' = [unsure EXCEPT ![p] = FALSE]
  /\ UNCHANGED <<lock, mature, lookup, clear, legs, stopped, sent, result, ledger, exchange>>

\* `find_order_by_txid`: QueryOrders lists the order, open or closed.  Both
\* callers: the resolve loop, and `_send` reading the fill of a new order.
QueryByTxid(p) ==
  /\ pc[p] \in {"byTxid", "fill"}
  /\ lookup' = [lookup EXCEPT ![p] = Listed(cur[p])]
  /\ Goto(p, IF pc[p] = "byTxid" THEN "settle" ELSE "settleSent")
  /\ UNCHANGED <<lock, batch, mature, cur, unsure, clear, legs, stopped, sent,
                 result, ledger, exchange>>

\* QueryOrders fails, or its answer leaves the order out: never an absence.
QueryByTxidFails(p) ==
  /\ pc[p] \in {"byTxid", "fill"}
  /\ lookup' = [lookup EXCEPT ![p] = NoLookup]
  /\ Goto(p, IF pc[p] = "byTxid" THEN "settle" ELSE "settleSent")
  /\ UNCHANGED <<lock, batch, mature, cur, unsure, clear, legs, stopped, sent,
                 result, ledger, exchange>>

\* `find_order_by_cl_ord_id`, first endpoint: a listed open order is found.
OpenOrders(p) ==
  /\ pc[p] = "open"
  /\ \/ /\ kraken[cur[p]] = "Open"
        /\ lookup' = [lookup EXCEPT ![p] = Listed(cur[p])]
        /\ Goto(p, "settle")
     \/ /\ kraken[cur[p]] # "Open"
        /\ UNCHANGED lookup
        /\ Goto(p, "closed")
  /\ UNCHANGED <<lock, batch, mature, cur, unsure, clear, legs, stopped, sent,
                 result, ledger, exchange>>

\* The call failed, or returned rows of which none echoes the id.
OpenOrdersFails(p) ==
  /\ pc[p] = "open"
  /\ unsure' = [unsure EXCEPT ![p] = TRUE]
  /\ Goto(p, "closed")
  /\ UNCHANGED <<lock, batch, mature, cur, lookup, clear, legs, stopped, sent,
                 result, ledger, exchange>>

\* Second endpoint: found, or ABSENT when both endpoints answered and neither
\* had it, or None when the first proved nothing.
ClosedOrders(p) ==
  /\ pc[p] = "closed"
  /\ lookup' = [lookup EXCEPT ![p] =
                  IF kraken[cur[p]] = "Closed" THEN Listed(cur[p])
                  ELSE IF unsure[p] THEN NoLookup ELSE Absent]
  /\ Goto(p, "settle")
  /\ UNCHANGED <<lock, batch, mature, cur, unsure, clear, legs, stopped, sent,
                 result, ledger, exchange>>

ClosedOrdersFails(p) ==
  /\ pc[p] = "closed"
  /\ lookup' = [lookup EXCEPT ![p] = NoLookup]
  /\ Goto(p, "settle")
  /\ UNCHANGED <<lock, batch, mature, cur, unsure, clear, legs, stopped, sent,
                 result, ledger, exchange>>

\* What core/db/orders.py writes, one transaction each.
mark_sent(a) ==
  /\ txid' = [txid EXCEPT ![a] = TRUE]
  /\ UNCHANGED <<status, executed, age>>

mark_filled(a, volume) ==
  /\ status' = [status EXCEPT ![a] = "FILLED"]
  /\ txid' = [txid EXCEPT ![a] = TRUE]
  /\ executed' = [executed EXCEPT ![a] = volume]
  /\ UNCHANGED age

mark_failed(a) ==
  /\ status' = [status EXCEPT ![a] = "FAILED"]
  /\ UNCHANGED <<txid, executed, age>>

\* Mutant of Settle: an order that traded counts as done while it is open.
SettleOnFirstTrade(a, look) ==
  \/ look.kind = "failed" /\ UNCHANGED ledger
  \/ look.kind = "absent" /\ mark_failed(a)
  \/ look.kind \in {"finished", "unfinished"} /\ look.volume > 0 /\ mark_filled(a, look.volume)
  \/ look.kind = "finished" /\ look.volume = 0 /\ mark_failed(a)
  \/ look.kind = "unfinished" /\ look.volume = 0 /\ mark_sent(a)

\* `settle`: write down what Kraken says about one order.
Settle(a, look) ==
  \/ look.kind = "failed" /\ UNCHANGED ledger
  \/ look.kind = "absent" /\ mark_failed(a)
  \/ look.kind = "finished" /\ look.volume > 0 /\ mark_filled(a, look.volume)
  \/ look.kind = "finished" /\ look.volume = 0 /\ mark_failed(a)
  \/ look.kind = "unfinished" /\ mark_sent(a)

\* `settle` returned PENDING: the row is still unknown, or not finished.
StillPending(look) == look.kind \in {"failed", "unfinished"}

\* Mutants of WithinGrace: every absence is believed; none ever is.
NoGrace(p) == FALSE
EndlessGrace(p) == lookup[p].kind = "absent"

\* An absence read too soon after the attempt is not believed.
WithinGrace(p) == lookup[p].kind = "absent" /\ cur[p] \notin mature[p]

HoldAbsence(p) ==
  /\ pc[p] = "settle"
  /\ WithinGrace(p)
  /\ clear' = [clear EXCEPT ![p] = FALSE]
  /\ Goto(p, "resolve")
  /\ UNCHANGED <<lock, batch, mature, cur, lookup, unsure, legs, stopped, sent,
                 result, ledger, exchange>>

SettlePending(p) ==
  /\ pc[p] = "settle"
  /\ ~WithinGrace(p)
  /\ Settle(cur[p], lookup[p])
  /\ clear' = [clear EXCEPT ![p] = @ /\ ~StillPending(lookup[p])]
  /\ Goto(p, "resolve")
  /\ UNCHANGED <<lock, batch, mature, cur, lookup, unsure, legs, stopped, sent,
                 result, exchange>>

\* `_evaluate` goes on only when everything is resolved.
EndResolve(p) ==
  /\ pc[p] = "resolve"
  /\ batch[p] = {}
  /\ \/ ~clear[p] /\ EndAs(p, "UNRESOLVED")
     \/ clear[p] /\ Goto(p, "plan") /\ UNCHANGED <<lock, evalVars, ledger, exchange>>
-----------------------------------------------------------------------------
(***************************************************************************)
(* Planning and sending.                                                   *)
(***************************************************************************)

\* `_plan` reads the account and sizes the legs; the snapshot is kept.
Plan(p) ==
  /\ pc[p] = "plan"
  /\ \E n \in 0..MaxLegs : legs' = [legs EXCEPT ![p] = n]
  /\ Goto(p, "decide")
  /\ UNCHANGED <<lock, batch, mature, cur, lookup, unsure, clear, stopped, sent,
                 result, ledger, exchange>>

\* PortfolioUnavailable: a read failed, nothing is sent.
PlanUnavailable(p) ==
  /\ pc[p] = "plan"
  /\ EndAs(p, "KRAKEN_UNAVAILABLE")

\* `decide` returns None: what it let through is sent.
LetThrough(p) ==
  /\ pc[p] = "decide"
  /\ Goto(p, "send")
  /\ UNCHANGED <<lock, evalVars, ledger, exchange>>

\* `decide` returns a status: nothing is sent.
TurnDown(p) ==
  /\ pc[p] = "decide"
  /\ \E v \in Verdicts : EndAs(p, v)

\* Mutant of SkipLeg: one leg too many.
SkipLegPastTheEnd(p) ==
  /\ pc[p] = "send"
  /\ legs' = [legs EXCEPT ![p] = @ - 1]
  /\ UNCHANGED <<lock, pc, batch, mature, cur, lookup, unsure, clear, stopped, sent,
                 result, ledger, exchange>>

\* `_attempt`: a leg with a note is skipped, and so is every leg once an
\* answer was lost.
SkipLeg(p) ==
  /\ pc[p] = "send"
  /\ legs[p] > 0
  /\ legs' = [legs EXCEPT ![p] = @ - 1]
  /\ UNCHANGED <<lock, pc, batch, mature, cur, lookup, unsure, clear, stopped, sent,
                 result, ledger, exchange>>

\* Mutant of RecordAttempt: the row is not committed before the call.
RecordAttemptLate(p) ==
  /\ pc[p] = "send"
  /\ legs[p] > 0
  /\ ~stopped[p]
  /\ \E a \in Attempts :
       /\ status[a] = "NONE"
       /\ cur' = [cur EXCEPT ![p] = a]
       /\ sent' = [sent EXCEPT ![p] = @ \cup {a}]
  /\ legs' = [legs EXCEPT ![p] = @ - 1]
  /\ Goto(p, "place")
  /\ UNCHANGED <<lock, batch, mature, lookup, unsure, clear, stopped, result,
                 ledger, exchange>>

\* `_send`: the row is committed PENDING, under a fresh id, before the call.
RecordAttempt(p) ==
  /\ pc[p] = "send"
  /\ legs[p] > 0
  /\ ~stopped[p]
  /\ \E a \in Attempts :
       /\ status[a] = "NONE"
       /\ status' = [status EXCEPT ![a] = "PENDING"]
       /\ cur' = [cur EXCEPT ![p] = a]
       /\ sent' = [sent EXCEPT ![p] = @ \cup {a}]
  /\ legs' = [legs EXCEPT ![p] = @ - 1]
  /\ Goto(p, "place")
  /\ UNCHANGED <<lock, batch, mature, lookup, unsure, clear, stopped, result,
                 txid, executed, age, exchange>>

\* `add_order` puts the request on the wire, after the limiter's turn.
PlaceOrder(p) ==
  /\ pc[p] = "place"
  /\ kraken' = [kraken EXCEPT ![cur[p]] = "Flight"]
  /\ Goto(p, "await")
  /\ UNCHANGED <<lock, evalVars, ledger, traded>>

\* Only the codes of DEFINITIVE_REFUSALS read as REFUSED: no order exists.
AnswerRefused(p) ==
  /\ pc[p] = "await"
  /\ kraken[cur[p]] = "Dropped"
  /\ Goto(p, "refused")
  /\ UNCHANGED <<lock, evalVars, ledger, exchange>>

\* SENT: the answer names the order.
AnswerSent(p) ==
  /\ pc[p] = "await"
  /\ kraken[cur[p]] \in {"Accepted", "Open", "Closed"}
  /\ Goto(p, "accepted")
  /\ UNCHANGED <<lock, evalVars, ledger, exchange>>

\* Mutant of AnswerUnknown: the other legs are still sent.
AnswerUnknownGoesOn(p) ==
  /\ pc[p] = "await"
  /\ Goto(p, "send")
  /\ UNCHANGED <<lock, evalVars, ledger, exchange>>

\* UNKNOWN: a timeout, a lost answer, any other error, no txid.  The request
\* may be anywhere.  The row stays PENDING without a txid, and `_attempt`
\* stops the evaluation's other legs.
AnswerUnknown(p) ==
  /\ pc[p] = "await"
  /\ stopped' = [stopped EXCEPT ![p] = TRUE]
  /\ Goto(p, "send")
  /\ UNCHANGED <<lock, batch, mature, cur, lookup, unsure, clear, legs, sent,
                 result, ledger, exchange>>

\* `mark_failed` with Kraken's code.
MarkRefused(p) ==
  /\ pc[p] = "refused"
  /\ mark_failed(cur[p])
  /\ Goto(p, "send")
  /\ UNCHANGED <<lock, evalVars, exchange>>

\* `mark_sent`: the txid is committed before the fill is read.
MarkSent(p) ==
  /\ pc[p] = "accepted"
  /\ mark_sent(cur[p])
  /\ Goto(p, "fill")
  /\ UNCHANGED <<lock, evalVars, exchange>>

\* `settle` of the new order.  It may stay PENDING: its txid is known, and
\* the next leg is sent all the same.
SettleSent(p) ==
  /\ pc[p] = "settleSent"
  /\ Settle(cur[p], lookup[p])
  /\ Goto(p, "send")
  /\ UNCHANGED <<lock, evalVars, exchange>>

\* Mutant of SentStatus: a refusal is reported before a lost answer.
SentStatusRefusalFirst(p) ==
  IF \E a \in sent[p] : status[a] = "FAILED" THEN "PARTIAL"
  ELSE IF stopped[p] THEN "STOPPED"
  ELSE IF sent[p] # {} THEN "DONE"
  ELSE "NOTHING_TO_DO"

\* The end of `_evaluate`: what the legs add up to.
SentStatus(p) ==
  IF stopped[p] THEN "STOPPED"
  ELSE IF \E a \in sent[p] : status[a] = "FAILED" THEN "PARTIAL"
  ELSE IF sent[p] # {} THEN "DONE"
  ELSE "NOTHING_TO_DO"

EndSend(p) ==
  /\ pc[p] = "send"
  /\ legs[p] = 0
  /\ EndAs(p, SentStatus(p))
-----------------------------------------------------------------------------
(***************************************************************************)
(* The end of an evaluation, and the ways it can be cut short.             *)
(***************************************************************************)

\* The evaluation's local variables are gone.
Forget(p) ==
  /\ batch' = [batch EXCEPT ![p] = {}]
  /\ mature' = [mature EXCEPT ![p] = {}]
  /\ cur' = [cur EXCEPT ![p] = NoAttempt]
  /\ lookup' = [lookup EXCEPT ![p] = NoLookup]
  /\ unsure' = [unsure EXCEPT ![p] = FALSE]
  /\ clear' = [clear EXCEPT ![p] = TRUE]
  /\ legs' = [legs EXCEPT ![p] = 0]
  /\ stopped' = [stopped EXCEPT ![p] = FALSE]
  /\ sent' = [sent EXCEPT ![p] = {}]
  /\ result' = [result EXCEPT ![p] = "ERROR"]

\* `finally`: finish_evaluation closes the record with `status`, and leaving
\* the context of the lock calls pg_advisory_unlock.
Unlock(p) ==
  /\ pc[p] = "finish"
  /\ lock' = IF lock = p THEN Nobody ELSE lock
  /\ Goto(p, "idle")
  /\ Forget(p)
  /\ UNCHANGED <<ledger, exchange>>

\* A database call raises: ERROR, through the same `finally` (or, before the
\* record is opened, straight out of the lock).
Raise(p) ==
  /\ pc[p] \in {"start"} \cup Working
  /\ EndAs(p, "ERROR")

\* Mutant of Crash: the lock outlives the process.
CrashKeepsLock(p) ==
  /\ pc[p] \notin {"idle", "finish"}
  /\ Goto(p, "idle")
  /\ Forget(p)
  /\ UNCHANGED <<lock, ledger, exchange>>

\* The process dies.  The lock's connection closes and the lock goes with it;
\* rows and requests on the wire stay as they are.  (At "finish" this is what
\* Unlock does, and no step of its own.)
Crash(p) ==
  /\ pc[p] \notin {"idle", "finish"}
  /\ lock' = IF lock = p THEN Nobody ELSE lock
  /\ Goto(p, "idle")
  /\ Forget(p)
  /\ UNCHANGED <<ledger, exchange>>
-----------------------------------------------------------------------------
(***************************************************************************)
(* Kraken and the network, as the client meets them.                       *)
(***************************************************************************)

\* The request reaches Kraken and makes an order.
Accept(a) ==
  /\ kraken[a] = "Flight"
  /\ kraken' = [kraken EXCEPT ![a] = "Accepted"]
  /\ UNCHANGED <<lock, pc, evalVars, ledger, traded>>

\* Kraken refuses it, or it is lost on the way.
Drop(a) ==
  /\ kraken[a] = "Flight"
  /\ kraken' = [kraken EXCEPT ![a] = "Dropped"]
  /\ UNCHANGED <<lock, pc, evalVars, ledger, traded>>

\* OpenOrders lists it from now on.
List(a) ==
  /\ kraken[a] = "Accepted"
  /\ kraken' = [kraken EXCEPT ![a] = "Open"]
  /\ UNCHANGED <<lock, pc, evalVars, ledger, traded>>

Trade(a) ==
  /\ kraken[a] \in {"Accepted", "Open"}
  /\ traded[a] < Volume
  /\ traded' = [traded EXCEPT ![a] = @ + 1]
  /\ UNCHANGED <<lock, pc, evalVars, ledger, kraken>>

\* Closed, canceled or expired: nothing more trades, and ClosedOrders lists it.
Close(a) ==
  /\ kraken[a] \in {"Accepted", "Open"}
  /\ kraken' = [kraken EXCEPT ![a] = "Closed"]
  /\ UNCHANGED <<lock, pc, evalVars, ledger, traded>>

\* The row of a is committed and its request is about to be sent.
Placing(a) == \E p \in Evaluators : pc[p] = "place" /\ cur[p] = a

\* The order is not listed yet, or its request is still to come.
Unlisted(a) == kraken[a] \in {"Flight", "Accepted"} \/ Placing(a)

\* Time passes.  ListBound is a bound on Unlisted, so the clock does not pass it.
Tick ==
  /\ \A a \in Attempts : Unlisted(a) => age[a] < ListBound
  /\ age' = [a \in Attempts |->
               IF status[a] # "NONE" /\ age[a] < Grace THEN age[a] + 1 ELSE age[a]]
  /\ UNCHANGED <<lock, pc, evalVars, status, txid, executed, exchange>>
-----------------------------------------------------------------------------
Progress(p) ==
  \/ BeginEvaluation(p) \/ NextPending(p) \/ QueryByTxid(p) \/ OpenOrders(p)
  \/ ClosedOrders(p) \/ HoldAbsence(p) \/ SettlePending(p) \/ EndResolve(p)
  \/ Plan(p) \/ PlanUnavailable(p) \/ LetThrough(p) \/ TurnDown(p)
  \/ SkipLeg(p) \/ RecordAttempt(p) \/ PlaceOrder(p)
  \/ AnswerRefused(p) \/ AnswerSent(p) \/ AnswerUnknown(p)
  \/ MarkRefused(p) \/ MarkSent(p) \/ SettleSent(p) \/ EndSend(p)
  \/ Unlock(p)

\* A lookup goes unanswered, a database call raises, or the process dies.
Fault(p) ==
  \/ QueryByTxidFails(p) \/ OpenOrdersFails(p) \/ ClosedOrdersFails(p)
  \/ Raise(p) \/ Crash(p)

Kraken(a) == Accept(a) \/ Drop(a) \/ List(a) \/ Trade(a) \/ Close(a)

Next ==
  \/ \E p \in Evaluators : TakeLock(p) \/ Progress(p) \/ Fault(p)
  \/ \E a \in Attempts : Kraken(a)
  \/ Tick

Spec == Init /\ [][Next]_vars

(***************************************************************************)
(* For liveness.  The process keeps running what it started, the user is   *)
(* evaluated again and again (the scheduler calls at every due slot), time *)
(* passes, Kraken acts on every request and finishes every market order,   *)
(* and faults come to an end: from some point on no process dies and no    *)
(* lookup goes unanswered.                                                 *)
(***************************************************************************)
Fairness ==
  /\ WF_vars(\E p \in Evaluators : TakeLock(p))
  /\ \A p \in Evaluators : WF_vars(Progress(p))
  /\ WF_vars(Tick)
  /\ \A a \in Attempts : WF_vars(Accept(a) \/ Drop(a)) /\ WF_vars(Close(a))

FairSpec == Spec /\ Fairness /\ <>[][~\E p \in Evaluators : Fault(p)]_vars
-----------------------------------------------------------------------------
(***************************************************************************)
(* Correctness.                                                            *)
(***************************************************************************)

\* Nothing more can trade under attempt a: its request never left and never
\* will, was dropped, or its order is finished.
Over(a) ==
  \/ kraken[a] \in {"Dropped", "Closed"}
  \/ kraken[a] = "None" /\ ~Placing(a)

\* A row that reached a final status tells what happened at Kraken: FAILED
\* traded nothing and never will, FILLED holds the whole volume its order
\* traded.  The reading of absences (ABSENCE_GRACE, both endpoints answering,
\* open orders asked first) and of refusals is what this rests on; the
\* comment it answers: "failing the row would let the next plan buy again".
LedgerIsTrue ==
  \A a \in Attempts :
    /\ status[a] = "FAILED" => Over(a) /\ traded[a] = 0
    /\ status[a] = "FILLED" => Over(a) /\ traded[a] = executed[a] /\ traded[a] > 0

\* The account an evaluation plans on does not move under it: from the read of
\* the balance to the last leg, no order of any other evaluation can trade,
\* and the ledger knows the outcome of each ("a plan computed on an ambiguous
\* balance is a wrong plan", core/db/orders.py).
PlansOnSettledAccount ==
  \A p \in Evaluators : pc[p] \in {"plan"} \cup Planned =>
    \A a \in Attempts \ sent[p] : Over(a) /\ status[a] # "PENDING"

\* PENDING, and not named by Kraken.
Unknown(a) == status[a] = "PENDING" /\ ~txid[a]

\* At most one attempt at a time is unknown.
\* `_attempt` stops after one, and the next evaluation resolves it first.
AtMostOneUnknown ==
  \A a, b \in Attempts : Unknown(a) /\ Unknown(b) => a = b

\* No order and no request without a committed row: a process that dies after
\* AddOrder leaves evidence rather than a gap.
EveryOrderHasItsRow ==
  \A a \in Attempts : kraken[a] # "None" => status[a] # "NONE"

\* What the evaluation reports about the orders it sent is true when it lets
\* go of the lock: "nothing was sent", every order answered and none refused,
\* every order answered, an answer lost.
ReportIsTrue ==
  \A p \in Evaluators : pc[p] = "finish" =>
    /\ result[p] \in Verdicts \cup {"UNRESOLVED", "KRAKEN_UNAVAILABLE"} => sent[p] = {}
    /\ result[p] = "DONE" => \A a \in sent[p] : txid[a] /\ status[a] # "FAILED"
    /\ result[p] = "PARTIAL" => \A a \in sent[p] : txid[a] \/ status[a] = "FAILED"
    /\ result[p] = "STOPPED" => \E a \in sent[p] : status[a] = "PENDING" /\ ~txid[a]

(***************************************************************************)
(* The promise this implements: see OrderPromise.                          *)
(***************************************************************************)
market == [a \in Attempts |->
             IF status[a] = "NONE" THEN "none" ELSE IF Over(a) THEN "over" ELSE "live"]

Promise == INSTANCE OrderPromise WITH ledger <- status, named <- txid, booked <- executed

\* Every step of every evaluator, of Kraken and of a crash is a step of the
\* promise: each attempt is written down once, never beside another unknown
\* one, and booked once, when it is over, at what it traded.
KeepsPromise == Promise!Spec

\* Every attempt is resolved in the end, whatever was lost on the way.
EveryAttemptResolved ==
  \A a \in Attempts : status[a] = "PENDING" ~> status[a] \in {"FILLED", "FAILED"}

\* A crash never leaves the user locked out.
LockComesFree == []<>(lock = Nobody)
-----------------------------------------------------------------------------
(***************************************************************************)
(* The inductive invariant behind the safety properties.                   *)
(***************************************************************************)
Exists == {"Accepted", "Open", "Closed"}
Nothing == {"None", "Dropped"}

\* Only the holder of the lock is under way, and an evaluation starts clean.
LockInv ==
  \A p \in Evaluators :
    /\ pc[p] # "idle" => lock = p
    /\ pc[p] \in {"idle", "start"} => clear[p]
    /\ pc[p] \in {"idle", "start", "plan", "decide"} \cup Resolving =>
         sent[p] = {} /\ ~stopped[p]

\* Each row against its order.
RowInv ==
  \A a \in Attempts :
    /\ status[a] = "NONE" => kraken[a] = "None" /\ age[a] = 0
    /\ status[a] \in {"NONE", "PENDING"} => executed[a] = 0
    /\ status[a] = "FAILED" => kraken[a] \in Nothing \cup {"Closed"} /\ traded[a] = 0
    /\ status[a] = "FILLED" => kraken[a] = "Closed" /\ traded[a] = executed[a] /\ traded[a] > 0
    /\ status[a] = "FILLED" => txid[a]
    /\ txid[a] => kraken[a] \in Exists
    /\ traded[a] > 0 => kraken[a] \in Exists
    /\ kraken[a] \in {"Flight", "Accepted"} => age[a] <= ListBound

\* The row at hand is PENDING, and its order is where the step before left it.
HandInv ==
  \A p \in Evaluators : pc[p] \in AtHand =>
    /\ status[cur[p]] = "PENDING"
    /\ pc[p] \in Unnamed => ~txid[cur[p]]
    /\ pc[p] \in {"byTxid", "fill", "settleSent"} => txid[cur[p]]
    /\ pc[p] = "place" => kraken[cur[p]] = "None" /\ age[cur[p]] <= ListBound
    /\ pc[p] = "refused" => kraken[cur[p]] = "Dropped"
    /\ pc[p] = "accepted" => kraken[cur[p]] \in Exists

\* What a lookup found still holds when it is written down.
LookupInv ==
  \A p \in Evaluators :
    /\ \A a \in mature[p] : age[a] >= Grace
    /\ pc[p] = "closed" /\ ~unsure[p] /\ cur[p] \in mature[p] =>
         kraken[cur[p]] \in Nothing \cup {"Closed"}
    /\ pc[p] = "settleSent" => lookup[p].kind # "absent"
    /\ pc[p] \in {"settle", "settleSent"} =>
         /\ lookup[p].kind = "absent" /\ cur[p] \in mature[p] => kraken[cur[p]] \in Nothing
         /\ lookup[p].kind = "unfinished" => kraken[cur[p]] \in Exists
         /\ lookup[p].kind = "finished" =>
              kraken[cur[p]] = "Closed" /\ lookup[p].volume = traded[cur[p]]

\* resolve_pending forgets no PENDING row while `clear` holds.
ResolveInv ==
  \A p \in Evaluators : pc[p] \in Resolving =>
    /\ \A a \in batch[p] : status[a] = "PENDING"
    /\ pc[p] # "resolve" => cur[p] \notin batch[p]
    /\ clear[p] => \A a \in Attempts : status[a] = "PENDING" =>
                     a \in batch[p] \/ (pc[p] # "resolve" /\ a = cur[p])

\* From the plan on, what is PENDING is this evaluation's own, and what is
\* unknown is the row at hand or what stopped it.
SendInv ==
  \A p \in Evaluators : pc[p] \in {"plan"} \cup Planned =>
    /\ \A a \in Attempts : status[a] = "PENDING" => a \in sent[p]
    /\ \A a \in Attempts : Unknown(a) =>
         stopped[p] \/ (pc[p] \in Unnamed /\ a = cur[p])

\* What the legs left behind when the evaluation adds them up.
LegsInv ==
  \A p \in Evaluators : pc[p] \in Planned =>
    /\ \A a \in sent[p] : status[a] # "NONE"
    /\ stopped[p] => pc[p] = "send" /\ \E a \in sent[p] : Unknown(a)

IInv == /\ TypeOK /\ LockInv /\ RowInv /\ HandInv /\ LookupInv
        /\ ResolveInv /\ SendInv /\ LegsInv /\ AtMostOneUnknown /\ ReportIsTrue
=============================================================================
