# coinpilot: specifications, model checking and proofs

coinpilot keeps Kraken portfolios at the weights their owners chose. It is a FastAPI service
with a scheduler thread, several processes at most, and PostgreSQL between them. An
*evaluation* of a user resolves what earlier evaluations left unknown, reads the account,
plans, and sends market orders. What makes it hard is that money moves at Kraken while the
program may lose an answer, crash, or be called twice.

This directory holds TLA+ modules translated from the code, TLC configurations that check
them on small instances, and TLAPS proofs for every value of their constants.
`PROJECT.json` lists components, runs, mutants, the map from definitions to source lines,
findings, hazards and theorems.

## Inventory

| Component | State | Operations | Interacts through |
|---|---|---|---|
| Executor (`core/execution.py`) | locals of one evaluation | `evaluate`, `_run`, `_evaluate`, `_send_all`, `_attempt`, `_send` | user lock, ledger, Kraken, `decide` callback |
| Settlement (`core/settlement.py`) | none | `settle`, `resolve_pending` | ledger, Kraken lookups |
| Order ledger (`core/db/orders.py`) | one row per attempt | `record_attempt`, `mark_sent`, `mark_filled`, `mark_failed` | short transactions |
| Locks (`core/db/locks.py`) | advisory locks on connections | user lock, scheduler lock | PostgreSQL sessions |
| Kraken orders (`exchange/orders.py`, `exchange/client.py`) | orders at Kraken | `add_order`, lookups by id and by txid | HTTP, 10 s timeout |
| Proposals (`core/rebalance.py`, `core/db/proposals.py`, `core/proposal_plan.py`) | one slot per user: status, version, plan | `propose`, `approve`, `withdraw`, `rebalance_now` | `decide`, slot row |
| Scheduler (`core/scheduler.py`, `core/schedule.py`, `core/cadence.py`) | next runs, failure streak, day swept | `tick`, `_operate`, `_advance`, `_count`, `_sweep`, `backfill` | settings rows, all operations |
| Settings and weights (`core/db/settings.py`, `api/routes/config.py`, `api/routes/assets.py`) | settings, targets | `patch_config`, `put_asset`, `delete_asset` | row lock, scheduler, executor |
| Engine and sizing (`engine/`, `exchange/precision.py`, `_within`) | none | `reconcile`, rounding, minimums | called by `_plan` |
| Snapshots (`core/db/telemetry.py`, `api/routes/portfolio.py`) | daily snapshot, pin | `keep_snapshot`, `pin_snapshot`, refresh | executor and requests |
| History (`core/db/telemetry.py`, `api/routes/history.py`) | evaluation records | `start_evaluation`, `finish_evaluation`, pages, retention | executor, scheduler's sweep, requests |
| Sign-in (`core/refresh.py`, `api/routes/auth.py`) | token families | `start_family`, `rotate`, `revoke` | row locks |
| Credentials (`core/rotation.py`, `core/db/users.py`) | sealed keys with a key version | `save_credentials`, `reseal` | row locks |
| Key limiter (`exchange/limits.py`) | last call, last nonce per key | `wait_turn`, `next_nonce` | threads |
| Catalog, tick prices (`core/catalog.py`, `core/public_market.py`) | cached answers | `get`, `preload`, `ticker` | threads |

The hard behaviours: an order whose answer is lost; a crash between a commit and a call;
Kraken listing an order late; an order closing between two reads of one lookup; evaluations
of one user from several threads and processes; a slot read without a lock and written
afterwards; work done after the lock is released; settings changed under the scheduler; a
`finally` that needs the database because of which it runs.
`PROJECT.json` lists each as a hazard at its line.

## Modules

| Module | Models | Question | State |
|---|---|---|---|
| `OrderLedger`, refining `OrderPromise` | executor, settlement, ledger, user lock | does the ledger always tell the truth, and is every attempt resolved? | checked and proved |
| `Proposals` | proposal slot | does an approval execute, once, what the user read? | checked and proved |
| `Scheduler` | start-up, tick, pool, next runs, PATCH /config | is every due user run, once per slot, whatever fails and whoever edits the settings? | checked and proved |
| `Cadence` | next slot, calendar | is the next slot the first after now? | checked and proved |
| `Rebalancing` | valuation, drift, allocation, precision, budget | do the orders leave the cash target alone, and meet their minimums? | checked and proved |
| `Snapshots` | daily point and its pin | is what orders were sent from kept? | checked and proved |
| `History` | evaluation records, pages, retention | does a reader get every record once? | checked and proved |
| `SignIn` | refresh tokens | does a sign-in end when it should? | checked and proved |
| `KeyRotation` | sealed keys, master keys, the script | does every record stay readable? | checked and proved |
| `Weights` | first PATCH, weights | do the weights stay at 100 or less? | checked and proved |
| `KeyLimiter`, `Catalog`, `TickMarket` | turns and nonces; a cache without a lock; one tick's prices | what threads share | checked and proved |

The small modules are put together in two: `Tables` (what requests share in the database: `SignIn`,
`KeyRotation`, `Weights`, `Snapshots`, `History`) and `Inputs` (what an evaluation computes and
reads: `Rebalancing`, `Cadence`, `KeyLimiter`, `Catalog`, `TickMarket`). The five of each share no
state, so a behaviour picks one of them at the start (`part`) and runs it alone; the modules are
taken with `INSTANCE`, their assumptions (`...Constants`) are `ASSUME`d there, and each property is
the component's own, for behaviours of its part. `MCRequests` and `MCEvaluation` extend them for
TLC, the proof modules extend them for TLAPS, so that both are about the same definitions.
`MCEvaluation` keeps the four parts that do not run in one initial state (`MCSpec`); the theorems
are about `Spec`, of which that is a restriction. `MCScheduler` extends `Scheduler`.

How they compose: `Scheduler` sees an evaluation as the time its user lock is held;
`Proposals` sees it as one step (`Send`); `OrderLedger` sees a plan as its number of legs, whose
amounts are `Rebalancing`; `Snapshots` sees the orders only as what changes the account.

## OrderLedger

Models the whole of an evaluation, one step per commit and per HTTP call. Evaluators are the
threads that may evaluate this user; `Crash` can fall between any two steps, `Raise` is an
exception of the database. Names in the module follow the code: `lock` is the advisory lock;
`batch`, `mature`, `cur`, `lookup`, `unsure` and `clear` are the locals of `resolve_pending` and
`find_order_by_cl_ord_id`; `legs`, `stopped` and `sent` those of `_send_all`; `status`, `txid`,
`executed` and `age` are columns of the order row. `kraken` and `traded` are the order at Kraken
(external): a request in `Flight` is accepted or dropped at any time, even after the client gave
up; an accepted order trades at once and is listed later; it may close partly traded.

Abstractions: an order's amounts are one volume in `0..Volume`. A plan is the number of its legs,
and which of them carry a note is open (`SkipLeg`). The evaluation record, the snapshot, previews
and log texts have no effect on the steps and are left out.

Assumption `GraceCoversListing`: from the commit of the row, the limiter's wait, the HTTP timeout
and Kraken's delay before it lists an order take together less than `ABSENCE_GRACE` (2 minutes).
`Tick` does not pass `ListBound` while an order is unlisted. This is what the comment on
`ABSENCE_GRACE` relies on; without it `LedgerIsTrue` fails (it is the mutant `NoGrace`).
A finished order is assumed to report its executed volume.

Properties:

- `LedgerIsTrue`: FAILED traded nothing and never will; FILLED holds all its order traded.
- `PlansOnSettledAccount`: from the balance read to the last leg, no order of any other
  evaluation can trade or is unresolved.
- `AtMostOneUnknown`, `EveryOrderHasItsRow`, `ReportIsTrue`: see their comments.
- `KeepsPromise`: `OrderLedger` implements `OrderPromise`, in which an attempt is recorded, named,
  traded, ended and booked, and there is no evaluator, lock or clock. The mapping takes `status`,
  `txid`, `executed`, `traded` as they are and defines `market` from what can still trade.
- `EveryAttemptResolved`, `LockComesFree`: liveness.

Fairness (`FairSpec`): weak fairness of each evaluator's progress (threads run), of taking the
lock (the scheduler calls at every due slot), of the clock, and of Kraken accepting or dropping
requests and finishing market orders. Faults end at some point (`<>[][~Fault]`): a lookup
that fails for ever keeps a row PENDING for ever, by design.

## Proposals

Models the slot and the four operations on it. `decide` is one transaction at READ COMMITTED
that reads the row and updates it by key, so `ReadSlot` and the write (`Propose`, `Supersede`,
`Approve`, `RebalanceNow`) are two steps, and `Withdraw` and the `finally` of `approve`
(`MarkExecuted`), which hold no user lock, can fall between. SQLAlchemy writes only the columns
that differ from what was read: `Column`. `withdraw` locks the row, so it is one step. The inside
of the evaluation is abstracted: it may end early, or send (`Send`). The `finally` is a transaction
of its own with no handler, so besides `MarkExecuted` there is `MarkFails`: the database is away,
the slot stays EXECUTING and the process goes on.
A document maps (asset, side) to an amount and a minimum; amount 0 is a leg that is not sent.
`offered`, `ran` and `lost` are history variables: the plan first stored under a version, how often
it was let through, and the versions whose `finally` failed or was never reached. The bound `MaxVersion` stops new evaluations, not the program.

Properties: `ExecutesWhatWasRead` (small moves must not add up), `ExecutedOnce`,
`NothingLiveWhileSending`, `OfferIsStable`, and `ExecutionIsRecorded` under weak fairness of the
operations (a request that began goes on), with failures and crashes allowed at any time: a version
that began to execute does not stay EXECUTING unless it is `lost`. Of those two ways to lose it,
nothing in the code repairs either; a later proposal with orders takes the slot.

## Scheduler

`settings` is a user's row: pause, investing switch, length of each cadence, next runs, failure
streak. `task[p][u]` is what process `p`'s pool does for user `u`; its `pc` follows `_operate`:
read the settings, run under the user's lock, `_advance`, `_count`, log. `_advance` and `_count`
read the row in a transaction that locks nothing and then write one column by key, so each is two
steps; SQLAlchemy leaves out a column whose value is what was read. `patch_config` locks the row
and is one step. A process starts in three steps: `start` reads the clock (`ReadClock`), `backfill`
selects the rows that lack a next run without a lock (`StartReads`), and updates them by key
(`StartFills`), whatever was written in between. `run` reads the clock too, before `tick` tries the
lock, so a tick's `now` may be older than the rows it reads; it finds users (`Tick`), nobody or no
lock (`TickIdles`), or its transaction fails (`TickFails`). A request may hold the user's lock
(`RequestBegins`), a transaction of a task may fail (`DatabaseError`: `_guarded` drops the user's
task), a process may die at work or while it starts, and come back (`Crash`). A cadence is its
length, with slots at the multiples; the calendar is in `Cadence`. Three histories tell what a
property exempts: `stale` (columns written since a starting process read the clock), `overwritten`
(columns that a backfill wrote over a newer value) and `unlogged` (warnings that died with their
process). The loss of the scheduler lock's connection while its process lives, the fault of finding
1, is not modelled here.

- `SlotServedOnce`: an operation run for a slot and moved past it never runs for it again, unless
  its column is `overwritten`. Without that exception it is `OneRunPerSlot`, which fails (finding 5).
- `OneWorkerPerUser`: no two processes work on a row at once. This is what the unlocked
  read-then-write of `_advance` and `_count` rests on.
- `OneWarningPerStreak`: a streak is warned of once, when it reaches the threshold; only a crash
  between the commit and the log can lose the warning (`unlogged`), and only that streak's.
- `DueIsServed` (liveness): nothing due stays due. Fairness: weak, of each process's start, of its
  ticks and of each task's steps (threads run, and a dead process is restarted), of the end
  of a request (an evaluation ends, see `LockComesFree`) and of the clock. Faults are bounded. It
  says that everybody is reached, not in which order: the clock stops at its bound, after which any
  order of the batch would do.

## Rebalancing

From the account read to the last buy, in integers. Percentages are out of `Hundred`; amounts that
the code divides are kept as numerators, so nothing is rounded that the code does not round.
`RoundDown` and `RoundUp` are `quantize` with the pair's or the fiat's places. A sell may be
refused, lost, executed in part and at another price, with a fee; the ledger rounds each entry
either way (`Entries`, external). A buy placed in fiat spends its amount, part of it, or nothing.
`budget / asked` is a Decimal of 28 digits: where the quotient is inexact, a product that should
be exactly a step may fall one step short (`Shrunk`).

- `CashTargetKept`: whatever happens to the sells, cash never ends below its target, or below
  where it was.
- `MinimumsMetToAStep`: nothing is sold that is not held; a buy is at or above Kraken's minimums and
  the user's floor, also after the buys were shrunk; a sell's volume is at or above `ordermin` once
  rounded, and its worth less than one step of volume under the fiat minimums. It may be under
  `costmin` by that much: `OrderableAfterRounding` fails (see Findings).
- `NoOrderOvershoots`: a buy takes no asset past its target. It also shows that the leftover of
  `allocate_reduce_drift` is always nothing: shortfalls add up to at least the free cash. And a
  sell takes none below its target and leaves less than one step of volume above it, through the
  rounding of the amount, of the volume and of the balance.
- `BudgetIsUsed`: shrinking leaves less than two steps per buy out. It is about what `_within` gives
  out, not about what is spent: a buy shrunk below its minimum is skipped, and its share with it.

Assumed: a buy in fiat costs exactly its amount, and its ledger entry is not rounded (the comment on
`Order.cost`, spec 9.1), so `CashTargetKept` rests on rounding only for the sells; no sell costs
more than it brings. `min_order_fiat` is 0 in the engine; the executor applies the user's floor.

## Cadence

`next_slot` over 2023-2025 in quarters of a day: the guess from the mean month and the two walks
against the definition of the first slot after now, with anchors on the 29th to the 31st and now
before, on and long after a slot. In this range the walk down never decides: the guess is never too high.
`WalkUp` takes the least step after now among the next `Steps`, a number that follows from a month
having 28 days or more: it is not a bound of the model but the reason why the code's loop ends, and
the proofs show that it is enough. The calendar (`Leap`, `monthrange`, `DayNumber`) is external.
A negative length, which the code refuses with an exception, is not among `Cadences`.

## Requests and the database

- `SignIn`: a request reads its token row FOR UPDATE and is two steps while it holds it; any token
  ever handed out may come back. A revocation updates the rows its statement sees when it begins.
  `OneLiveToken`, and `SignInEnds` for expiry and for a logout with the current token.
- `KeyRotation`: `register` reads the row without a lock, seals under the active key and writes
  the columns that changed; the script locks each row. Keys are added with a restart, which ends
  requests in flight, and removed after `--check`. `EveryRecordOpens`, `LastRegistrationStands`.
- `Weights`: the first PATCH may race another; a PUT resolves the pair, then locks the row.
  `TargetsAreConsistent`.
- `Snapshots`: `keep_snapshot` picks a row and sees it afresh once it has its lock.
  `PinnedIsKept`, `PointIsBeforeTheOrders`, `NoDayLost`.
- `History`: `NothingMissedOrRepeated`, and `OnlyALostOneStaysOpen`: the record is closed in the
  `finally` of `_run`, in a transaction that may fail (`FinishFails`); `lost` has the records of
  those, and of the processes that died.

## What threads share

- `KeyLimiter`: a slot and a nonce are taken under the guard, the sleep and the call are not; the
  wall clock may be set back. `CallsTakeTurns`.
- `Catalog`: `get` without a lock. `AnswersAreFresh`: an answer was Kraken's list within the TTL
  and the time of one read. Its clock is the wall clock, here never set back: set back by x, it
  would keep an entry x longer.
- `TickMarket`: `OnePriceATick`.

## Runs

| Run | Config | Instance | Shows |
|---|---|---|---|
| `order_ledger` | `MCOrderLedger.cfg` | 2 evaluators, 3 attempts, plans of 0..2 legs, grace 2, listing bound 1; symmetry | safety and refinement |
| `order_ledger_live` | `OrderLedgerLive.cfg` | 1 evaluator, 2 attempts | liveness |
| `lock_loss` | `OrderLedgerLockLoss.cfg` | 2 evaluators, 2 attempts | finding 1 |
| `proposals` | `MCProposals.cfg` | 2 workers, 3 versions, amounts 0..3 with minimum 1 | safety and liveness |
| `withdrawn_executes` | `ProposalsWithdrawn.cfg` | 1 worker, 2 versions | finding 2 |
| `status_overwritten` | `ProposalsStatus.cfg` | 2 workers, 2 versions | finding 3 |
| `scheduler` | `MCScheduler.cfg` | 1 user, 2 processes, lengths 1 and 2, time to 2, one change and one fault; symmetry | safety |
| `scheduler_live` | `SchedulerLive.cfg` | 2 users, 1 process, a batch and a pool of 1, one request and one fault | liveness |
| `settings_overwritten` | `SchedulerPatch.cfg` | 1 user, 1 process | finding 4 |
| `backfill_overwrites` | `SchedulerBackfill.cfg` | 1 user, 2 processes, length 1 | finding 5 |
| `requests` | `MCRequests.cfg` | 2 requests; 3 tokens, TTL 1; 2 users, 3 key versions; 3 assets, a whole of 3; 3 snapshot rows and an evaluation against a refresh; 3 records, pages of 1 | safety of five modules |
| `evaluation` | `MCEvaluation.cfg` | 3 assets, a whole of 4, steps 2 and 4, fees 0 and 2, prices moving by 1; 7 cadences, 4 anchors; 2 threads, 2 keys | safety of five modules |

Why the bounds are enough: two evaluators give every conflict over the lock; three attempts give
an unknown order, a second leg and the next evaluation's order; two legs give one leg after an
unsettled one; grace 2 with bound 1 separates listed, unlisted and believed absences. One unit of
volume separates traded from not traded, and an order that trades late. Amounts 1, 2, 3 with
minimum 1 make two small moves that add up to a material one; three versions are an offer, the one
that replaces it and the reuse of the slot after that. The ledger's liveness run has one evaluator:
the lock admits one at a time, and the same run with two passes but takes minutes. The proofs
remove the bounds for the safety properties of every module.
For the rest: one user is enough for the scheduler's safety, since rows of different users do not
meet, and two with a batch of one make one wait behind the other; two failures reach the alert;
two slots of time let one be served, moved past and brought back.
Three tokens are a sign-in, its rotation and the successor of that; three key versions let a key
be added before the one before it is gone. Three assets let one sell fund two buys, and steps of 2
and 4 with prices up to 3 make every rounding lose something. Runs that may stop (a clock or a
counter at its bound) do not check deadlock.

## Findings

1. `lock_loss`: the spec says an evaluation holds its lock "for its whole length". The lock lives
   on a connection; if the database drops it, the evaluation goes on (other sessions reconnect)
   while another one starts.
2. `withdrawn_executes`: `approve` reads the slot without a row lock. A withdrawal that commits
   before the write is answered as done, and the orders are sent.
3. `status_overwritten`: `approve` marks the slot EXECUTED after the user's lock is released and
   whatever version is there. A new proposal stored in between is lost.
4. `settings_overwritten`: `_advance` reads the settings without a row lock. A PATCH that commits
   before its write loses the next run it stored: an investment that was switched off keeps one.
5. `backfill_overwrites`: `backfill` selects without a lock and updates by key. Of two processes
   that start at once on a row without a next run, the second may write the slot back that the first
   has run and moved past, and it runs again. (In TLC's shortest trace the first run finds the
   account not ready, which moves on as an evaluation does.)

Smaller disagreements have a configuration to run by hand; each ends in a counterexample:

| Configuration | Module | Property | What happens |
|---|---|---|---|
| `SchedulerPause.cfg` | `MCScheduler` | `MissedWhilePausedIsSkipped` | the window of finding 4 with a pause lifted in it: a next run from before the lift is written, and runs at once (platform-design.md 10.2: "nothing missed while paused runs") |
| `RequestsRevoked.cfg` | `MCRequests` | `RevocationIsFinal` | a logout or a reuse with an older token races a rotation of the current one, whose new row the revoking statement does not see: it stays live until it expires (auth.py:186) |
| `RequestsPinned.cfg` | `MCRequests` | `PinnedShowsThePlan` | a refresh between keep and pin overwrites the row that is then pinned with a later reading (telemetry.py:78); still one from before the orders |
| `RequestsDaily.cfg` | `MCRequests` | `OnePointADay` | two reads of a day that find no row of it each add one (models.py:262) |
| `EvaluationNonces.cfg` | `MCEvaluation` | `NoncesArriveInOrder` | two threads post their nonces in the other order (limits.py:56); Kraken refuses the late one |
| `EvaluationRounded.cfg` | `MCEvaluation` | `OrderableAfterRounding` | a sell planned at costmin is sent with a volume that, rounded down, is worth less, for Kraken to refuse; `is_orderable`, "checking after rounding rather than before" (precision.py:57), is called by tests only |
| `EvaluationEmpty.cfg` | `MCEvaluation` | `EveryOutcomeIsAStatus` | a sell that filled so little that its rounded credit is negative, and no buy to send: `_within` divides by zero |

## Proofs

- `OrderLedgerProofs`: `IInv` is inductive. It is `TypeOK` with: only the lock's holder is under
  way (`LockInv`); what each row's status says of its order (`RowInv`); what the step before left
  for the row at hand (`HandInv`); that a lookup still holds when written (`LookupInv`: an absence
  counts only for a mature row, and a mature row's order is listed, over or never was, which is
  where `GraceCoversListing` is used); `resolve_pending` forgets no row (`ResolveInv`); what is
  PENDING or unknown while sending (`SendInv`, `LegsInv`). The safety properties
  follow: none is inductive alone, since a row is written from a lookup made steps earlier.
  The last theorem, `Refinement`: every step under `IInv` is a step of `OrderPromise` or leaves it
  alone.
- `ProposalsProofs`: `IInv` says that what a transaction read is stale in its status alone
  (`ReadInv`), because versions and plans are written under the lock, and that a live
  version was never let through and holds the plan first offered (`SlotInv`).
- `SchedulerProofs`: only the holder of the scheduler's lock has tasks (`LockInv`), which is
  `OneWorkerPerUser`; what a task has in hand at each step (`TaskInv`); the slots it still has to
  run are not after its tick's `now` (`DueInv`); a served slot is behind the clock, the next run and
  what tasks still have to run (`ServedInv`); between the read and the write of `_advance` a next run
  moves, if a PATCH moves it, to after the tick (`MoveInv`), so a stale write brings back no served
  slot; what a starting process computed is after the clock it read, and for a column that nobody
  wrote since the next run is still missing and nothing later was served (`FillInv`). `ServedInv` and
  `MoveInv` are of the columns that are not `overwritten` (`Intact`): a backfill of a column that
  nobody touched brings nothing back, however long it takes.
  And the streak that `_count` read is the row's until it is logged (`StreakInv`).
- `AccessProofs`: for `SignIn`, rows are of families that have begun and end with them (`RowInv`),
  one of a family is live (`UniqueLive`), nobody else has a row that a transaction locked
  (`HoldInv`), and what it found out about it still holds when it writes (`FoundInv`). For
  `KeyRotation`, the active key is one of the keys and the check stands for every record
  (`CipherInv`); a registration was sealed under the key that is still active, and leaves
  `key_version` alone only where that is right (`RequestInv`); the row that the script locked is
  the row that it read (`ScriptInv`).
- `RecordsProofs`: for `History`, no row that the client was given comes after its cursor and all
  that it is still owed do (`CursorInv`); retention takes the oldest first, so a cursor that is gone
  has nothing after it. For `Snapshots`, what a writer at work holds (`WorkingInv`) and that the
  points of the orders are pinned (`OrdersInv`). For `Weights`, that under the row lock the new
  weight fits beside the others of now (`PuttingInv`, `LockInv`), so the sum stays (`SumInv`), and
  that every pair is of the user's fiat (`PairInv`). `TablesTypes` is the type invariant of all
  five.
- `EvaluationProofs`: `TickMarket` (`GuardInv`: one reader in the guard; `GotInv`: what was given is
  what the tick holds), `Catalog` (`ReadingInv`, `CopyInv`: a copy's time is that of the end of its
  read, so its list may have been replaced one `Timeout` before), `KeyLimiter` (`CallInv`,
  `SlotInv`, `NonceInv`: slots are apart and nonces ascend although the clock may go back), and
  `Cadence`. Of the calendar: the first day of a month is the length of the month after that of the
  one before (`MonthsFollow`, leap years and the turn of the year included), so `n` months later is
  at least `28 n` days later (`MonthsLater`), steps are in order and each is a shortest step or more
  after the one before (`StepsInOrder`, `StepsPass`), every instant is passed after `Steps` of them
  (`StepsReach`), and from any guess the walks end at the first step after now (`WalksDown`,
  `WalksUp`, `AnchoredIsFirst`). `CalendarInv` says that the slot is what `next_slot` gives for the
  instant it was asked at; `SlotComesFirst` follows, and `NoStepIsSkipped` says it of all the steps
  there are. `InputsAreTyped` takes the types of the five parts together.
- `RebalancingProofs`: the money, in exact integers. Drifts add up to the cash above its target
  (`ShortfallsCover`), so the leftover of `allocate_reduce_drift` is nothing and no purchase exceeds
  its shortfall (`Allotted`); a leg that will be sent is above its minimums, and a sale above
  `ordermin` stays so when its volume is rounded, and ends less than a step of volume above its
  target (`SoldVolume`, `PlannedLeg`; `OrdersDoNotOvershoot`), and with one step of volume more it would be
  worth more than the amount that was compared (`SentOrdersMeetMinimums`). The invariant
  `SizingInv` then follows the steps: the sells are held, one leg to an asset (`HeldInv`); the cash
  less the budget is at or above the floor while the sells are sent, because `credited` is never
  more than the ledger adds (`Credited`), and the cash less what the buys ask for is while they
  are, because shrinking asks for the budget or less (`ShrunkBuys`), the cut-off factor included.
  `BudgetIsSpent` is the same sum from below (`ShrunkBuysUse`).
- `Sums`: `SumFunctionOnSet` over finite sets, from its definition: it exists, takes any member
  out, is monotone and linear, and can be re-indexed. The library's induction over finite sets
  takes an operator and cannot be cited; `SubsetInduction` takes a set of subsets instead, and is
  the least-number principle on the size of a least counterexample. `NumberInduction` is the same
  for numbers, and carries the calendar's steps.

Assumptions: `ConstantsOK`, `GraceCoversListing`, `ProposalConstants`, `SchedulerConstants`,
`TablesConstants`, `InputsConstants`. Besides the kinds of the parameters they say: assets are
finitely many; an account's targets add up to 100 or less (`Weights` proves it:
`TargetsStayConsistent`); fees are not negative; `ordermin` is a multiple of the volume step and a
fiat step one of the cost step, as Kraken's pairs have them; an anchor's date exists, in the year
of instant 0 or later, and a cadence has a length. Times, retries, tokens and rows keep
their bounds in the guards, of any size; requests, users and processes may be infinitely many.

Every invariant and every action property of a passing run is a theorem; `KeepsPromise` is one too.
Only model-checked: the liveness properties (`EveryAttemptResolved`, `LockComesFree`,
`ExecutionIsRecorded`, `DueIsServed`), since fairness is outside the prover's reach, and the
violations, which are behaviours of an instance.

## Not modelled

The web client, deployment, migrations, Google sign-in, configuration, logs and schemas hold no
protocol state or belong to outside services. Of modelled components: previews (nothing is sent),
`validate_key`'s questions to Kraken, names of assets and pairs (`core/markets.py`), parsing and
formatting of amounts, access tokens (signed, without state), `onboarded_at`. `_still_scheduled`
reads the switches again under the lock; in `OrderLedger` it is the free choice of `TurnDown`.
A commit whose outcome the client never learns is modelled as either of its outcomes followed by a
crash; with a process that lives on, it is the failure that stands for it.
