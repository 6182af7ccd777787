----------------------------- MODULE Rebalancing -----------------------------
(***************************************************************************)
(* The money of one evaluation: engine/ (valuation, drift, allocation,     *)
(* reconcile), exchange/precision.py, core/portfolio.py, and _plan,        *)
(* _free_cash, _within and _send_all of core/execution.py.                 *)
(*                                                                         *)
(* Amounts are exact.  Money is counted in a unit finer than any of the    *)
(* precisions: a pair's costs are multiples of CostStep, Kraken's ledger   *)
(* keeps multiples of FiatStep, and an order's volume is a multiple of     *)
(* VolumeStep although a balance need not be.  Percentages are parts of    *)
(* Hundred; a quotient is kept as its numerator over a common denominator. *)
(***************************************************************************)
EXTENDS Integers, FiniteSetsExt, Functions

CONSTANTS
  NAssets,                         \* assets are 1..NAssets, in the order of their codes
  Hundred,                         \* the whole, in percent
  CostStep, FiatStep, VolumeStep,  \* cost_decimals, the fiat's places, volume_decimals
  OrderMin, CostMin,               \* a pair's ordermin and costmin
  None,                            \* no price
  Accounts,                        \* the accounts and settings that are tried
  Moves,                           \* by how much a price may move until a sell fills
  Fees                             \* fees that Kraken may report for a sell

Assets == 1..NAssets
Balance == [spot : Nat, rewards : Nat, bonded : Nat]
Account ==
  [cash : Nat, balances : [Assets -> Balance], prices : [Assets -> Nat \cup {None}],
   targets : [Assets -> 0..Hundred], tradable : SUBSET Assets, floor : Nat,
   policy : {"prorata", "reduce_drift", "rebalance"}, minDrift : 0..Hundred]

RebalancingConstants ==
  /\ {NAssets, Hundred, CostStep, FiatStep, VolumeStep, OrderMin, CostMin} \subseteq Nat \ {0}
  /\ FiatStep % CostStep = 0 /\ OrderMin % VolumeStep = 0
  /\ Accounts \subseteq Account /\ Moves \subseteq Int /\ Fees \subseteq Nat
  /\ \A a \in Accounts :
       /\ a.cash % FiatStep = 0
       /\ SumFunctionOnSet(a.targets, Assets) <= Hundred

VARIABLES
  account,  \* what _load and read_portfolio gave
  pc,
  sells,    \* planned sells not handled yet
  buys,     \* planned buys not handled yet
  budget,   \* _send_all: budget, times Hundred
  stopped,  \* _send_all: an answer was lost
  sent,     \* history: legs of which an order was sent
  cash,     \* Kraken's fiat balance
  held      \* Kraken's balance of each asset that can be sold

vars == <<account, pc, sells, buys, budget, stopped, sent, cash, held>>

Leg == [asset : Assets, side : {"buy", "sell"}, amount : Int, minimum : Nat,
        note : BOOLEAN, volume : Nat]

TypeOK ==
  /\ account \in Account
  /\ pc \in {"read", "sells", "buys", "done", "error"}
  /\ \A l \in sells \cup buys \cup sent : l \in Leg
  /\ \A l \in sells : l.side = "sell"
  /\ \A l \in buys : l.side = "buy"
  /\ budget \in Int /\ stopped \in BOOLEAN
  /\ cash \in Int /\ held \in [Assets -> Int]

Sum(f(_), S) == SumFunctionOnSet([x \in S |-> f(x)], S)
Abs(n) == IF n < 0 THEN -n ELSE n
AtLeastZero(n) == IF n > 0 THEN n ELSE 0

\* build_view: Kraken Rewards are sold through their asset; nothing else that
\* carries a suffix is.
tradable_amount(b) == b.spot + b.rewards

Init ==
  /\ account \in Accounts
  /\ pc = "read" /\ sells = {} /\ buys = {} /\ budget = 0 /\ stopped = FALSE /\ sent = {}
  /\ cash = account.cash
  /\ held = [a \in Assets |-> account.balances[a].spot + account.balances[a].rewards]
-----------------------------------------------------------------------------
(* Valuation and drift. *)

amount_of(a) == tradable_amount(account.balances[a])
asset_value(a) == amount_of(a) * account.prices[a]
managed_value == Sum(asset_value, Assets) + account.cash
total_pct == Sum(LAMBDA a : account.targets[a], Assets)
cash_target_pct == Hundred - total_pct

\* Times Hundred: fiat to add, or to remove.
delta(a) == managed_value * account.targets[a] - Hundred * asset_value(a)

\* The weight is min_drift_pct or more away from the target.
DriftsFar(a) == Abs(delta(a)) >= account.minDrift * managed_value

\* Times Hundred, and _free_cash too.
investable_cash == AtLeastZero(Hundred * account.cash - managed_value * cash_target_pct)
-----------------------------------------------------------------------------
(* Allocation.  An amount is over Scale. *)

Scale == Hundred * Max({1, total_pct})

allocate_prorata(amount, a) == IF total_pct = 0 THEN 0 ELSE amount * account.targets[a]

shortfall(a) == AtLeastZero(delta(a))
Before(a, b) ==
  shortfall(a) > shortfall(b) \/ (shortfall(a) = shortfall(b) /\ a < b)

\* The biggest shortfall first, as far as the money goes.
taken(a) ==
  LET before == Sum(shortfall, {b \in Assets : Before(b, a)})
  IN  Min({shortfall(a), AtLeastZero(investable_cash - before)})

\* Mutant of allocate_reduce_drift: the targets alone decide.
AllocateByTarget(a) == allocate_prorata(investable_cash, a)

allocate_reduce_drift(a) ==
  taken(a) * Max({1, total_pct})
    + allocate_prorata(AtLeastZero(investable_cash - Sum(shortfall, Assets)), a)

\* reconcile: what to buy (positive) or sell of each asset.
amount_fiat(a) ==
  CASE account.policy = "prorata"      -> allocate_prorata(investable_cash, a)
    [] account.policy = "reduce_drift" -> allocate_reduce_drift(a)
    [] account.policy = "rebalance"    ->
         IF DriftsFar(a) THEN delta(a) * Max({1, total_pct}) ELSE 0
-----------------------------------------------------------------------------
(* Precision. *)

\* Toward zero, to a multiple of the step; n / d is the amount.
RoundDown(n, d, step) ==
  IF n >= 0 THEN (n \div (d * step)) * step ELSE -(((-n) \div (d * step)) * step)
RoundUp(n, step) == ((n + step - 1) \div step) * step

round_cost(n, d) == RoundDown(n, d, CostStep)

round_volume(volume) == RoundDown(volume, 1, VolumeStep)

\* Mutant of volume_from_fiat: half up, as a price is rounded.
VolumeHalfUp(n, d, price) == RoundDown(2 * n + d * price * VolumeStep, 2 * d * price, VolumeStep)

volume_from_fiat(n, d, price) == RoundDown(n, d * price, VolumeStep)

minimum_fiat(price) == Max({CostMin, OrderMin * price})

\* Mutant of credited: as the order reports it.
CreditedAsReported(cost, fee) == cost - fee

credited(cost, fee) == RoundDown(cost, 1, FiatStep) - RoundUp(fee, FiatStep)
-----------------------------------------------------------------------------
(* _plan. *)

\* Of a sell: everything on an exit, and never more than there is.
Sold(a) ==
  LET whole == round_volume(amount_of(a))
  IN  IF account.targets[a] = 0 THEN whole
      ELSE Min({volume_from_fiat(-amount_fiat(a), Scale, account.prices[a]), whole})

PlannedLeg(a) ==
  LET side    == IF amount_fiat(a) > 0 THEN "buy" ELSE "sell"
      trades  == a \in account.tradable
      amount  == round_cost(Abs(amount_fiat(a)), Scale)
      minimum == Max({minimum_fiat(account.prices[a]), account.floor})
  IN  [asset |-> a, side |-> side, amount |-> amount,
       minimum |-> IF trades THEN minimum ELSE 0,
       note |-> ~trades \/ amount < minimum,
       volume |-> IF side = "sell" /\ trades THEN Sold(a) ELSE 0]

\* Kraken did not answer, or prices no such pair any more, or the decision is
\* that nothing be sent.
Ends ==
  /\ pc = "read"
  /\ pc' = "done"
  /\ UNCHANGED <<account, sells, buys, budget, stopped, sent, cash, held>>

_plan ==
  /\ pc = "read"
  /\ \A a \in Assets : account.prices[a] # None
  /\ LET legs == {PlannedLeg(a) : a \in {b \in Assets : amount_fiat(b) # 0}}
     IN  /\ sells' = {l \in legs : l.side = "sell"}
         /\ buys' = {l \in legs : l.side = "buy"}
  /\ budget' = investable_cash
  /\ pc' = "sells"
  /\ UNCHANGED <<account, stopped, sent, cash, held>>
-----------------------------------------------------------------------------
(* _send_all. *)

First(legs) == CHOOSE l \in legs : \A k \in legs : l.asset <= k.asset

\* A sell that has a note, or comes after a lost answer, is skipped.
SkipSell ==
  /\ pc = "sells" /\ sells # {}
  /\ First(sells).note \/ stopped
  /\ sells' = sells \ {First(sells)}
  /\ UNCHANGED <<account, pc, buys, budget, stopped, sent, cash, held>>

SendSell ==
  /\ pc = "sells" /\ sells # {}
  /\ ~First(sells).note /\ ~stopped
  /\ sells' = sells \ {First(sells)}
  /\ sent' = sent \cup {First(sells)}

\* Kraken has no such order: refused, or lost on its way, or still open.
SellNotExecuted ==
  /\ SendSell
  /\ stopped' \in BOOLEAN
  /\ UNCHANGED <<account, pc, buys, budget, cash, held>>

\* Kraken's ledger rounds each entry to the fiat's places, one way or the other;
\* no sell costs more than it brings.
Entries(n) == {RoundDown(n, 1, FiatStep), RoundUp(n, FiatStep)}

\* It executed, all of it or a part; the fill is known, or not (yet).  Only a
\* known fill is counted.
SellExecuted ==
  /\ SendSell
  /\ \E volume \in {First(sells).volume, VolumeStep}, move \in Moves, fee \in Fees :
       LET a    == First(sells).asset
           cost == round_cost(volume * (account.prices[a] + move), 1)
       IN  /\ volume <= First(sells).volume /\ fee <= cost
           /\ held' = [held EXCEPT ![a] = @ - volume]
           /\ \E gain \in Entries(cost), charge \in Entries(fee) :
                gain >= charge /\ cash' = cash + gain - charge
           /\ \/ budget' = budget + Hundred * credited(cost, fee) /\ UNCHANGED stopped
              \/ budget' = budget /\ stopped' \in BOOLEAN
  /\ UNCHANGED <<account, pc, buys>>

Sendable(legs) == {l \in legs : ~l.note}

\* Mutant of asked: the buys that will be skipped are counted too.
AskedByAll == Sum(LAMBDA l : l.amount, buys)

asked == Sum(LAMBDA l : l.amount, Sendable(buys))

\* The quotient budget / asked has more digits than a Decimal keeps.
FactorIsInexact == (budget * 1000000) % (Hundred * asked) # 0

\* round_cost(amount x factor): a factor that was cut short may leave the product
\* just under the step that it should have reached.
Shrunk(l) ==
  LET exact == round_cost(l.amount * budget, Hundred * asked)
  IN  {exact} \cup
      (IF FactorIsInexact /\ exact * Hundred * asked = l.amount * budget
       THEN {exact - CostStep} ELSE {})

\* Mutant of Fitted: what was sendable stays so.
FittedAnyway(l, amount) == [l EXCEPT !.amount = amount]

\* Mutant of Fitted: a leg that is too small now loses its minimum.
FittedUnset(l, amount) ==
  [l EXCEPT !.amount = amount, !.minimum = IF amount < @ THEN None ELSE @]

Fitted(l, amount) == [l EXCEPT !.amount = amount, !.note = amount < l.minimum]

_within ==
  /\ pc = "sells" /\ sells = {}
  /\ \/ /\ Hundred * asked <= budget
        /\ pc' = "buys" /\ UNCHANGED buys
     \/ /\ Hundred * asked > budget /\ asked > 0
        /\ \E fit \in [Sendable(buys) -> UNION {Shrunk(l) : l \in Sendable(buys)}] :
             /\ \A l \in Sendable(buys) : fit[l] \in Shrunk(l)
             /\ buys' = (buys \ Sendable(buys)) \cup {Fitted(l, fit[l]) : l \in Sendable(buys)}
        /\ pc' = "buys"
     \/ /\ Hundred * asked > budget /\ asked = 0
        /\ pc' = "error" /\ UNCHANGED buys
  /\ UNCHANGED <<account, sells, budget, stopped, sent, cash, held>>

SkipBuy ==
  /\ pc = "buys" /\ buys # {}
  /\ First(buys).note \/ stopped
  /\ buys' = buys \ {First(buys)}
  /\ UNCHANGED <<account, pc, sells, budget, stopped, sent, cash, held>>

\* A buy spends its amount, or a part of it, or nothing; the answer may be lost.
SendBuy ==
  /\ pc = "buys" /\ buys # {}
  /\ ~First(buys).note /\ ~stopped
  /\ buys' = buys \ {First(buys)}
  /\ sent' = sent \cup {First(buys)}
  /\ cash' \in {cash, cash - First(buys).amount}
  /\ stopped' \in BOOLEAN
  /\ UNCHANGED <<account, pc, sells, budget, held>>

Done ==
  /\ pc = "buys" /\ buys = {}
  /\ pc' = "done"
  /\ UNCHANGED <<account, sells, buys, budget, stopped, sent, cash, held>>

Next ==
  \/ Ends \/ _plan \/ SkipSell \/ SellNotExecuted \/ SellExecuted
  \/ _within \/ SkipBuy \/ SendBuy \/ Done

Spec == Init /\ [][Next]_vars
-----------------------------------------------------------------------------
\* The buys live on the cash above the target and on what the sells really
\* brought: whatever Kraken refuses, loses, fills in part, at another price, and
\* however its ledger rounds, the cash never falls below its target, or below
\* where it was if that was less.  (credited: "so the budget is never more than
\* the balance, whichever way Kraken rounds".)
CashTargetKept ==
  (\A a \in Assets : account.prices[a] # None)
    => Hundred * cash >= Min({Hundred * account.cash, managed_value * cash_target_pct})

\* The least that an order of a is worth: the larger of Kraken's minimum and the
\* user's floor (spec 7.3).
Least(a) == Max({CostMin, OrderMin * account.prices[a], account.floor})

\* What is sent meets its minimums, a sell's fiat minimum to within a step.  No sell
\* asks for coins that the user does not hold (round_volume), bonded ones and the
\* last digits of a balance included.  A buy, which is sent as an amount, is at or
\* above the least, also after the buys were shrunk.  Of a sell it is the amount
\* that was compared, and a volume that is sent: rounded down, on an exit too, its
\* volume is not below ordermin, but its worth at the price of the plan may be
\* below the least, by less than one step of volume (OrderableAfterRounding).
MinimumsMetToAStep ==
  /\ \A a \in Assets : held[a] >= 0
  /\ \A l \in sent :
       /\ l.side = "buy" => l.amount >= Least(l.asset)
       /\ l.side = "sell" =>
            /\ l.volume >= OrderMin
            /\ (l.volume + VolumeStep) * account.prices[l.asset] > Least(l.asset)

\* No order takes an asset past its target.  Of the buys: where the portfolio is
\* furthest behind, and in a rebalance, the shortfalls are never less than the free
\* cash, so nothing is left over to split.  Of the sells, which also leave less than
\* one step of volume above the target: the amount is turned into a volume and
\* rounded (volume_from_fiat), an exit sells the whole balance instead, the smaller
\* of the two is sent, and the minimums are compared with the amount before all of
\* that (PlannedLeg).
NoOrderOvershoots ==
  \A l \in sent :
    /\ l.side = "buy" /\ account.policy # "prorata" => Hundred * l.amount <= delta(l.asset)
    /\ l.side = "sell" =>
         /\ Hundred * (l.volume * account.prices[l.asset]) <= -delta(l.asset)
         /\ -delta(l.asset) < Hundred * ((l.volume + VolumeStep) * account.prices[l.asset])

\* The spec's "every one shrinks by the same factor" leaves less than two steps
\* of each buy unspent: the buys that were too small to begin with take no share.
BudgetIsUsed ==
  pc = "sells" /\ pc' = "buys" /\ buys' # buys /\ budget >= 0 =>
    Hundred * (Sum(LAMBDA l : l.amount, {l \in buys' : ~l.note \/ l \notin buys})
               + 2 * CostStep * Cardinality(buys')) > budget

\* is_orderable ("whether Kraken will accept an order of this size on this pair"):
\* both minimums are the pair's own, and checked "after rounding rather than before".
\* It is never called, and what _plan compares is the amount before the rounding.
OrderableAfterRounding ==
  \A l \in sent : l.side = "sell" => l.volume * account.prices[l.asset] >= CostMin

\* evaluate: "Every other outcome is a status in the result": no plan, and no
\* answer of Kraken, makes the evaluation fail between its sells and its buys.
EveryOutcomeIsAStatus == pc # "error"
=============================================================================
