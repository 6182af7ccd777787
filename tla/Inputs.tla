------------------------------- MODULE Inputs -------------------------------
(***************************************************************************)
(* What an evaluation computes and reads, besides its orders: the money of *)
(* its plan, when it is next due, its turns at Kraken, and the lists and   *)
(* prices it shares with others.  The five share no state, so a behaviour  *)
(* picks one of them (part) and runs it alone.                             *)
(***************************************************************************)
EXTENDS Integers

CONSTANTS
  None,
  NAssets, Hundred, CostStep, FiatStep, VolumeStep, OrderMin, CostMin, Accounts, Moves, Fees,
  Year, Day, Window, Cadences, Intervals, Dates, Times, Starts, Delays, CadenceTime,
  Threads, Buckets, MinInterval, LimiterTime, MaxCalls,
  TTL, Timeout, MaxTime, MaxVersion,
  Evaluations, Pairs, MaxPrice

VARIABLES
  part, now,
  account, pc, sells, buys, budget, stopped, sent, cash, held,
  cadence, date, time, offset, asked, due,
  clock, last_call, last_nonce, call, slots, nonces, arrived,
  kraken, until, copy, thread, tooOld,
  price, prices, guard, asks, missing, got

Sizing == INSTANCE Rebalancing
Calendar == INSTANCE Cadence WITH MaxTime <- CadenceTime, now <- asked, slot <- due
Limiter == INSTANCE KeyLimiter WITH MaxTime <- LimiterTime
Lists == INSTANCE Catalog
Prices == INSTANCE TickMarket

ASSUME InputsConstants ==
  /\ Sizing!RebalancingConstants /\ Calendar!CadenceConstants /\ Limiter!KeyLimiterConstants
  /\ Lists!CatalogConstants /\ Prices!TickMarketConstants

sizing   == <<account, pc, sells, buys, budget, stopped, sent, cash, held>>
calendar == <<cadence, date, time, offset, asked, due>>
limiter  == <<clock, last_call, last_nonce, call, slots, nonces, arrived>>
lists    == <<kraken, until, copy, thread, tooOld>>
market   == <<price, prices, guard, asks, missing, got>>
vars == <<part, now, sizing, calendar, limiter, lists, market>>

Init ==
  /\ part \in {"sizing", "calendar", "limiter", "lists", "market"}
  /\ Sizing!Init /\ Calendar!Init /\ Limiter!Init /\ Lists!Init /\ Prices!Init

Next ==
  /\ UNCHANGED part
  /\ \/ part = "sizing" /\ Sizing!Next /\ UNCHANGED <<now, calendar, limiter, lists, market>>
     \/ part = "calendar" /\ Calendar!Next /\ UNCHANGED <<now, sizing, limiter, lists, market>>
     \/ part = "limiter" /\ Limiter!Next /\ UNCHANGED <<sizing, calendar, lists, market>>
     \/ part = "lists" /\ Lists!Next /\ UNCHANGED <<sizing, calendar, limiter, market>>
     \/ part = "market" /\ Prices!Next /\ UNCHANGED <<now, sizing, calendar, limiter, lists>>

Spec == Init /\ [][Next]_vars
-----------------------------------------------------------------------------
\* The types of the five modules: a leg, a slot or a copy is always complete.
TypeOK ==
  CASE part = "sizing"   -> Sizing!TypeOK
    [] part = "calendar" -> Calendar!TypeOK
    [] part = "limiter"  -> Limiter!TypeOK
    [] part = "lists"    -> Lists!TypeOK
    [] part = "market"   -> Prices!TypeOK

\* credited, _within: the buys leave the cash target, whatever Kraken does.
CashTargetKept == part = "sizing" => Sizing!CashTargetKept

\* _plan, _within: what is sent is held and meets its minimums, a sell to within a step.
MinimumsMetToAStep == part = "sizing" => Sizing!MinimumsMetToAStep

\* reconcile, volume_from_fiat: no order takes an asset past its target, and a sell
\* leaves less than one step of volume above it.
NoOrderOvershoots == part = "sizing" => Sizing!NoOrderOvershoots

\* _within: shrunk buys use the budget up.
BudgetIsUsed == [][part = "sizing" => Sizing!BudgetIsUsed]_vars

\* is_orderable: a sell meets costmin after its volume was rounded.
OrderableAfterRounding == part = "sizing" => Sizing!OrderableAfterRounding

\* evaluate: no evaluation fails between its sells and its buys.
EveryOutcomeIsAStatus == part = "sizing" => Sizing!EveryOutcomeIsAStatus

\* next_slot: the first slot after now, on the anchor's day.
FirstSlotAfterNow == part = "calendar" => Calendar!FirstSlotAfterNow

\* wait_turn, next_nonce: a bucket's calls take turns.
CallsTakeTurns == part = "limiter" => Limiter!CallsTakeTurns

\* next_nonce: nonces reach Kraken in their order.
NoncesArriveInOrder == part = "limiter" => Limiter!NoncesArriveInOrder

\* _Kept: no answer is older than a day and a read.
AnswersAreFresh == part = "lists" => Lists!AnswersAreFresh

\* TickMarket: one price of a pair in a tick.
OnePriceATick == part = "market" => Prices!OnePriceATick
=============================================================================
