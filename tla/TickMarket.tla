------------------------------ MODULE TickMarket ------------------------------
(***************************************************************************)
(* One tick's prices, shared by the evaluations of the tick: TickMarket of *)
(* core/public_market.py, preloaded by the scheduler (Scheduler.tick).     *)
(***************************************************************************)
EXTENDS Naturals

CONSTANTS
  Evaluations,  \* threads of the pool
  Pairs,
  None,
  MaxPrice      \* bound: changes of a price

TickMarketConstants == MaxPrice \in Nat /\ None \notin Evaluations \cup Nat

VARIABLES
  price,    \* Kraken's price of each pair
  prices,   \* _prices: what the tick has read of each pair, or None
  guard,    \* holder of the guard, or None
  asks,     \* the pairs that each evaluation asks for at the moment
  missing,  \* the pairs of which it asks Kraken
  got       \* history: the prices each evaluation was given in this tick

vars == <<price, prices, guard, asks, missing, got>>

Prices == 0..MaxPrice
Nothing == [p \in Pairs |-> None]

TypeOK ==
  /\ price \in [Pairs -> Prices]
  /\ prices \in [Pairs -> Prices \cup {None}]
  /\ guard \in Evaluations \cup {None}
  /\ asks \in [Evaluations -> SUBSET Pairs]
  /\ missing \in [Evaluations -> SUBSET Pairs]
  /\ got \in [Evaluations -> [Pairs -> SUBSET Prices]]

\* A tick begins: the batch's pairs are preloaded; the call may fail, or leave
\* out pairs that Kraken does not price.
preload ==
  \E read \in SUBSET Pairs : prices = [p \in Pairs |-> IF p \in read THEN price[p] ELSE None]

Init ==
  /\ price \in [Pairs -> {0}]
  /\ preload
  /\ guard = None
  /\ asks = [e \in Evaluations |-> {}] /\ missing = [e \in Evaluations |-> {}]
  /\ got = [e \in Evaluations |-> [p \in Pairs |-> {}]]
-----------------------------------------------------------------------------
\* Mutant of Enters: the guard is not held across the call to Kraken.
EntersAnyway(e) == TRUE

Enters(e) == guard = None

\* What an evaluation is given of the pairs it asked for.
Given(e, pairs, have) ==
  [got EXCEPT ![e] = [p \in Pairs |->
     IF p \in pairs /\ have[p] # None THEN @[p] \cup {have[p]} ELSE @[p]]]

\* ticker, under the guard: what the tick has not read yet is asked of Kraken.
ticker(e) ==
  /\ asks[e] = {} /\ Enters(e)
  /\ \E pairs \in SUBSET Pairs \ {{}} :
       LET lacking == {p \in pairs : prices[p] = None}
       IN  IF lacking = {}
           THEN got' = Given(e, pairs, prices) /\ UNCHANGED <<guard, asks, missing>>
           ELSE /\ guard' = e
                /\ asks' = [asks EXCEPT ![e] = pairs]
                /\ missing' = [missing EXCEPT ![e] = lacking]
                /\ UNCHANGED got
  /\ UNCHANGED <<price, prices>>

Leaves(e) ==
  /\ guard' = IF guard = e THEN None ELSE guard
  /\ asks' = [asks EXCEPT ![e] = {}] /\ missing' = [missing EXCEPT ![e] = {}]

\* Kraken answers, perhaps without some pair.
Fetched(e) ==
  /\ asks[e] # {}
  /\ \E read \in SUBSET missing[e] :
       LET have == [p \in Pairs |-> IF p \in read THEN price[p] ELSE prices[p]]
       IN  prices' = have /\ got' = Given(e, asks[e], have)
  /\ Leaves(e)
  /\ UNCHANGED price

\* Kraken does not answer: nothing is kept, and this evaluation has no prices.
FetchFails(e) ==
  /\ asks[e] # {}
  /\ Leaves(e)
  /\ UNCHANGED <<price, prices, got>>

\* Prices move all the time.
Move(p) ==
  /\ price[p] < MaxPrice
  /\ price' = [price EXCEPT ![p] = @ + 1]
  /\ UNCHANGED <<prices, guard, asks, missing, got>>

Next ==
  \/ \E e \in Evaluations : ticker(e) \/ Fetched(e) \/ FetchFails(e)
  \/ \E p \in Pairs : Move(p)

Spec == Init /\ [][Next]_vars
-----------------------------------------------------------------------------
\* TickMarket: "read once and shared by every evaluation in it": within a tick
\* no two answers, to one evaluation or to two, price a pair differently, though
\* the price moves, calls fail, and Kraken leaves pairs out.
OnePriceATick ==
  \A e, f \in Evaluations, p \in Pairs :
    \A x \in got[e][p], y \in got[f][p] : x = y
=============================================================================
