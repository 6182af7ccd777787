---------------------------- MODULE MCEvaluation ----------------------------
(* Sizing: accounts of three assets, so that a sell can fund two buys;         *)
(* balances finer than a volume step, some of it bonded; prices that leave     *)
(* remainders; every split of a whole of four parts; each policy, with and     *)
(* without a drift threshold, a floor and a pair that is not traded.           *)
(* Cadence: three years around a leap day, with anchors on days that some      *)
(* months lack, on 29 February, and in the evening.                            *)
EXTENDS Inputs, TLC

CONSTANTS t1, t2, b1, b2

MCNone  == [spot |-> 0, rewards |-> 0, bonded |-> 0]
MCSome  == [spot |-> 3, rewards |-> 0, bonded |-> 1]
MCLarge == [spot |-> 6, rewards |-> 3, bonded |-> 0]
MCBalances == {MCNone, MCSome, MCLarge} \X {MCNone, MCSome} \X {MCNone, MCSome}
MCPrices == {<<1, 1, 1>>, <<3, 1, 1>>, <<1, 3, 1>>}
MCUnpriced == [a \in 1..3 |-> None]

MCAccounts ==
  {[cash |-> c, balances |-> b, prices |-> p, targets |-> t, tradable |-> m[1],
    floor |-> m[2], policy |-> q[1], minDrift |-> q[2]] :
     c \in {0, 8}, b \in MCBalances, p \in MCPrices,
     t \in {g \in [1..3 -> 0..4] : g[1] + g[2] + g[3] <= 4},
     m \in {<<1..3, 0>>, <<1..2, 6>>},
     q \in {<<"prorata", 0>>, <<"reduce_drift", 0>>, <<"rebalance", 0>>, <<"rebalance", 1>>}}
  \cup
  {[cash |-> 4, balances |-> b, prices |-> MCUnpriced, targets |-> <<1, 1, 1>>,
    tradable |-> 1..3, floor |-> 0, policy |-> "prorata", minDrift |-> 0] : b \in MCBalances}

MCCadences == {<<1, 0>>, <<2, 0>>, <<3, 0>>, <<12, 0>>, <<0, 10>>, <<0, 14>>, <<1, 1>>}
MCDates == {<<2023, 1, 31>>, <<2023, 8, 30>>, <<2024, 2, 29>>, <<2023, 12, 15>>}
MCStarts == {0, 420, 1460, 1520, 2700}

\* A part that does not run stays in one initial state.
AnAccount == CHOOSE a \in MCAccounts : a.prices = MCUnpriced
MCInit ==
  /\ part \in {"sizing", "calendar", "limiter", "lists", "market"}
  /\ part # "sizing" => account = AnAccount
  /\ part # "calendar" =>
       /\ cadence = [mode |-> "MIN", months |-> 0, days |-> 0, length |-> 1]
       /\ date = <<2023, 1, 31>> /\ time = 0 /\ offset = 0 /\ asked = 0
  /\ part # "market" => prices = [p \in Pairs |-> None]
  /\ Init

MCSpec == MCInit /\ [][Next]_vars

MCMoves == {-1, 0, 1}
MCSymmetry == Permutations({t1, t2}) \cup Permutations({b1, b2})
=============================================================================
