---------------------------- MODULE OrderPromise -----------------------------
(***************************************************************************)
(* What the executor and the ledger promise about every attempt, with no   *)
(* evaluator, lock, lookup or clock in sight: an attempt is written down   *)
(* before it can trade, no attempt is added beside one whose name is       *)
(* unknown, and it is booked once, after the market is done with it, with  *)
(* exactly what it traded.  OrderLedger implements it.                     *)
(***************************************************************************)
EXTENDS Naturals

CONSTANTS Attempts, Volume

VARIABLES
  ledger,  \* "NONE", "PENDING", "FILLED" or "FAILED"
  named,   \* Kraken's name for the order is written down
  booked,  \* volume written down
  market,  \* "none", "live" while the attempt may trade, "over"
  traded   \* volume traded

promiseVars == <<ledger, named, booked, market, traded>>

Init ==
  /\ ledger = [a \in Attempts |-> "NONE"]
  /\ named = [a \in Attempts |-> FALSE]
  /\ booked = [a \in Attempts |-> 0]
  /\ market = [a \in Attempts |-> "none"]
  /\ traded = [a \in Attempts |-> 0]

Unknown(a) == ledger[a] = "PENDING" /\ ~named[a]

Record(a) ==
  /\ ledger[a] = "NONE"
  /\ \A b \in Attempts : ~Unknown(b)
  /\ ledger' = [ledger EXCEPT ![a] = "PENDING"]
  /\ market' = [market EXCEPT ![a] = "live"]
  /\ UNCHANGED <<named, booked, traded>>

Trade(a) ==
  /\ market[a] = "live"
  /\ traded[a] < Volume
  /\ traded' = [traded EXCEPT ![a] = @ + 1]
  /\ UNCHANGED <<ledger, named, booked, market>>

End(a) ==
  /\ market[a] = "live"
  /\ market' = [market EXCEPT ![a] = "over"]
  /\ UNCHANGED <<ledger, named, booked, traded>>

Name(a) ==
  /\ ledger[a] = "PENDING"
  /\ named' = [named EXCEPT ![a] = TRUE]
  /\ UNCHANGED <<ledger, booked, market, traded>>

Book(a) ==
  /\ ledger[a] = "PENDING"
  /\ market[a] = "over"
  /\ ledger' = [ledger EXCEPT ![a] = IF traded[a] > 0 THEN "FILLED" ELSE "FAILED"]
  /\ booked' = [booked EXCEPT ![a] = traded[a]]
  /\ named' = [named EXCEPT ![a] = @ \/ traded[a] > 0]
  /\ UNCHANGED <<market, traded>>

Next == \E a \in Attempts : Record(a) \/ Trade(a) \/ End(a) \/ Name(a) \/ Book(a)

Spec == Init /\ [][Next]_promiseVars
=============================================================================
