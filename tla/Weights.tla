------------------------------- MODULE Weights -------------------------------
(***************************************************************************)
(* One user's fiat and target weights: PUT and DELETE /assets/{asset}, the *)
(* first PATCH /config, and the rows of core/db/settings.py under them.    *)
(*                                                                         *)
(* PUT asks Kraken first, then locks the settings row, sums the other      *)
(* weights and writes its own.  DELETE takes no lock.  A row is written by *)
(* its key when the transaction ends: the ORM inserts a row that it found  *)
(* missing, and updates one that it found.                                 *)
(***************************************************************************)
EXTENDS Naturals, FiniteSets, Functions

CONSTANTS
  Assets, Fiats, Requests,
  None,     \* no row, or nothing at hand
  HUNDRED   \* the whole, in the steps that a weight is counted in

WeightsConstants ==
  /\ HUNDRED \in Nat \ {0} /\ None \notin Nat /\ IsFiniteSet(Assets)
  /\ None \notin Assets \cup Fiats \cup Requests

VARIABLES
  fiat,     \* of the settings row, None before the first PATCH
  weights,  \* target_pct of each asset, None without a row
  pairs,    \* the fiat of each row's pair
  req       \* each request's transaction

vars == <<fiat, weights, pairs, req>>

Percents == 0..HUNDRED
Columns == Percents \cup {None}

\* PUT "asks" Kraken, then "writes" with the row locked; PATCH "creates".
Transactions ==
  [pc : {"idle", "asks", "writes", "creates"}, asset : Assets \cup {None}, pct : Columns,
   read : Columns, fiat : Fiats \cup {None}]
Idle == [pc |-> "idle", asset |-> None, pct |-> None, read |-> None, fiat |-> None]

TypeOK ==
  /\ fiat \in Fiats \cup {None}
  /\ weights \in [Assets -> Columns]
  /\ pairs \in [Assets -> Fiats \cup {None}]
  /\ req \in [Requests -> Transactions]

Init ==
  /\ fiat = None
  /\ weights = [a \in Assets |-> None] /\ pairs = [a \in Assets |-> None]
  /\ req = [r \in Requests |-> Idle]
-----------------------------------------------------------------------------
\* The first PATCH finds no settings row, and chooses a supported fiat.
PatchFirst(r) ==
  /\ req[r] = Idle /\ fiat = None
  /\ \E f \in Fiats : req' = [req EXCEPT ![r] = [Idle EXCEPT !.pc = "creates", !.fiat = f]]
  /\ UNCHANGED <<fiat, weights, pairs>>

\* create_settings: the key of the row refuses a second insert.
created(f) == IF fiat = None THEN f ELSE fiat

Create(r) ==
  /\ req[r].pc = "creates"
  /\ fiat' = created(req[r].fiat)
  /\ req' = [req EXCEPT ![r] = Idle]
  /\ UNCHANGED <<weights, pairs>>

\* put_asset: the fiat is read, and Kraken's names and pairs are asked for.
Put(r) ==
  /\ req[r] = Idle /\ fiat # None
  /\ \E a \in Assets, p \in Percents :
       req' = [req EXCEPT ![r] = [Idle EXCEPT !.pc = "asks", !.asset = a, !.pct = p, !.fiat = fiat]]
  /\ UNCHANGED <<fiat, weights, pairs>>

\* Kraken cannot be reached, or lists no such asset or pair.
PutRefused(r) ==
  /\ req[r].pc = "asks"
  /\ req' = [req EXCEPT ![r] = Idle]
  /\ UNCHANGED <<fiat, weights, pairs>>

Value(column) == IF column = None THEN 0 ELSE column

SumOfWeights(set) == SumFunctionOnSet([b \in Assets |-> Value(weights[b])], set)
others(a) == SumOfWeights(Assets \ {a})

\* Mutant of Free: the lock is not taken.
FreeAlways == TRUE

\* Nobody holds the settings row (lock_settings).
Free == \A q \in Requests : req[q].pc # "writes"

\* The row is locked, and the sum checked: the weight may be written ...
PutChecks(r) ==
  /\ req[r].pc = "asks" /\ Free
  /\ req' = [req EXCEPT ![r] =
       IF others(@.asset) + @.pct > HUNDRED THEN Idle
       ELSE [@ EXCEPT !.pc = "writes", !.read = weights[req[r].asset]]]
  /\ UNCHANGED <<fiat, weights, pairs>>

\* ... or the request was refused with 422 above.

\* The weight that replaces a column.
written(column, pct) == pct

\* upsert_asset: a row that is gone by now fails the update, and the request
\* with it; a row that is what it was is not written.
upsert_asset(r) ==
  LET t == req[r]
      fails == t.read # None /\ weights[t.asset] = None
  IN  /\ t.pc = "writes"
      /\ weights' = IF fails THEN weights ELSE [weights EXCEPT ![t.asset] = written(@, t.pct)]
      /\ pairs' = IF fails THEN pairs ELSE [pairs EXCEPT ![t.asset] = t.fiat]
      /\ req' = [req EXCEPT ![r] = Idle]
      /\ UNCHANGED fiat

delete_asset(a) ==
  /\ weights[a] # None
  /\ weights' = [weights EXCEPT ![a] = None]
  /\ pairs' = [pairs EXCEPT ![a] = None]
  /\ UNCHANGED <<fiat, req>>

\* The process dies, and the transaction with it.
RollBack(r) ==
  /\ req[r] # Idle
  /\ req' = [req EXCEPT ![r] = Idle]
  /\ UNCHANGED <<fiat, weights, pairs>>

Next ==
  \/ \E r \in Requests :
       PatchFirst(r) \/ Create(r) \/ Put(r) \/ PutRefused(r) \/ PutChecks(r) \/ upsert_asset(r)
         \/ RollBack(r)
  \/ \E a \in Assets : delete_asset(a)

Spec == Init /\ [][Next]_vars
-----------------------------------------------------------------------------
\* lock_settings: the weights sum to 100 or less, although each request checks
\* the sum against rows that others are changing, so the cash target, which is
\* what is left, is never negative; and every stored pair trades against the
\* user's fiat ("The fiat never changes once chosen, so reading it needs no
\* lock"), although two first PATCHes may race and the pair was resolved before
\* the row was locked.
TargetsAreConsistent ==
  /\ SumOfWeights(Assets) <= HUNDRED
  /\ \A a \in Assets : weights[a] # None => pairs[a] = fiat
=============================================================================
