------------------------------- MODULE Tables -------------------------------
(***************************************************************************)
(* What requests and evaluations share in the database, besides orders and *)
(* proposals: refresh tokens, keys, targets, snapshots and evaluation      *)
(* records.  The five share no state, so a behaviour picks one of them     *)
(* (part) and runs it alone.                                               *)
(***************************************************************************)
EXTENDS Integers

CONSTANTS
  None, Requests, MaxTime, DayLength,
  TokenUsers, RefreshTTL, MaxTokens,
  Users, Credentials, MaxVersion,
  Assets, Fiats, HUNDRED,
  Refreshes, Evaluation, MaxAccount, MaxRows,
  EvaluationIds, Limit, Retention

VARIABLES
  part, now,
  status, tokens, lastToken, tokenReq, ends, granted, endings,
  keyRecords, cipher, keyReq, script, checked, registered,
  fiat, weights, pairs, req,
  account, rows, last, proc, kept, orders,
  records, used, running, swept_on, reader, repeated, lost

Sessions == INSTANCE SignIn WITH Users <- TokenUsers, last <- lastToken, req <- tokenReq
Keys == INSTANCE KeyRotation WITH records <- keyRecords, req <- keyReq
Targets == INSTANCE Weights
Points == INSTANCE Snapshots
Past == INSTANCE History WITH Ids <- EvaluationIds

ASSUME TablesConstants ==
  /\ Sessions!SignInConstants /\ Keys!KeyRotationConstants /\ Targets!WeightsConstants
  /\ Points!SnapshotsConstants /\ Past!HistoryConstants

sessions == <<status, tokens, lastToken, tokenReq, ends, granted, endings>>
keys     == <<keyRecords, cipher, keyReq, script, checked, registered>>
targets  == <<fiat, weights, pairs, req>>
points   == <<account, rows, last, proc, kept, orders>>
past     == <<records, used, running, swept_on, reader, repeated, lost>>
vars == <<part, now, sessions, keys, targets, points, past>>

Init ==
  /\ part \in {"sessions", "keys", "targets", "points", "past"}
  /\ Sessions!Init /\ Keys!Init /\ Targets!Init /\ Points!Init /\ Past!Init

Next ==
  /\ UNCHANGED part
  /\ \/ part = "sessions" /\ Sessions!Next /\ UNCHANGED <<keys, targets, points, past>>
     \/ part = "keys" /\ Keys!Next /\ UNCHANGED <<now, sessions, targets, points, past>>
     \/ part = "targets" /\ Targets!Next /\ UNCHANGED <<now, sessions, keys, points, past>>
     \/ part = "points" /\ Points!Next /\ UNCHANGED <<sessions, keys, targets, past>>
     \/ part = "past" /\ Past!Next /\ UNCHANGED <<sessions, keys, targets, points>>

Spec == Init /\ [][Next]_vars
-----------------------------------------------------------------------------
\* The types of the five modules: their rows are what the tables may hold.
TypeOK ==
  CASE part = "sessions" -> Sessions!TypeOK
    [] part = "keys"     -> Keys!TypeOK
    [] part = "targets"  -> Targets!TypeOK
    [] part = "points"   -> Points!TypeOK
    [] part = "past"     -> Past!TypeOK

\* refresh.py: one live token per sign-in, whatever requests race.
OneLiveToken == part = "sessions" => Sessions!OneLiveToken

\* refresh.py: a sign-in ends in time, and at once with a logout.
SignInEnds == part = "sessions" => Sessions!SignInEnds

\* auth.py, logout: a revocation ends the sign-in, with whichever token.
RevocationIsFinal == part = "sessions" => Sessions!RevocationIsFinal

\* rotation.py: the platform's keys open every record.
EveryRecordOpens == part = "keys" => Keys!EveryRecordOpens

\* rotation.py: a record holds the last registration that succeeded.
LastRegistrationStands == part = "keys" => Keys!LastRegistrationStands

\* lock_settings: weights within 100, and pairs of the user's fiat.
TargetsAreConsistent == part = "targets" => Targets!TargetsAreConsistent

\* keep_snapshot: a pinned point is never changed.
PinnedIsKept == [][part = "points" => Points!PinnedIsKept]_vars

\* _Pin: an evaluation's point is the account before its orders.
PointIsBeforeTheOrders == part = "points" => Points!PointIsBeforeTheOrders

\* keep_snapshot: no day of the series is lost.
NoDayLost == part = "points" => Points!NoDayLost

\* pin_snapshot: the pinned row holds what the plan was made from.
PinnedShowsThePlan == part = "points" => Points!PinnedShowsThePlan

\* PortfolioSnapshot: one point a day, besides the pinned ones.
OnePointADay == part = "points" => Points!OnePointADay

\* list_evaluations: every row once, over the pages.
NothingMissedOrRepeated == part = "past" => Past!NothingMissedOrRepeated

\* _run: only a record that could not be closed stays open.
OnlyALostOneStaysOpen == part = "past" => Past!OnlyALostOneStaysOpen
=============================================================================
