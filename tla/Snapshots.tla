------------------------------ MODULE Snapshots ------------------------------
(***************************************************************************)
(* One user's value series: keep_snapshot, pin_snapshot and latest_        *)
(* snapshot of core/db/telemetry.py, called by POST /portfolio/refresh and *)
(* by an evaluation (core/execution.py), which keeps a snapshot when it    *)
(* has planned and pins it before its first order.                         *)
(*                                                                         *)
(* Kraken's account is a number that grows with every change, and a        *)
(* reading is the number it found.  SELECT ... ORDER BY as_of DESC LIMIT 1 *)
(* FOR UPDATE picks its row when the statement begins; it may have to wait *)
(* for it, and then returns that row as it is by then.                     *)
(***************************************************************************)
EXTENDS Naturals

CONSTANTS
  Refreshes,   \* requests to POST /portfolio/refresh
  Evaluation,  \* the evaluation that holds the user's lock
  None,        \* no row
  DayLength,   \* steps of the clock in a UTC day
  MaxTime,     \* bound: the clock
  MaxAccount,  \* bound: changes of the account
  MaxRows      \* bound: rows

SnapshotsConstants ==
  /\ Evaluation \notin Refreshes
  /\ None \notin Nat
  /\ DayLength \in Nat \ {0} /\ {MaxTime, MaxAccount, MaxRows} \subseteq Nat

VARIABLES
  now,      \* the clock
  account,  \* the state of the account at Kraken
  rows,     \* portfolio_snapshots, in the order of insertion
  last,     \* the number of rows
  proc,     \* what each refresh and the evaluation are at
  kept,     \* history: days on which a snapshot was kept
  orders    \* history: <<row, account>> before the first order of an evaluation

history == <<kept, orders>>
vars == <<now, account, rows, last, proc, history>>

Procs == Refreshes \cup {Evaluation}
Ids == 1..MaxRows
Row == [as_of : Nat, reading : Nat, pinned : BOOLEAN]
\* The account that was read, as_of, the row picked and, when picked, its value;
\* for the evaluation then the row it kept.
Locals == [pc : {"idle", "read", "picked", "kept", "pinned", "sending"}, reading : Nat,
           as_of : Nat, row : Ids \cup {None}, value : Row \cup {None}]
Idle == [pc |-> "idle", reading |-> 0, as_of |-> 0, row |-> None, value |-> None]

TypeOK ==
  /\ now \in 0..MaxTime /\ account \in 0..MaxAccount /\ last \in 0..MaxRows
  /\ DOMAIN rows = 1..last /\ \A i \in 1..last : rows[i] \in Row
  /\ proc \in [Procs -> Locals]
  /\ kept \subseteq Nat
  /\ orders \subseteq Ids \X Nat

Init ==
  /\ now = 0 /\ account = 0
  /\ rows = <<>> /\ last = 0
  /\ proc = [p \in Procs |-> Idle]
  /\ kept = {} /\ orders = {}
-----------------------------------------------------------------------------
_day(t) == t \div DayLength

\* read_portfolio: every read answered.  One that fails records nothing.
Read(p) ==
  /\ proc[p] = Idle
  /\ proc' = [proc EXCEPT ![p] = [Idle EXCEPT !.pc = "read", !.reading = account]]
  /\ UNCHANGED <<now, account, rows, last, history>>

\* A latest row, when the statement begins.
latest(i) == \A j \in 1..last : rows[j].as_of <= rows[i].as_of

\* keep_snapshot: `as_of` is now, and the SELECT picks its row.
Pick(p) ==
  /\ proc[p].pc = "read"
  /\ \E i \in 1..last \cup {None} :
       /\ IF last = 0 THEN i = None ELSE i # None /\ latest(i)
       /\ proc' = [proc EXCEPT ![p] = [@ EXCEPT !.pc = "picked", !.as_of = now, !.row = i,
                     !.value = IF i = None THEN None ELSE rows[i]]]
  /\ UNCHANGED <<now, account, rows, last, history>>

\* Mutant of Locked: the row as the SELECT first saw it.
LockedStale(p) == proc[p].value

\* The row as it is once its lock is held (populate_existing).
Locked(p) == rows[proc[p].row]

\* Mutant of overwrites: the day is not looked at.
OverwritesAnyDay(p) == proc[p].row # None /\ ~Locked(p).pinned

\* The row is the day's point, and not pinned.
overwrites(p) ==
  proc[p].row # None /\ ~Locked(p).pinned /\ _day(Locked(p).as_of) = _day(proc[p].as_of)

point(p) == [as_of |-> proc[p].as_of, reading |-> proc[p].reading, pinned |-> FALSE]

\* A refresh is over when its snapshot is kept; an evaluation goes on with it.
Kept(p, i) ==
  /\ kept' = kept \cup {_day(proc[p].as_of)}
  /\ proc' = [proc EXCEPT ![p] = IF p = Evaluation THEN [@ EXCEPT !.pc = "kept", !.row = i]
                                 ELSE Idle]
  /\ UNCHANGED <<now, account, orders>>

Overwrite(p) ==
  /\ proc[p].pc = "picked" /\ overwrites(p)
  /\ rows' = [rows EXCEPT ![proc[p].row].as_of = proc[p].as_of,
                          ![proc[p].row].reading = proc[p].reading]
  /\ Kept(p, proc[p].row)
  /\ UNCHANGED last

record_snapshot(p) ==
  /\ proc[p].pc = "picked" /\ ~overwrites(p)
  /\ last < MaxRows
  /\ last' = last + 1
  /\ rows' = [i \in 1..last + 1 |-> IF i = last + 1 THEN point(p) ELSE rows[i]]
  /\ Kept(p, last + 1)

\* decide: nothing is to be sent.
TurnDown ==
  /\ proc[Evaluation].pc = "kept"
  /\ proc' = [proc EXCEPT ![Evaluation] = Idle]
  /\ UNCHANGED <<now, account, rows, last, history>>

\* pin_snapshot, in a transaction of its own, just before the first order.
Pin ==
  LET i == proc[Evaluation].row
  IN  /\ proc[Evaluation].pc = "kept"
      /\ rows' = [rows EXCEPT ![i].pinned = TRUE]
      /\ proc' = [proc EXCEPT ![Evaluation].pc = "pinned"]
      /\ UNCHANGED <<now, account, last, kept, orders>>

\* Mutant of ReadyToSend: the first order goes out before the pin.
ReadyToSendAtOnce == proc[Evaluation].pc \in {"kept", "sending"}

ReadyToSend == proc[Evaluation].pc \in {"pinned", "sending"}

\* An order is sent, and trades.
Send ==
  /\ ReadyToSend /\ account < MaxAccount
  /\ account' = account + 1
  /\ orders' = IF proc[Evaluation].pc = "sending" THEN orders
               ELSE orders \cup {<<proc[Evaluation].row, account>>}
  /\ proc' = [proc EXCEPT ![Evaluation].pc = "sending"]
  /\ UNCHANGED <<now, rows, last, kept>>

\* The last order is sent, the process dies, or a read or a transaction fails.
End(p) ==
  /\ proc[p] # Idle
  /\ proc' = [proc EXCEPT ![p] = Idle]
  /\ UNCHANGED <<now, account, rows, last, history>>

\* The account changes by itself: a deposit, an order of the user's own.
Change ==
  /\ account < MaxAccount /\ account' = account + 1
  /\ UNCHANGED <<now, rows, last, proc, history>>

Clock ==
  /\ now < MaxTime /\ now' = now + 1
  /\ UNCHANGED <<account, rows, last, proc, history>>

Next ==
  \/ \E p \in Procs : Read(p) \/ Pick(p) \/ Overwrite(p) \/ record_snapshot(p) \/ End(p)
  \/ TurnDown \/ Pin \/ Send \/ Change \/ Clock

Spec == Init /\ [][Next]_vars
-----------------------------------------------------------------------------
\* keep_snapshot: a refresh racing an evaluation's pin waits for it, and then
\* sees the row pinned.  A pinned point is never changed again, by anyone.
PinnedIsKept == \A i \in 1..last : rows[i].pinned => rows'[i] = rows[i]

\* _Pin: the point of an evaluation that sent orders shows the account as it was
\* before the first of them, whatever reads ran meanwhile, and also when the
\* process died midway.
PointIsBeforeTheOrders == \A o \in orders : rows[o[1]].reading <= o[2]

\* keep_snapshot: overwriting never empties a day of the series.
NoDayLost == \A d \in kept : \E i \in 1..last : _day(rows[i].as_of) = d

\* pin_snapshot: "orders are about to be sent from the account it shows": the row
\* that is pinned holds the reading that the plan was made from.
PinnedShowsThePlan ==
  proc[Evaluation].pc \in {"pinned", "sending"} =>
    rows[proc[Evaluation].row].reading = proc[Evaluation].reading

\* PortfolioSnapshot: "One a day, overwritten by each read of that day": no day
\* has two points that are not pinned.
OnePointADay ==
  \A i, j \in 1..last :
    ~rows[i].pinned /\ ~rows[j].pinned /\ _day(rows[i].as_of) = _day(rows[j].as_of) => i = j
=============================================================================
