------------------------------- MODULE History -------------------------------
(***************************************************************************)
(* One user's evaluation records: start_evaluation, finish_evaluation,     *)
(* list_evaluations and delete_evaluations_before of core/db/telemetry.py, *)
(* the `finally` of execution._run, GET /sessions and the scheduler's      *)
(* retention (_sweep).                                                     *)
(*                                                                         *)
(* A record's id is random, so its place among the records of one instant  *)
(* is any; the order of the list is (started_at, id), newest first.        *)
(***************************************************************************)
EXTENDS Integers, FiniteSets

CONSTANTS
  Ids,        \* ids a record may be given (numbers, compared by <)
  None,
  Limit,      \* rows of a page
  Retention,  \* sessions_retention
  DayLength,  \* steps of the clock in a UTC day
  MaxTime     \* bound: the clock

HistoryConstants ==
  /\ Ids \subseteq Nat /\ None \notin Nat
  /\ Limit \in Nat \ {0} /\ DayLength \in Nat \ {0} /\ Retention \in Nat /\ MaxTime \in Nat

VARIABLES
  now,
  records,    \* rows of `sessions`, by id
  used,       \* ids given so far
  running,    \* the evaluation under way, or None: one at a time (the user's lock)
  swept_on,   \* the scheduler's day of the last retention
  reader,     \* a client that reads the pages in turn
  repeated,   \* history: a row was returned twice in one reading
  lost        \* history: records whose closing was lost with the process or its transaction

vars == <<now, records, used, running, swept_on, reader, repeated, lost>>

RUNNING == "RUNNING"
NOTHING_TO_DO == "NOTHING_TO_DO"
\* DONE stands for every status that is listed, but the one of an exception.
Statuses == {RUNNING, NOTHING_TO_DO, "DONE", "ERROR"}
Records == [started_at : Nat, status : Statuses]

\* The client: the rows there were when it began, the rows it was given, and the
\* last id of the last page.
Readers == [pc : {"idle", "paging", "done"}, before : Ids \cup {None},
            there : SUBSET Ids, got : SUBSET Ids]
NotReading == [pc |-> "idle", before |-> None, there |-> {}, got |-> {}]

TypeOK ==
  /\ now \in 0..MaxTime
  /\ used \subseteq Ids /\ DOMAIN records \subseteq used
  /\ \A i \in DOMAIN records : records[i] \in Records
  /\ running \in Ids \cup {None}
  /\ swept_on \in Nat \cup {None}
  /\ reader \in Readers
  /\ repeated \in BOOLEAN
  /\ lost \subseteq Ids

Init ==
  /\ now = 0 /\ records = [i \in {} |-> None] /\ used = {} /\ running = None
  /\ swept_on = None /\ reader = NotReading /\ repeated = FALSE /\ lost = {}
-----------------------------------------------------------------------------
\* _run: the record is committed before the work.
start_evaluation ==
  /\ running = None
  /\ \E i \in Ids \ used :
       /\ records' = [j \in DOMAIN records \cup {i} |->
            IF j = i THEN [started_at |-> now, status |-> RUNNING] ELSE records[j]]
       /\ used' = used \cup {i}
       /\ running' = i
  /\ UNCHANGED <<now, swept_on, reader, repeated, lost>>

\* Mutant of Closes: only an evaluation that returns closes its record.
ClosesIfReturned(status) == status # "ERROR"

\* The `finally` closes the record whatever happened.
Closes(status) == TRUE

\* The evaluation returns a status or raises (ERROR), and its record is closed.
\* One that retention has taken meanwhile stays away.
finish_evaluation ==
  /\ running # None
  /\ \E status \in Statuses \ {RUNNING} :
       records' = IF running \in DOMAIN records /\ Closes(status)
                  THEN [records EXCEPT ![running].status = status] ELSE records
  /\ running' = None
  /\ UNCHANGED <<now, used, swept_on, reader, repeated, lost>>

\* The closing transaction of the `finally` is the evaluation's last statement, and
\* unguarded: one that fails (the database is away) raises, the record stays RUNNING
\* and the process goes on.
FinishFails ==
  /\ running # None
  /\ running' = None
  /\ lost' = lost \cup {running}
  /\ UNCHANGED <<now, records, used, swept_on, reader, repeated>>

\* The process dies: the record stays RUNNING, and the next start sweeps anew.
Crash ==
  /\ running # None \/ swept_on # None
  /\ running' = None /\ swept_on' = None
  /\ lost' = lost \cup ({running} \ {None})
  /\ UNCHANGED <<now, records, used, reader, repeated>>
-----------------------------------------------------------------------------
\* i comes after j in the order of the list.
Older(i, j) ==
  \/ records[i].started_at < records[j].started_at
  \/ records[i].started_at = records[j].started_at /\ i < j

\* Mutant of past: rows of the cursor's instant are taken as read.
PastInstant(i, cursor) == records[i].started_at < records[cursor].started_at

\* i is not on the pages up to the cursor.
past(i, cursor) == Older(i, cursor)

\* The rows that the list may show: those that found nothing to do are left out.
listed == {i \in DOMAIN records : records[i].status # NOTHING_TO_DO}

list_evaluations(before) ==
  LET rows == IF before = None THEN listed ELSE {i \in listed : past(i, before)}
  IN  {i \in rows : Cardinality({j \in rows : Older(i, j)}) < Limit}

\* The last row of a page, on which the next one is asked for.
Oldest(page) == CHOOSE i \in page : \A j \in page \ {i} : Older(i, j)

BeginReading ==
  /\ reader.pc # "paging"
  /\ reader' = [NotReading EXCEPT !.pc = "paging", !.there = DOMAIN records]
  /\ UNCHANGED <<now, records, used, running, swept_on, repeated, lost>>

\* GET /sessions: a page; a short one is the last.
Page ==
  /\ reader.pc = "paging"
  /\ reader.before = None \/ reader.before \in DOMAIN records
  /\ LET page == list_evaluations(reader.before)
     IN  /\ reader' = [reader EXCEPT !.got = @ \cup page,
              !.pc = IF Cardinality(page) < Limit THEN "done" ELSE "paging",
              !.before = IF page = {} THEN @ ELSE Oldest(page)]
         /\ repeated' = (repeated \/ page \cap reader.got # {})
  /\ UNCHANGED <<now, records, used, running, swept_on, lost>>

\* The cursor is gone: 404, and the reading ends.
PageGone ==
  /\ reader.pc = "paging"
  /\ reader.before # None /\ reader.before \notin DOMAIN records
  /\ reader' = [reader EXCEPT !.pc = "done"]
  /\ UNCHANGED <<now, records, used, running, swept_on, repeated, lost>>
-----------------------------------------------------------------------------
_day(t) == t \div DayLength

\* The rows that retention takes.
delete_evaluations_before(cutoff) == {i \in DOMAIN records : records[i].started_at + cutoff < now}

\* _sweep, on the first tick of a day.  One that fails leaves the day unswept.
Sweep ==
  /\ swept_on # _day(now)
  /\ records' = [i \in DOMAIN records \ delete_evaluations_before(Retention) |-> records[i]]
  /\ swept_on' = _day(now)
  /\ UNCHANGED <<now, used, running, reader, repeated, lost>>

Clock ==
  /\ now < MaxTime /\ now' = now + 1
  /\ UNCHANGED <<records, used, running, swept_on, reader, repeated, lost>>

Next ==
  \/ start_evaluation \/ finish_evaluation \/ FinishFails \/ Crash
  \/ BeginReading \/ Page \/ PageGone \/ Sweep \/ Clock

Spec == Init /\ [][Next]_vars
-----------------------------------------------------------------------------
\* list_evaluations: a client that has read the last page, or was told that its
\* cursor is gone, was given every row that was there from the beginning and
\* still is listed, and none twice ("so a page never splits an instant"),
\* although evaluations began and ended and retention ran between its pages.
NothingMissedOrRepeated ==
  /\ reader.pc = "done" => \A i \in reader.there \cap listed : i \in reader.got
  /\ ~repeated

\* _run: a record left RUNNING belongs to the evaluation under way, or to one that
\* could not close it: its process died, or the transaction of its `finally` failed.
\* Any other was closed, by a return or by an exception, and nothing opens it again.
OnlyALostOneStaysOpen ==
  \A i \in DOMAIN records : records[i].status = RUNNING => i = running \/ i \in lost
=============================================================================
