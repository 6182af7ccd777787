------------------------------ MODULE Scheduler ------------------------------
(***************************************************************************)
(* The scheduler's tick over every user: core/scheduler.py, core/schedule  *)
(* .py, the settings rows of core/db/settings.py and PATCH /config.        *)
(*                                                                         *)
(* Each process ticks on a thread of its own, under the scheduler's        *)
(* advisory lock, and hands the users due to a pool.  A user's task runs   *)
(* its due operations in turn: read the settings, evaluate under the user  *)
(* lock, move the next run, count the outcome.  The last two are short     *)
(* transactions that read the row without a lock and update it by key, so  *)
(* a PATCH may commit between the read and the write; the ORM writes only  *)
(* the column that it changed.  PATCH locks the row and is one step.       *)
(* The backfill of a process that starts reads without a lock, too, and    *)
(* writes later; every `now` is read before what it is used for.           *)
(*                                                                         *)
(* A cadence is its length in steps of the clock: its slots are the        *)
(* multiples of the length (module Cadence has the calendar).              *)
(***************************************************************************)
EXTENDS Integers, FiniteSets

CONSTANTS
  Users, Procs,
  Nobody,       \* a lock is free
  Request,      \* an API request holds the user's lock
  None,         \* NULL
  Lengths,      \* lengths a cadence may have
  Batch,        \* users per tick
  Pool,         \* workers of the pool
  AlertStreak,  \* failures in a row before the warning
  MaxTime,      \* bound: the clock
  MaxPatches,   \* bound: changes of settings
  MaxRequests,  \* bound: evaluations by request
  MaxFaults     \* bound: crashes and database errors

ASSUME SchedulerConstants ==
  /\ Nobody \notin Procs /\ Request \notin Procs /\ Request # Nobody
  /\ Lengths \subseteq Nat \ {0} /\ None \notin Nat
  /\ {Batch, Pool, AlertStreak} \subseteq Nat \ {0}
  /\ {MaxTime, MaxPatches, MaxRequests, MaxFaults} \subseteq Nat

VARIABLES
  now,       \* the clock
  settings,  \* the row of each user
  lock,      \* holder of the scheduler's lock
  userLock,  \* holder of each user's lock
  up,        \* processes that run
  tickNow,   \* the `now` that each process read for its start or its tick
  moves,     \* the next runs that each process that starts will write
  task,      \* what each process's pool does for each user
  patches, requests, faults,  \* counters of the bounds
  served,    \* history: <<user, operation, slot>> run and moved past
  warned,    \* history: warnings in the current streak of each user
  unlogged,  \* history: users whose warning a process took with it when it died
  resumed,   \* history: when each user's pause was last lifted
  stale,     \* history: next runs written since each process began to start
  overwritten \* history: next runs that a backfill wrote though they were stale

db == <<settings, served, warned, unlogged, resumed, stale, overwritten>>
locks == <<lock, userLock>>
procs == <<up, moves>>
counters == <<patches, requests, faults>>
vars == <<now, db, locks, procs, tickNow, task, counters>>

INVEST == "invest"
REBALANCE == "rebalance"
Operations == {INVEST, REBALANCE}
Times == Nat \cup {None}

\* The columns of user_settings that the scheduler reads or writes.
Rows == [paused : BOOLEAN, enabled : BOOLEAN, length : [Operations -> Lengths],
         next : [Operations -> Times], streak : Nat]

\* A user's task: the slots due when it was selected, the operation at hand,
\* the row as its transaction read it, and the outcome to count.
Steps == {"none", "queued", "run", "evaluating", "advance", "move", "count", "tally", "log"}
Tasks == [pc : Steps, due : [Operations -> Times], op : Operations \cup {None},
          read : Rows \cup {None}, outcome : {"ok", "failed", "uncounted"}]
NoTask == [pc |-> "none", due |-> [o \in Operations |-> None], op |-> None,
           read |-> None, outcome |-> "uncounted"]

TypeOK ==
  /\ now \in Nat
  /\ settings \in [Users -> Rows]
  /\ lock \in Procs \cup {Nobody}
  /\ userLock \in [Users -> Procs \cup {Nobody, Request}]
  /\ up \subseteq Procs
  /\ tickNow \in [Procs -> Times]
  /\ moves \in [Procs -> [Users -> [Operations -> Times]] \cup {None}]
  /\ task \in [Procs -> [Users -> Tasks]]
  /\ patches \in Nat /\ requests \in Nat /\ faults \in Nat
  /\ served \subseteq Users \X Operations \X Nat
  /\ warned \in [Users -> Nat] /\ unlogged \subseteq Users
  /\ resumed \in [Users -> Nat]
  /\ stale \in [Procs -> SUBSET (Users \X Operations)]
  /\ overwritten \subseteq Users \X Operations
-----------------------------------------------------------------------------
\* Mutant of _every: a slot may be `now` itself.
EveryFromNow(length, t) == ((t + length - 1) \div length) * length

\* The first multiple of `length` strictly after `t`.
_every(length, t) == (t \div length + 1) * length

next_run(row, o, t) ==
  IF o = INVEST /\ ~row.enabled THEN None ELSE _every(row.length[o], t)

\* The row with the next runs of `ops` recomputed.
rescheduled(row, ops, t) ==
  [row EXCEPT !.next = [o \in Operations |-> IF o \in ops THEN next_run(row, o, t) ELSE row.next[o]]]

\* A row of a user who has set nothing up but a fiat, or one written before
\* the scheduler existed.
Defaults(l) == [paused |-> FALSE, enabled |-> FALSE, length |-> [o \in Operations |-> l],
                next |-> [o \in Operations |-> None], streak |-> 0]

Init ==
  /\ now = 0
  /\ \E l \in Lengths :
       settings \in [Users -> {Defaults(l), [Defaults(l) EXCEPT !.enabled = TRUE]}]
  /\ lock = Nobody /\ userLock = [u \in Users |-> Nobody]
  /\ up = {} /\ tickNow = [p \in Procs |-> None] /\ moves = [p \in Procs |-> None]
  /\ task = [p \in Procs |-> [u \in Users |-> NoTask]]
  /\ patches = 0 /\ requests = 0 /\ faults = 0
  /\ served = {} /\ warned = [u \in Users |-> 0] /\ unlogged = {}
  /\ resumed = [u \in Users |-> 0]
  /\ stale = [p \in Procs |-> {}] /\ overwritten = {}
-----------------------------------------------------------------------------
\* `start` and `run` read the clock, before they read anything else.
ReadClock(p) ==
  /\ tickNow[p] = None
  /\ tickNow' = [tickNow EXCEPT ![p] = now]
  /\ UNCHANGED <<now, db, locks, procs, task, counters>>

\* The columns `columns` are written: what a process that starts knows of them
\* is old.
Written(columns) ==
  stale' = [p \in Procs |->
    IF p \notin up /\ tickNow[p] # None THEN stale[p] \cup columns ELSE {}]

\* The next runs that a row lacks.
unscheduled(row) ==
  {o \in Operations : row.next[o] = None /\ (o = REBALANCE \/ row.enabled)}

\* `backfill` selects the rows that lack a next run, without a lock, and
\* computes what they lack.
StartReads(p) ==
  /\ p \notin up /\ tickNow[p] # None /\ moves[p] = None
  /\ moves' = [moves EXCEPT ![p] = [u \in Users |-> [o \in Operations |->
       IF o \in unscheduled(settings[u]) THEN next_run(settings[u], o, tickNow[p]) ELSE None]]]
  /\ UNCHANGED <<now, db, locks, up, tickNow, task, counters>>

\* ... and updates each of them by key, in one transaction; then the thread
\* runs.  What was written in between is overwritten.
StartFills(p) ==
  LET columns == {c \in Users \X Operations : moves[p][c[1]][c[2]] # None}
  IN  /\ p \notin up /\ moves[p] # None
      /\ settings' = [u \in Users |-> [settings[u] EXCEPT !.next = [o \in Operations |->
           IF <<u, o>> \in columns THEN moves[p][u][o] ELSE settings[u].next[o]]]]
      /\ overwritten' = overwritten \cup (columns \cap stale[p])
      /\ stale' = [q \in Procs |-> IF q # p /\ q \notin up /\ tickNow[q] # None
                                   THEN stale[q] \cup columns ELSE {}]
      /\ up' = up \cup {p}
      /\ moves' = [moves EXCEPT ![p] = None]
      /\ tickNow' = [tickNow EXCEPT ![p] = None]
      /\ UNCHANGED <<now, served, warned, unlogged, resumed, locks, task, counters>>

Passed(time, t) == time # None /\ time <= t

is_due(u, t) == ~settings[u].paused /\ \E o \in Operations : Passed(settings[u].next[o], t)

\* The sort key of the query: the earlier of the two times.
Overdue(u) ==
  CHOOSE t \in {settings[u].next[o] : o \in Operations} \ {None} :
    \A o \in Operations : settings[u].next[o] # None => t <= settings[u].next[o]

\* `batch` is what due_users may return: the most overdue, Batch at most.
due_users(batch, t) ==
  LET due == {u \in Users : is_due(u, t)}
  IN  /\ batch \subseteq due
      /\ Cardinality(batch) = IF Cardinality(due) < Batch THEN Cardinality(due) ELSE Batch
      /\ \A u \in batch, v \in due \ batch : Overdue(u) <= Overdue(v)

\* Mutant of Taken: a second process ticks all the same.
TakenAnyway(p) == TRUE

\* The scheduler's lock is tried, never waited for.
Taken(p) == lock = Nobody

\* `tick`: the users due at the `now` read become tasks of the pool.
Tick(p) ==
  /\ p \in up /\ lock # p /\ tickNow[p] # None
  /\ Taken(p)
  /\ \E batch \in SUBSET Users \ {{}} :
       /\ due_users(batch, tickNow[p])
       /\ task' = [task EXCEPT ![p] = [u \in Users |->
            IF u \notin batch THEN NoTask
            ELSE [NoTask EXCEPT !.pc = "queued",
                    !.due = [o \in Operations |->
                      IF Passed(settings[u].next[o], tickNow[p]) THEN settings[u].next[o]
                      ELSE None]]]]
  /\ lock' = p
  /\ UNCHANGED <<now, db, userLock, procs, tickNow, counters>>

\* A tick that does not get the lock, or that finds nobody due, changes nothing.
TickIdles(p) ==
  /\ p \in up /\ lock # p /\ tickNow[p] # None
  /\ ~Taken(p) \/ \A u \in Users : ~is_due(u, tickNow[p])
  /\ tickNow' = [tickNow EXCEPT ![p] = None]
  /\ UNCHANGED <<now, db, locks, procs, task, counters>>

\* The pool is done: the tick ends and frees the lock.
TickEnds(p) ==
  /\ lock = p
  /\ \A u \in Users : task[p][u] = NoTask
  /\ lock' = Nobody
  /\ tickNow' = [tickNow EXCEPT ![p] = None]
  /\ UNCHANGED <<now, db, userLock, procs, task, counters>>
-----------------------------------------------------------------------------
Step(p, u, t) == task' = [task EXCEPT ![p][u] = t]

\* The operation at hand is over: the next one due, or the end of the task.
Next_operation(t) ==
  LET left == [t.due EXCEPT ![t.op] = None]
  IN  IF \A o \in Operations : left[o] = None THEN NoTask
      ELSE [NoTask EXCEPT !.pc = "queued", !.due = left]

\* The investment first.
First(t) == IF t.due[INVEST] # None THEN INVEST ELSE REBALANCE

Busy(p) == Cardinality({u \in Users : task[p][u].pc \notin {"none", "queued"}})

\* `_operate` reads the settings.  Switched off since: nothing to run.
Operate(p, u) ==
  LET t == task[p][u]  o == First(t)
  IN  /\ t.pc = "queued" /\ Busy(p) < Pool
      /\ Step(p, u, [t EXCEPT !.op = o,
           !.pc = IF o = REBALANCE \/ settings[u].enabled THEN "run" ELSE "advance"])
      /\ UNCHANGED <<now, db, locks, procs, tickNow, counters>>

\* `evaluate` takes the user's lock.
Run(p, u) ==
  /\ task[p][u].pc = "run"
  /\ userLock[u] = Nobody
  /\ userLock' = [userLock EXCEPT ![u] = p]
  /\ Step(p, u, [task[p][u] EXCEPT !.pc = "evaluating"])
  /\ UNCHANGED <<now, db, lock, procs, tickNow, counters>>

\* EvaluationBusy: a request is evaluating this user.  The next run is not
\* moved, and the next tick tries again.
RunBusy(p, u) ==
  /\ task[p][u].pc = "run"
  /\ userLock[u] # Nobody
  /\ Step(p, u, Next_operation(task[p][u]))
  /\ UNCHANGED <<now, db, locks, procs, tickNow, counters>>

\* Mutant of unready: a user who is not ready is left for the next tick.
UnreadyWaits(t) == Next_operation(t)

\* NotReady, no key or no fiat yet: moved, and not counted.
unready(t) == [t EXCEPT !.pc = "advance"]

RunNotReady(p, u) ==
  /\ task[p][u].pc = "run"
  /\ Step(p, u, unready(task[p][u]))
  /\ UNCHANGED <<now, db, locks, procs, tickNow, counters>>

\* The evaluation returns a status or raises; `_failed` tells which count.
RunEnds(p, u) ==
  /\ task[p][u].pc = "evaluating"
  /\ userLock' = [userLock EXCEPT ![u] = Nobody]
  /\ \E outcome \in {"ok", "failed"} :
       Step(p, u, [task[p][u] EXCEPT !.pc = "advance", !.outcome = outcome])
  /\ UNCHANGED <<now, db, lock, procs, tickNow, counters>>

\* `_advance` reads the row.
AdvanceRead(p, u) ==
  /\ task[p][u].pc = "advance"
  /\ Step(p, u, [task[p][u] EXCEPT !.pc = "move", !.read = settings[u]])
  /\ UNCHANGED <<now, db, locks, procs, tickNow, counters>>

\* ... and writes the next run computed from what it read, strictly after the
\* `now` of the tick.  A column left as it was read is not written.
Advance(p, u) ==
  LET t == task[p][u]
      to == next_run(t.read, t.op, tickNow[p])
  IN  /\ t.pc = "move"
      /\ IF to = t.read.next[t.op] THEN UNCHANGED <<settings, stale>>
         ELSE /\ settings' = [settings EXCEPT ![u].next[t.op] = to]
              /\ Written({<<u, t.op>>})
      /\ served' = served \cup {<<u, t.op, t.due[t.op]>>}
      /\ Step(p, u, IF t.outcome = "uncounted" THEN Next_operation(t)
                    ELSE [t EXCEPT !.pc = "count", !.read = None])
      /\ UNCHANGED <<now, warned, unlogged, resumed, overwritten, locks, procs, tickNow, counters>>

\* `_count` reads the row.
CountRead(p, u) ==
  /\ task[p][u].pc = "count"
  /\ Step(p, u, [task[p][u] EXCEPT !.pc = "tally", !.read = settings[u]])
  /\ UNCHANGED <<now, db, locks, procs, tickNow, counters>>

\* Mutant of after: a success takes one failure back.
AfterCountsDown(before, outcome) == IF outcome = "failed" THEN before + 1 ELSE before - 1

after(before, outcome) == IF outcome = "failed" THEN before + 1 ELSE 0

\* Mutant of Crosses: every failure past the threshold warns.
CrossesAgain(before, outcome) == outcome = "failed" /\ after(before, outcome) >= AlertStreak

\* The edge on which the one warning is logged.
Crosses(before, outcome) == outcome = "failed" /\ after(before, outcome) = AlertStreak

\* ... and writes the streak, if it changed; then the warning is logged.
Count(p, u) ==
  LET t == task[p][u]
      streak == after(t.read.streak, t.outcome)
  IN  /\ t.pc = "tally"
      /\ settings' = IF streak = t.read.streak THEN settings
                     ELSE [settings EXCEPT ![u].streak = streak]
      /\ warned' = IF streak = 0 THEN [warned EXCEPT ![u] = 0] ELSE warned
      /\ unlogged' = IF streak = 0 THEN unlogged \ {u} ELSE unlogged
      /\ Step(p, u, [t EXCEPT !.pc = "log"])
      /\ UNCHANGED <<now, served, resumed, stale, overwritten, locks, procs, tickNow, counters>>

Log(p, u) ==
  LET t == task[p][u]
  IN  /\ t.pc = "log"
      /\ warned' = IF Crosses(t.read.streak, t.outcome) THEN [warned EXCEPT ![u] = @ + 1]
                   ELSE warned
      /\ Step(p, u, Next_operation(t))
      /\ UNCHANGED <<now, settings, served, unlogged, resumed, stale, overwritten, locks, procs,
                     tickNow, counters>>
-----------------------------------------------------------------------------
\* PATCH /config, with the row locked: the settings change, and every next
\* run computed from one of them is recomputed (SOURCES).
Patch(u, row, ops) ==
  /\ patches < MaxPatches
  /\ patches' = patches + 1
  /\ settings' = [settings EXCEPT ![u] = rescheduled(row, ops, now)]
  /\ Written({u} \X ops)
  /\ UNCHANGED <<now, served, warned, unlogged, overwritten, locks, procs, tickNow, task,
                 requests, faults>>

PatchPaused(u) ==
  /\ Patch(u, [settings[u] EXCEPT !.paused = ~@], Operations)
  /\ resumed' = IF settings[u].paused THEN [resumed EXCEPT ![u] = now] ELSE resumed

PatchInvest(u) ==
  /\ Patch(u, [settings[u] EXCEPT !.enabled = ~@], {INVEST})
  /\ UNCHANGED resumed

PatchCadence(u) ==
  /\ \E o \in Operations : \E l \in Lengths \ {settings[u].length[o]} :
       Patch(u, [settings[u] EXCEPT !.length[o] = l], {o})
  /\ UNCHANGED resumed

\* An evaluation started by a request holds the user's lock for a while.
RequestBegins(u) ==
  /\ requests < MaxRequests /\ userLock[u] = Nobody
  /\ userLock' = [userLock EXCEPT ![u] = Request]
  /\ requests' = requests + 1
  /\ UNCHANGED <<now, db, lock, procs, tickNow, task, patches, faults>>

RequestEnds(u) ==
  /\ userLock[u] = Request
  /\ userLock' = [userLock EXCEPT ![u] = Nobody]
  /\ UNCHANGED <<now, db, lock, procs, tickNow, task, counters>>

\* A transaction of a task fails: `_guarded` logs it and drops the user's task.
DatabaseError(p, u) ==
  /\ faults < MaxFaults
  /\ task[p][u].pc \in {"queued", "advance", "move", "count", "tally"}
  /\ Step(p, u, NoTask)
  /\ faults' = faults + 1
  /\ UNCHANGED <<now, db, locks, procs, tickNow, patches, requests>>

\* A transaction of the tick itself fails: `run` logs it and waits for the next.
TickFails(p) ==
  /\ faults < MaxFaults
  /\ p \in up /\ lock # p /\ tickNow[p] # None
  /\ tickNow' = [tickNow EXCEPT ![p] = None]
  /\ faults' = faults + 1
  /\ UNCHANGED <<now, db, locks, procs, task, patches, requests>>

\* The process dies, at work or while it starts; its connections close and
\* free its locks.
Crash(p) ==
  /\ faults < MaxFaults /\ (p \in up \/ tickNow[p] # None)
  /\ up' = up \ {p}
  /\ moves' = [moves EXCEPT ![p] = None]
  /\ tickNow' = [tickNow EXCEPT ![p] = None]
  /\ task' = [task EXCEPT ![p] = [u \in Users |-> NoTask]]
  /\ lock' = IF lock = p THEN Nobody ELSE lock
  /\ userLock' = [u \in Users |-> IF userLock[u] = p THEN Nobody ELSE userLock[u]]
  /\ unlogged' = unlogged \cup {u \in Users :
       task[p][u].pc = "log" /\ Crosses(task[p][u].read.streak, task[p][u].outcome)}
  /\ stale' = [stale EXCEPT ![p] = {}]
  /\ faults' = faults + 1
  /\ UNCHANGED <<now, settings, served, warned, resumed, overwritten, patches, requests>>

Clock ==
  /\ now < MaxTime
  /\ now' = now + 1
  /\ UNCHANGED <<db, locks, procs, tickNow, task, counters>>

Work(p, u) ==
  \/ Operate(p, u) \/ Run(p, u) \/ RunBusy(p, u) \/ RunNotReady(p, u) \/ RunEnds(p, u)
  \/ AdvanceRead(p, u) \/ Advance(p, u) \/ CountRead(p, u) \/ Count(p, u) \/ Log(p, u)

Starts(p) == ReadClock(p) \/ StartReads(p) \/ StartFills(p)
Ticks(p) == Tick(p) \/ TickIdles(p) \/ TickEnds(p)

Next ==
  \/ \E p \in Procs : Starts(p) \/ Ticks(p) \/ TickFails(p) \/ Crash(p)
  \/ \E p \in Procs, u \in Users : Work(p, u) \/ DatabaseError(p, u)
  \/ \E u \in Users : PatchPaused(u) \/ PatchInvest(u) \/ PatchCadence(u)
                      \/ RequestBegins(u) \/ RequestEnds(u)
  \/ Clock

Spec == Init /\ [][Next]_vars

\* Threads run, ticks recur, requests end, the clock goes on, and a process
\* that died is started again.
FairSpec ==
  /\ Spec
  /\ \A p \in Procs : WF_vars(Starts(p)) /\ WF_vars(Ticks(p))
  /\ \A p \in Procs, u \in Users : WF_vars(Work(p, u))
  /\ \A u \in Users : WF_vars(RequestEnds(u))
  /\ WF_vars(Clock)
-----------------------------------------------------------------------------
Running(p, u) == task[p][u].pc \in {"run", "evaluating"}

\* What an operation runs for: its slot.
Slot(p, u) == <<u, task[p][u].op, task[p][u].due[task[p][u].op]>>

\* One evaluation per slot (scheduler.py `_advance`, spec 10.2): an operation
\* that was run for a slot and moved past it is never run for that slot again,
\* by this process or another, whatever PATCH did to the cadence meanwhile and
\* however old the tick's `now` is.  The one exception is a next run that a
\* backfill wrote over a newer one.
SlotServedOnce ==
  \A p \in Procs, u \in Users :
    Running(p, u) /\ Slot(p, u) \in served => <<u, task[p][u].op>> \in overwritten

\* The same without the exception.  cadence.py: "a user is evaluated once,
\* never once per missed slot"; schedule.py: the next runs move "on start-up for
\* a row that has none".
OneRunPerSlot ==
  \A p \in Procs, u \in Users : Running(p, u) => Slot(p, u) \notin served

\* One user, one process (locks.py advisory_scheduler_lock): no two processes
\* work on a user's row at once, which is what lets `_advance` and `_count`
\* read it and write it back.
OneWorkerPerUser ==
  \A p, q \in Procs, u \in Users :
    task[p][u] # NoTask /\ task[q][u] # NoTask => p = q

\* Edge-triggered alert (`_count`, spec 10.5): a streak is warned of once, when
\* it reaches the threshold, across ticks, operations and processes.  The
\* warning of a streak can be missing only if the process that owed it died
\* between the commit and the log.
OneWarningPerStreak ==
  \A u \in Users :
    /\ warned[u] <= IF settings[u].streak >= AlertStreak THEN 1 ELSE 0
    /\ settings[u].streak >= AlertStreak /\ warned[u] = 0 =>
         u \in unlogged \/ \E p \in Procs : task[p][u].pc = "log"

\* Nothing due waits for ever (`tick`, due_users): behind a batch that is too
\* small, a busy user, a failing one or a crash, each due operation is moved on.
DueIsServed ==
  \A u \in Users, o \in Operations :
    (is_due(u, now) /\ Passed(settings[u].next[o], now)) ~>
    (settings[u].paused \/ ~Passed(settings[u].next[o], now))

\* schedule.py: "Keeping next_invest_at and next_rebalance_at true to the
\* settings": with no task at work, each next run is a slot of its cadence, and
\* an investment that is switched off has none.  (What a backfill overwrote is
\* left to OneRunPerSlot: this is about `_advance`.)
NextFollowsSettings ==
  \A u \in Users : up # {} /\ (\A p \in Procs : task[p][u] = NoTask) =>
    \A o \in {x \in Operations : <<u, x>> \notin overwritten} :
      IF o = INVEST /\ ~settings[u].enabled THEN settings[u].next[o] = None
      ELSE settings[u].next[o] # None /\ settings[u].next[o] % settings[u].length[o] = 0

\* Spec 10.2: "lifting it moves both next runs to the first slot after now, and
\* nothing missed while paused runs": no next run is before the lift (but for
\* what a backfill overwrote).
MissedWhilePausedIsSkipped ==
  \A u \in Users, o \in Operations :
    ~settings[u].paused /\ settings[u].next[o] # None =>
      settings[u].next[o] > resumed[u] \/ <<u, o>> \in overwritten
=============================================================================
