-------------------------- MODULE SchedulerProofs --------------------------
(***************************************************************************)
(* The safety properties of the scheduler, for any number of users and     *)
(* processes, any cadences and any bounds.                                 *)
(***************************************************************************)
EXTENDS Scheduler, TLAPS

\* The scheduler's lock: only its holder has tasks, it runs and has read a
\* `now`, and no `now` that was read is of the future.
LockInv ==
  /\ \A p \in Procs, u \in Users : task[p][u] # NoTask => lock = p
  /\ lock \in Procs => lock \in up /\ tickNow[lock] # None
  /\ \A p \in Procs : tickNow[p] # None => tickNow[p] <= now

\* What a task has in hand at each of its steps.
Held(t) ==
  /\ t.pc = "queued" => \E o \in Operations : t.due[o] # None
  /\ t.pc \notin {"none", "queued"} => t.op \in Operations /\ t.due[t.op] # None
  /\ t.pc \in {"move", "tally", "log"} => t.read \in Rows
  /\ t.pc \in {"count", "tally", "log"} => t.outcome \in {"ok", "failed"}

TaskInv == \A p \in Procs, u \in Users : Held(task[p][u])

\* The operation at hand has been moved past its slot.
MovedPast(t, o) == o = t.op /\ t.pc \in {"count", "tally", "log"}

\* The slots of a task are not of the future.
DueInv ==
  \A p \in Procs, u \in Users, o \in Operations :
    task[p][u].due[o] # None => task[p][u].due[o] <= tickNow[p]

\* A next run that is none or after time `t`.
After(next, t) == next = None \/ next > t

\* No backfill wrote over this next run.
Intact(u, o) == <<u, o>> \notin overwritten

\* A served slot is behind the clock, behind the next run and behind what a
\* task still has to run: no write of that task can bring it back, however old
\* the `now` of its tick.
ServedInv ==
  \A u \in Users, o \in Operations, s \in Nat :
    <<u, o, s>> \in served =>
      /\ s <= now
      /\ Intact(u, o) => After(settings[u].next[o], s)
      /\ \A p \in Procs :
           Intact(u, o) /\ task[p][u].due[o] # None => MovedPast(task[p][u], o) \/ s < task[p][u].due[o]

\* Between the read and the write of `_advance` the next run moves, if it
\* does, to a time after the tick.
Moving(p, u, t) ==
  t.pc = "move" /\ Intact(u, t.op) =>
    settings[u].next[t.op] = t.read.next[t.op] \/ After(settings[u].next[t.op], tickNow[p])

MoveInv == \A p \in Procs, u \in Users : Moving(p, u, task[p][u])

\* What a process that starts knows of a next run that nobody has written
\* since: while there is none, no slot was served and no tick is at work on it
\* that is later than the start; and what the backfill will write is later.
Known(p, u, o) ==
  /\ settings[u].next[o] = None =>
       /\ \A s \in Nat : <<u, o, s>> \in served => s <= tickNow[p]
       /\ \A q \in Procs : task[q][u].due[o] # None => tickNow[q] <= tickNow[p]
  /\ moves[p] # None /\ moves[p][u][o] # None =>
       settings[u].next[o] = None /\ moves[p][u][o] > tickNow[p]

FillInv ==
  /\ \A p \in Procs : moves[p] # None => p \notin up /\ tickNow[p] # None
  /\ \A p \in Procs, u \in Users, o \in Operations :
       p \notin up /\ tickNow[p] # None /\ <<u, o>> \notin stale[p] => Known(p, u, o)

\* The streak is written by one task at a time: what `_count` read is what the
\* row still holds, and what it wrote stays until it has logged.
Counted(u, t) ==
  /\ t.pc = "tally" => t.read.streak = settings[u].streak
  /\ t.pc = "log" =>
       /\ settings[u].streak = after(t.read.streak, t.outcome)
       /\ Crosses(t.read.streak, t.outcome) => warned[u] = 0
       /\ ~Crosses(t.read.streak, t.outcome)
            /\ settings[u].streak >= AlertStreak /\ warned[u] = 0 => u \in unlogged

StreakInv == \A p \in Procs, u \in Users : Counted(u, task[p][u])

IInv ==
  /\ TypeOK /\ LockInv /\ TaskInv /\ DueInv /\ ServedInv /\ MoveInv /\ FillInv /\ StreakInv
  /\ OneWarningPerStreak
-----------------------------------------------------------------------------
\* The first slot after a time is after that time.
LEMMA EveryIsAfter ==
  ASSUME NEW l \in Nat \ {0}, NEW t \in Nat
  PROVE  _every(l, t) \in Nat /\ _every(l, t) > t
<1> DEFINE q == t \div l
<1>1. t = (l * q) + (t % l) /\ (t % l) \in 0..(l - 1) /\ q \in Nat
  OBVIOUS
<1>2. l * q \in Nat /\ (q + 1) * l = (l * q) + l
  BY <1>1
<1> QED
  BY <1>1, <1>2 DEF _every

\* A next run is none, or a time after the one it was computed for.
LEMMA NextRunIsAfter ==
  ASSUME NEW row \in Rows, NEW o \in Operations, NEW t \in Nat
  PROVE  /\ next_run(row, o, t) \in Times
         /\ next_run(row, o, t) = None \/ next_run(row, o, t) > t
<1>1. row.length[o] \in Nat \ {0}
  BY SchedulerConstants DEF Rows
<1>2. _every(row.length[o], t) \in Nat /\ _every(row.length[o], t) > t
  BY <1>1, EveryIsAfter
<1> QED
  BY <1>2 DEF next_run, Times

\* Recomputing next runs keeps the streak, and each next run is kept or after
\* the time given.
LEMMA RescheduledRow ==
  ASSUME NEW row \in Rows, NEW ops, NEW t \in Nat
  PROVE  LET r == rescheduled(row, ops, t)
         IN  /\ r \in Rows
             /\ r.streak = row.streak
             /\ \A o \in Operations :
                  r.next[o] = row.next[o] \/ (o \in ops /\ (r.next[o] = None \/ r.next[o] > t))
<1> DEFINE nexts == [o \in Operations |-> IF o \in ops THEN next_run(row, o, t) ELSE row.next[o]]
<1>1. nexts \in [Operations -> Times]
  BY NextRunIsAfter DEF Rows
<1>2. \A o \in Operations :
        nexts[o] = row.next[o] \/ (o \in ops /\ (nexts[o] = None \/ nexts[o] > t))
  BY NextRunIsAfter
<1>3. rescheduled(row, ops, t) = [row EXCEPT !.next = nexts]
  BY DEF rescheduled
<1> HIDE DEF nexts
<1>4. [row EXCEPT !.next = nexts] \in Rows
  BY <1>1 DEF Rows
<1>5. [row EXCEPT !.next = nexts].next = nexts /\ [row EXCEPT !.next = nexts].streak = row.streak
  BY DEF Rows
<1> QED
  BY <1>2, <1>3, <1>4, <1>5

\* No task is a task, with nothing due.
LEMMA NoTaskType == NoTask \in Tasks /\ NoTask.pc = "none" /\ \A o \in Operations : NoTask.due[o] = None
BY DEF NoTask, Tasks, Steps, Times

\* When an operation is over the task goes on with what else was due.
LEMMA NextOperation ==
  ASSUME NEW t \in Tasks, t.op \in Operations
  PROVE  LET r == Next_operation(t)
         IN  /\ r \in Tasks
             /\ r.pc \in {"none", "queued"}
             /\ r.pc = "queued" => \E o \in Operations : r.due[o] # None
             /\ \A o \in Operations : r.due[o] # None => o # t.op /\ r.due[o] = t.due[o]
<1> DEFINE left == [t.due EXCEPT ![t.op] = None]
<1>1. /\ left \in [Operations -> Times]
      /\ \A o \in Operations : left[o] # None => o # t.op /\ left[o] = t.due[o]
  BY DEF Tasks, Times
<1>2. Next_operation(t) = IF \A o \in Operations : left[o] = None THEN NoTask
                          ELSE [NoTask EXCEPT !.pc = "queued", !.due = left]
  BY DEF Next_operation
<1> HIDE DEF left
<1>3. CASE \A o \in Operations : left[o] = None
  BY <1>2, <1>3, NoTaskType
<1>4. CASE ~\A o \in Operations : left[o] = None
  <2> DEFINE r == [NoTask EXCEPT !.pc = "queued", !.due = left]
  <2>1. r \in Tasks /\ r.pc = "queued" /\ r.due = left
    BY <1>1, NoTaskType DEF Tasks, Steps
  <2> QED
    BY <1>1, <1>2, <1>4, <2>1
<1> QED
  BY <1>3, <1>4

\* A step of a task changes that task only, and no other process has any.
LEMMA StepEffect ==
  ASSUME TypeOK, LockInv, NEW p \in Procs, NEW u \in Users, NEW t \in Tasks,
         task[p][u].pc # "none", Step(p, u, t)
  PROVE  /\ task' \in [Procs -> [Users -> Tasks]]
         /\ task'[p][u] = t
         /\ \A q \in Procs, v \in Users : q # p \/ v # u => task'[q][v] = task[q][v]
         /\ lock = p
         /\ \A q \in Procs, v \in Users : q # p => task[q][v] = NoTask
<1>1. task \in [Procs -> [Users -> Tasks]] /\ task' = [task EXCEPT ![p][u] = t]
  BY DEF TypeOK, Step
<1>2. /\ task' \in [Procs -> [Users -> Tasks]]
      /\ task'[p][u] = t
      /\ \A q \in Procs, v \in Users : q # p \/ v # u => task'[q][v] = task[q][v]
  BY <1>1
<1>3. task[p][u] # NoTask
  BY NoTaskType
<1> QED
  BY <1>2, <1>3 DEF LockInv
\* The parts of the invariant that say more than types.
Parts ==
  /\ LockInv /\ TaskInv /\ DueInv /\ ServedInv /\ MoveInv /\ FillInv /\ StreakInv
  /\ OneWarningPerStreak

\* What a step that leaves the database alone may make of a task.
Follows(u, old, t) ==
  /\ t.pc # "log" /\ old.pc # "log"
  /\ Held(t)
  /\ t.pc \in {"move", "tally"} => t.read = settings[u]
  /\ \A o \in Operations : t.due[o] # None =>
       t.due[o] = old.due[o] /\ (MovedPast(old, o) => MovedPast(t, o))

\* A step that leaves the next runs and what was served alone, and gives no
\* task more to run, keeps ServedInv.
LEMMA ServedKept ==
  ASSUME ServedInv, now \in Nat, now' \in Nat, now' >= now, UNCHANGED <<served, overwritten>>,
         \A v \in Users, o \in Operations : settings'[v].next[o] = settings[v].next[o],
         \A q \in Procs, v \in Users, o \in Operations : task'[q][v].due[o] # None =>
           task'[q][v].due[o] = task[q][v].due[o]
           /\ (MovedPast(task[q][v], o) => MovedPast(task'[q][v], o))
  PROVE  ServedInv'
<1> SUFFICES ASSUME NEW v \in Users, NEW o \in Operations, NEW s \in Nat, <<v, o, s>> \in served
             PROVE  /\ s <= now'
                    /\ Intact(v, o) => After(settings'[v].next[o], s)
                    /\ \A q \in Procs : Intact(v, o) /\ task'[q][v].due[o] # None =>
                         MovedPast(task'[q][v], o) \/ s < task'[q][v].due[o]
  BY DEF ServedInv, Intact
<1>1. /\ s <= now
      /\ Intact(v, o) => After(settings[v].next[o], s)
      /\ \A q \in Procs : Intact(v, o) /\ task[q][v].due[o] # None =>
           MovedPast(task[q][v], o) \/ s < task[q][v].due[o]
  BY DEF ServedInv
<1> QED
  BY <1>1

\* A step of a task that leaves the database alone keeps the invariant.
LEMMA TaskMove ==
  ASSUME IInv, NEW p \in Procs, NEW u \in Users, NEW t \in Tasks,
         task[p][u].pc # "none", Step(p, u, t), Follows(u, task[p][u], t),
         UNCHANGED <<now, db, lock, procs, tickNow>>
  PROVE  Parts'
<1> USE DEF IInv, db, procs
<1>1. /\ task' \in [Procs -> [Users -> Tasks]]
      /\ task'[p][u] = t
      /\ \A q \in Procs, v \in Users : q # p \/ v # u => task'[q][v] = task[q][v]
      /\ lock = p
  BY StepEffect
<1>2. LockInv'
  BY <1>1 DEF LockInv, NoTask
<1>3. TaskInv'
  BY <1>1 DEF TaskInv, Follows, TypeOK
<1>4. DueInv'
  BY <1>1 DEF DueInv, Follows
<1>5. ServedInv'
  <2>1. \A q \in Procs, v \in Users, o \in Operations : task'[q][v].due[o] # None =>
          task'[q][v].due[o] = task[q][v].due[o]
          /\ (MovedPast(task[q][v], o) => MovedPast(task'[q][v], o))
    BY <1>1 DEF Follows
  <2> QED
    BY <2>1, ServedKept DEF TypeOK
<1>6. MoveInv'
  BY <1>1 DEF MoveInv, Moving, Intact, Follows
<1>b. FillInv'
  <2>1. \A q \in Procs, v \in Users, o \in Operations :
          task'[q][v].due[o] # None => task[q][v].due[o] # None
    BY <1>1 DEF Follows
  <2> QED
    BY <2>1 DEF FillInv, Known
<1>7. StreakInv'
  <2>1. ASSUME NEW q \in Procs, NEW v \in Users PROVE Counted(v, task[q][v])'
    <3>1. CASE q = p /\ v = u
      BY <1>1, <3>1 DEF Follows, Counted
    <3>2. CASE q # p \/ v # u
      BY <1>1, <3>2 DEF StreakInv, Counted, TypeOK
    <3> QED
      BY <3>1, <3>2
  <2> QED
    BY <2>1 DEF StreakInv
<1>8. OneWarningPerStreak'
  <2> SUFFICES ASSUME NEW v \in Users, settings[v].streak >= AlertStreak, warned[v] = 0, v \notin unlogged
               PROVE  \E q \in Procs : task'[q][v].pc = "log"
    BY DEF OneWarningPerStreak
  <2>1. PICK q \in Procs : task[q][v].pc = "log"
    BY DEF OneWarningPerStreak, TypeOK
  <2> QED
    BY <1>1, <2>1 DEF Follows
<1> QED
  BY <1>2, <1>3, <1>4, <1>5, <1>6, <1>b, <1>7, <1>8 DEF Parts

\* A change of settings that keeps the streaks, and that moves a next run past
\* the clock or takes it away, in columns that count as written, keeps the
\* invariant.
LEMMA SettingsMove ==
  ASSUME IInv, settings' \in [Users -> Rows],
         \A u \in Users : settings'[u].streak = settings[u].streak,
         \A u \in Users, o \in Operations :
           \/ settings'[u].next[o] = settings[u].next[o]
           \/ settings'[u].next[o] = None
           \/ settings'[u].next[o] > now,
         NEW columns \in SUBSET (Users \X Operations), Written(columns),
         \A u \in Users, o \in Operations :
           <<u, o>> \notin columns => settings'[u].next[o] = settings[u].next[o],
         UNCHANGED <<now, served, warned, unlogged, overwritten, lock, procs, tickNow, task>>
  PROVE  Parts' /\ stale' \in [Procs -> SUBSET (Users \X Operations)]
<1> USE DEF IInv
<1>0. UNCHANGED <<now, served, warned, unlogged, overwritten, lock, up, moves, tickNow, task>>
  BY DEF procs
<1>1. LockInv' /\ TaskInv' /\ DueInv'
  BY <1>0 DEF LockInv, TaskInv, DueInv
<1>2. ASSUME NEW u \in Users, NEW o \in Operations, NEW t \in Nat, t <= now, After(settings[u].next[o], t)
      PROVE  After(settings'[u].next[o], t)
  <2>1. now \in Nat /\ settings[u].next[o] \in Times /\ settings'[u].next[o] \in Times
    BY DEF TypeOK, Rows
  <2> QED
    BY <1>2, <2>1 DEF After, Times
<1>3. ServedInv'
  BY <1>0, <1>2 DEF ServedInv, Intact
<1>4. MoveInv'
  <2> SUFFICES ASSUME NEW p \in Procs, NEW u \in Users, task[p][u].pc = "move", Intact(u, task[p][u].op)
               PROVE  LET t == task[p][u]
                      IN  settings'[u].next[t.op] = t.read.next[t.op] \/ After(settings'[u].next[t.op], tickNow[p])
    BY <1>0 DEF MoveInv, Moving, Intact
  <2> DEFINE o == task[p][u].op
  <2>1. o \in Operations /\ tickNow[p] \in Nat /\ tickNow[p] <= now /\ now \in Nat
    <3>1. lock = p
      BY NoTaskType DEF LockInv
    <3> QED
      BY <3>1 DEF TaskInv, Held, TypeOK, LockInv, Times
  <2>2. settings[u].next[o] = task[p][u].read.next[o] \/ After(settings[u].next[o], tickNow[p])
    BY DEF MoveInv, Moving
  <2>3. settings'[u].next[o] > now => After(settings'[u].next[o], tickNow[p])
    <3>1. settings'[u].next[o] \in Times
      BY <2>1 DEF Rows
    <3> QED
      BY <2>1, <3>1 DEF After, Times
  <2> QED
    BY <1>2, <2>1, <2>2, <2>3 DEF After
<1>5. StreakInv' /\ OneWarningPerStreak'
  BY <1>0 DEF StreakInv, Counted, OneWarningPerStreak
<1>6. /\ stale' \in [Procs -> SUBSET (Users \X Operations)]
      /\ \A p \in Procs : p \notin up /\ tickNow[p] # None => stale'[p] = stale[p] \cup columns
  BY DEF Written, TypeOK
<1>7. FillInv'
  <2>1. ASSUME NEW p \in Procs, NEW u \in Users, NEW o \in Operations,
               p \notin up, tickNow[p] # None, <<u, o>> \notin stale'[p]
        PROVE  Known(p, u, o)'
    <3>1. <<u, o>> \notin stale[p] /\ settings'[u].next[o] = settings[u].next[o]
      BY <1>6, <2>1
    <3>2. Known(p, u, o)
      BY <2>1, <3>1 DEF FillInv
    <3> QED
      BY <1>0, <3>1, <3>2 DEF Known
  <2>2. \A p \in Procs : moves[p] # None => p \notin up /\ tickNow[p] # None
    BY DEF FillInv
  <2> QED
    BY <1>0, <2>1, <2>2 DEF FillInv
<1> QED
  BY <1>1, <1>3, <1>4, <1>5, <1>6, <1>7 DEF Parts

\* The initial state satisfies the invariant: nothing runs, nothing is served.
LEMMA InvInit == Init => IInv
<1> SUFFICES ASSUME Init PROVE IInv
  OBVIOUS
<1>1. \A u \in Users : settings[u] \in Rows /\ settings[u].streak = 0
  <2>1. PICK l \in Lengths :
          settings \in [Users -> {Defaults(l), [Defaults(l) EXCEPT !.enabled = TRUE]}]
    BY DEF Init
  <2> DEFINE d == Defaults(l)
  <2>2. d \in Rows /\ d.streak = 0
    BY DEF Defaults, Rows, Times
  <2> HIDE DEF d
  <2>3. [d EXCEPT !.enabled = TRUE] \in Rows /\ [d EXCEPT !.enabled = TRUE].streak = 0
    BY <2>2 DEF Rows
  <2>4. settings \in [Users -> {d, [d EXCEPT !.enabled = TRUE]}]
    BY <2>1 DEF d
  <2> QED
    BY <2>2, <2>3, <2>4
<1>2. settings \in [Users -> Rows]
  BY <1>1 DEF Init
<1>3. TypeOK
  BY <1>2, NoTaskType DEF Init, TypeOK, Times
<1>4. LockInv /\ TaskInv /\ DueInv /\ ServedInv /\ MoveInv /\ FillInv /\ StreakInv
  <2>1. LockInv /\ TaskInv /\ DueInv /\ ServedInv
    BY NoTaskType, SchedulerConstants DEF Init, LockInv, TaskInv, Held, DueInv, ServedInv
  <2>2. MoveInv /\ FillInv /\ StreakInv
    BY NoTaskType DEF Init, MoveInv, Moving, FillInv, StreakInv, Counted
  <2> QED
    BY <2>1, <2>2
<1>5. OneWarningPerStreak
  BY <1>1, SchedulerConstants DEF Init, OneWarningPerStreak
<1> QED
  BY <1>3, <1>4, <1>5 DEF IInv

\* A step of Work that leaves the database alone, told by the task it makes.
LEMMA WorkMove ==
  ASSUME IInv, NEW p \in Procs, NEW u \in Users, NEW t \in Tasks,
         task[p][u].pc # "none", Step(p, u, t), Follows(u, task[p][u], t),
         userLock' \in [Users -> Procs \cup {Nobody, Request}],
         UNCHANGED <<now, db, lock, procs, tickNow, counters>>
  PROVE  IInv'
<1>1. task' \in [Procs -> [Users -> Tasks]]
  BY StepEffect DEF IInv
<1>2. TypeOK'
  BY <1>1 DEF IInv, TypeOK, db, procs, counters
<1>3. Parts'
  BY TaskMove
<1> QED
  BY <1>2, <1>3 DEF IInv, Parts

\* `_operate`: the settings are read and the operation chosen.
LEMMA OperateStep ==
  ASSUME IInv, NEW p \in Procs, NEW u \in Users, Operate(p, u)
  PROVE  IInv'
<1> DEFINE old == task[p][u]
           o == First(old)
           pc1 == IF o = REBALANCE \/ settings[u].enabled THEN "run" ELSE "advance"
           t == [old EXCEPT !.op = o, !.pc = pc1]
<1>1. old \in Tasks /\ old.pc = "queued" /\ Held(old)
  BY DEF IInv, TypeOK, TaskInv, Operate
<1>2. o \in Operations /\ old.due[o] # None
  BY <1>1 DEF First, Held, Operations
<1>3. pc1 \in {"run", "advance"}
  OBVIOUS
<1> HIDE DEF pc1, o
<1>4. t \in Tasks /\ t.pc = pc1 /\ t.op = o /\ t.due = old.due
  BY <1>1, <1>2, <1>3 DEF Tasks, Steps
<1> HIDE DEF t
<1>5. Follows(u, old, t)
  BY <1>1, <1>2, <1>3, <1>4 DEF Follows, Held, MovedPast
<1>6. Step(p, u, t) /\ userLock' \in [Users -> Procs \cup {Nobody, Request}]
      /\ UNCHANGED <<now, db, lock, procs, tickNow, counters>>
  BY DEF Operate, t, o, pc1, locks, IInv, TypeOK
<1> HIDE DEF old
<1>7. task[p][u].pc # "none" /\ Follows(u, task[p][u], t)
  BY <1>1, <1>5 DEF old
<1> QED
  BY <1>4, <1>6, <1>7, WorkMove

\* The steps of `evaluate`: the user's lock is taken, refused or given back.
LEMMA RunSteps ==
  ASSUME IInv, NEW p \in Procs, NEW u \in Users,
         Run(p, u) \/ RunBusy(p, u) \/ RunNotReady(p, u) \/ RunEnds(p, u)
  PROVE  IInv'
<1> DEFINE old == task[p][u]
<1>1. old \in Tasks /\ Held(old) /\ old.pc \in {"run", "evaluating"}
  BY DEF IInv, TypeOK, TaskInv, Run, RunBusy, RunNotReady, RunEnds
<1>2. PICK t \in Tasks : Step(p, u, t) /\ Follows(u, old, t)
  <2>1. CASE RunBusy(p, u)
    <3> DEFINE t == Next_operation(old)
    <3>1. /\ t \in Tasks /\ t.pc \in {"none", "queued"}
          /\ t.pc = "queued" => \E o \in Operations : t.due[o] # None
          /\ \A o \in Operations : t.due[o] # None => o # old.op /\ t.due[o] = old.due[o]
      BY <1>1, NextOperation DEF Held
    <3>2. Step(p, u, t)
      BY <2>1 DEF RunBusy
    <3> HIDE DEF t
    <3>3. Follows(u, old, t)
      BY <1>1, <3>1 DEF Follows, Held, MovedPast
    <3> QED
      BY <3>1, <3>2, <3>3
  <2>2. CASE Run(p, u) \/ RunNotReady(p, u) \/ RunEnds(p, u)
    <3>1. PICK pc1 \in {"evaluating", "advance"}, out \in {"ok", "failed", "uncounted"} :
            Step(p, u, [old EXCEPT !.pc = pc1, !.outcome = out])
      <4>1. ASSUME NEW pc1 PROVE [old EXCEPT !.pc = pc1] = [old EXCEPT !.pc = pc1, !.outcome = old.outcome]
        BY <1>1 DEF Tasks
      <4>2. old.outcome \in {"ok", "failed", "uncounted"}
        BY <1>1 DEF Tasks
      <4>3. CASE Run(p, u)
        BY <4>1, <4>2, <4>3 DEF Run
      <4>4. CASE RunNotReady(p, u)
        BY <4>1, <4>2, <4>4 DEF RunNotReady, unready
      <4>5. CASE RunEnds(p, u)
        BY <4>5 DEF RunEnds
      <4> QED
        BY <2>2, <4>3, <4>4, <4>5
    <3> DEFINE t == [old EXCEPT !.pc = pc1, !.outcome = out]
    <3>2. t \in Tasks /\ t.pc = pc1 /\ t.op = old.op /\ t.due = old.due
      BY <1>1 DEF Tasks, Steps
    <3>3. Step(p, u, t)
      BY <3>1
    <3> HIDE DEF t
    <3>4. Follows(u, old, t)
      BY <1>1, <3>2 DEF Follows, Held, MovedPast
    <3> QED
      BY <3>2, <3>3, <3>4
  <2> QED
    BY <2>1, <2>2
<1>3. /\ userLock' \in [Users -> Procs \cup {Nobody, Request}]
      /\ UNCHANGED <<now, db, lock, procs, tickNow, counters>>
  BY DEF Run, RunBusy, RunNotReady, RunEnds, locks, IInv, TypeOK
<1> QED
  BY <1>1, <1>2, <1>3, WorkMove

\* `_advance` and `_count` read the row.
LEMMA ReadSteps ==
  ASSUME IInv, NEW p \in Procs, NEW u \in Users, AdvanceRead(p, u) \/ CountRead(p, u)
  PROVE  IInv'
<1> DEFINE old == task[p][u]
<1>1. old \in Tasks /\ Held(old) /\ settings[u] \in Rows
  BY DEF IInv, TypeOK, TaskInv
<1>2. PICK pc1 \in {"move", "tally"} :
        /\ Step(p, u, [old EXCEPT !.pc = pc1, !.read = settings[u]])
        /\ old.pc = IF pc1 = "move" THEN "advance" ELSE "count"
  <2>1. CASE AdvanceRead(p, u)
    BY <2>1 DEF AdvanceRead
  <2>2. CASE CountRead(p, u)
    BY <2>2 DEF CountRead
  <2> QED
    BY <2>1, <2>2
<1> DEFINE t == [old EXCEPT !.pc = pc1, !.read = settings[u]]
<1>3. /\ t \in Tasks /\ t.pc = pc1 /\ t.op = old.op /\ t.due = old.due
      /\ t.read = settings[u] /\ t.outcome = old.outcome
  BY <1>1 DEF Tasks, Steps
<1>4. Step(p, u, t) /\ userLock' \in [Users -> Procs \cup {Nobody, Request}]
      /\ UNCHANGED <<now, db, lock, procs, tickNow, counters>>
  BY <1>2 DEF AdvanceRead, CountRead, locks, IInv, TypeOK
<1> HIDE DEF t
<1>5. Follows(u, old, t)
  BY <1>1, <1>2, <1>3 DEF Follows, Held, MovedPast
<1> QED
  BY <1>2, <1>3, <1>4, <1>5, WorkMove

\* `_advance` writes: the slot is served and the next run is behind neither
\* the tick nor, therefore, any slot served so far.
LEMMA AdvanceStep ==
  ASSUME IInv, NEW p \in Procs, NEW u \in Users, Advance(p, u)
  PROVE  IInv'
<1> DEFINE old == task[p][u]
           o == old.op
           to == next_run(old.read, o, tickNow[p])
           t == IF old.outcome = "uncounted" THEN Next_operation(old)
                ELSE [old EXCEPT !.pc = "count", !.read = None]
<1>1. /\ old \in Tasks /\ Held(old) /\ old.pc = "move" /\ o \in Operations
      /\ old.read \in Rows /\ old.due[o] # None /\ settings[u] \in Rows
      /\ tickNow[p] \in Nat /\ now \in Nat /\ tickNow[p] <= now
  <2>1. /\ old \in Tasks /\ Held(old) /\ old.pc = "move" /\ o \in Operations
        /\ old.read \in Rows /\ old.due[o] # None /\ settings[u] \in Rows
    BY DEF IInv, TypeOK, TaskInv, Held, Advance
  <2>2. lock = p
    BY <2>1, NoTaskType DEF IInv, LockInv
  <2> QED
    BY <2>1, <2>2 DEF IInv, TypeOK, LockInv, Times
<1>2. old.due[o] \in Nat /\ old.due[o] <= tickNow[p]
  BY <1>1 DEF IInv, DueInv, Tasks, Times
<1>3. to \in Times /\ (to = None \/ to > tickNow[p])
  BY <1>1, NextRunIsAfter
<1>4. /\ settings' = IF to = old.read.next[o] THEN settings
                      ELSE [settings EXCEPT ![u].next[o] = to]
      /\ IF to = old.read.next[o] THEN stale' = stale ELSE Written({<<u, o>>})
      /\ Step(p, u, t)
  BY DEF Advance
<1>a. /\ served' = served \cup {<<u, o, old.due[o]>>}
      /\ UNCHANGED <<now, warned, unlogged, resumed, overwritten, lock, userLock, up, moves,
                     tickNow, patches, requests, faults>>
  BY DEF Advance, locks, procs, counters
<1>5. /\ t \in Tasks /\ Held(t) /\ t.pc \in {"none", "queued", "count"}
      /\ \A x \in Operations : t.due[x] # None =>
           t.due[x] = old.due[x] /\ (x = o => MovedPast(t, x))
  <2>1. CASE old.outcome = "uncounted"
    <3> DEFINE r == Next_operation(old)
    <3>1. /\ r \in Tasks /\ r.pc \in {"none", "queued"}
          /\ r.pc = "queued" => \E x \in Operations : r.due[x] # None
          /\ \A x \in Operations : r.due[x] # None => x # o /\ r.due[x] = old.due[x]
      BY <1>1, NextOperation
    <3> HIDE DEF r
    <3>2. Held(r)
      BY <3>1 DEF Held
    <3> QED
      BY <2>1, <3>1, <3>2 DEF r
  <2>2. CASE old.outcome # "uncounted"
    <3> DEFINE r == [old EXCEPT !.pc = "count", !.read = None]
    <3>1. /\ r \in Tasks /\ r.pc = "count" /\ r.op = o /\ r.due = old.due
          /\ r.outcome = old.outcome /\ r.outcome \in {"ok", "failed"}
      BY <1>1, <2>2 DEF Tasks, Steps
    <3> HIDE DEF r
    <3>2. Held(r)
      BY <1>1, <3>1 DEF Held
    <3> QED
      BY <2>2, <3>1, <3>2 DEF r, MovedPast
  <2> QED
    BY <2>1, <2>2
<1> HIDE DEF t, to
<1>6. /\ task' \in [Procs -> [Users -> Tasks]]
      /\ task'[p][u] = t
      /\ \A q \in Procs, v \in Users : q # p \/ v # u => task'[q][v] = task[q][v]
      /\ lock = p
      /\ \A q \in Procs, v \in Users : q # p => task[q][v] = NoTask
  BY <1>1, <1>4, <1>5, StepEffect DEF IInv
<1>7. /\ settings' \in [Users -> Rows]
      /\ settings'[u].streak = settings[u].streak
      /\ \A v \in Users : v # u => settings'[v] = settings[v]
      /\ \A x \in Operations : x # o => settings'[u].next[x] = settings[u].next[x]
      /\ settings'[u].next[o] =
           IF to = old.read.next[o] THEN settings[u].next[o] ELSE to
  <2>0. settings \in [Users -> Rows]
    BY DEF IInv, TypeOK
  <2>1. CASE to = old.read.next[o]
    BY <1>4, <2>0, <2>1
  <2>2. CASE to # old.read.next[o]
    <3> DEFINE row == [settings[u] EXCEPT !.next[o] = to]
    <3>1. row \in Rows /\ row.streak = settings[u].streak
      BY <1>1, <1>3 DEF Rows
    <3>2. row.next[o] = to /\ \A x \in Operations : x # o => row.next[x] = settings[u].next[x]
      BY <1>1 DEF Rows
    <3>3. settings' = [settings EXCEPT ![u] = row]
      BY <1>4, <2>0, <2>2
    <3> HIDE DEF row
    <3> QED
      BY <2>0, <2>2, <3>1, <3>2, <3>3
  <2> QED
    BY <2>1, <2>2
<1>8. Intact(u, o) => After(settings'[u].next[o], tickNow[p])
  <2>1. Intact(u, o) => settings[u].next[o] = old.read.next[o] \/ After(settings[u].next[o], tickNow[p])
    BY <1>1 DEF IInv, MoveInv, Moving, Intact
  <2> QED
    BY <1>3, <1>a, <1>7, <2>1 DEF After
<1>b. stale' \in [Procs -> SUBSET (Users \X Operations)]
  <2>1. stale \in [Procs -> SUBSET (Users \X Operations)]
    BY DEF IInv, TypeOK
  <2>2. CASE to = old.read.next[o]
    BY <1>4, <2>1, <2>2
  <2>3. CASE to # old.read.next[o]
    BY <1>1, <1>4, <2>1, <2>3 DEF Written
  <2> QED
    BY <2>2, <2>3
<1>9. TypeOK'
  BY <1>1, <1>2, <1>a, <1>b, <1>6, <1>7 DEF IInv, TypeOK
<1>10. LockInv'
  BY <1>a, <1>6 DEF IInv, LockInv
<1>11. TaskInv'
  BY <1>5, <1>6 DEF IInv, TaskInv
<1>12. DueInv'
  <2> SUFFICES ASSUME NEW q \in Procs, NEW v \in Users, NEW x \in Operations, task'[q][v].due[x] # None
               PROVE  task'[q][v].due[x] <= tickNow[q]
    BY <1>a DEF DueInv
  <2>1. CASE q # p \/ v # u
    BY <1>6, <2>1 DEF IInv, DueInv
  <2>2. CASE q = p /\ v = u
    BY <1>5, <1>6, <2>2 DEF IInv, DueInv
  <2> QED
    BY <2>1, <2>2
<1>13. ServedInv'
  <2> SUFFICES ASSUME NEW v \in Users, NEW x \in Operations, NEW s \in Nat, <<v, x, s>> \in served'
               PROVE  /\ s <= now
                      /\ Intact(v, x) => After(settings'[v].next[x], s)
                      /\ \A q \in Procs : Intact(v, x) /\ task'[q][v].due[x] # None =>
                           MovedPast(task'[q][v], x) \/ s < task'[q][v].due[x]
    BY <1>a DEF ServedInv, Intact
  <2>1. CASE v = u /\ x = o
    <3>1. s <= now /\ (Intact(u, o) => s <= tickNow[p])
      <4>1. CASE s = old.due[o]
        BY <1>1, <1>2, <4>1
      <4>2. CASE s # old.due[o]
        <5>1. <<u, o, s>> \in served
          BY <1>a, <2>1, <4>2
        <5>2. s <= now /\ (Intact(u, o) => s < old.due[o])
          BY <1>1, <5>1 DEF IInv, ServedInv, MovedPast
        <5> QED
          BY <1>1, <1>2, <5>2
      <4> QED
        BY <4>1, <4>2
    <3>2. Intact(u, o) => After(settings'[u].next[o], s)
      <4>1. settings'[u].next[o] \in Times
        BY <1>1, <1>7 DEF Rows
      <4> QED
        BY <1>1, <1>8, <3>1, <4>1 DEF After, Times
    <3>3. \A q \in Procs : task'[q][u].due[o] # None => MovedPast(task'[q][u], o)
      BY <1>1, <1>5, <1>6, NoTaskType
    <3> QED
      BY <2>1, <3>1, <3>2, <3>3
  <2>2. CASE v # u \/ x # o
    <3>1. <<v, x, s>> \in served /\ settings'[v].next[x] = settings[v].next[x]
      BY <1>a, <1>7, <2>2
    <3>2. ASSUME NEW q \in Procs, task'[q][v].due[x] # None
          PROVE  /\ task[q][v].due[x] = task'[q][v].due[x]
                 /\ MovedPast(task[q][v], x) => MovedPast(task'[q][v], x)
      <4>1. CASE q = p /\ v = u
        BY <1>1, <1>5, <1>6, <2>2, <3>2, <4>1 DEF MovedPast
      <4>2. CASE q # p \/ v # u
        BY <1>6, <4>2
      <4> QED
        BY <4>1, <4>2
    <3>3. /\ s <= now
          /\ Intact(v, x) => After(settings[v].next[x], s)
          /\ \A q \in Procs : Intact(v, x) /\ task[q][v].due[x] # None =>
               MovedPast(task[q][v], x) \/ s < task[q][v].due[x]
      BY <3>1 DEF IInv, ServedInv
    <3> QED
      BY <3>1, <3>2, <3>3
  <2> QED
    BY <2>1, <2>2
<1>c. FillInv'
  <2>1. ASSUME NEW q \in Procs, NEW v \in Users, NEW x \in Operations,
               q \notin up, tickNow[q] # None, <<v, x>> \notin stale'[q]
        PROVE  Known(q, v, x)'
    <3>1. <<v, x>> \notin stale[q] /\ settings'[v].next[x] = settings[v].next[x]
      <4>1. CASE to = old.read.next[o]
        BY <1>4, <2>1, <4>1
      <4>2. CASE to # old.read.next[o]
        <5>1. stale'[q] = stale[q] \cup {<<u, o>>}
          BY <1>4, <2>1, <4>2 DEF Written
        <5>2. <<v, x>> # <<u, o>> /\ <<v, x>> \notin stale[q]
          BY <2>1, <5>1
        <5> QED
          BY <1>7, <5>2
      <4> QED
        BY <4>1, <4>2
    <3>2. Known(q, v, x)
      BY <2>1, <3>1 DEF IInv, FillInv
    <3>3. \A r \in Procs : task'[r][v].due[x] # None => task[r][v].due[x] # None
      BY <1>5, <1>6
    <3>4. ASSUME settings[v].next[x] = None, NEW s \in Nat, <<v, x, s>> \in served'
          PROVE  s <= tickNow[q]
      <4>1. CASE <<v, x, s>> \in served
        BY <3>2, <3>4, <4>1 DEF Known
      <4>2. CASE v = u /\ x = o /\ s = old.due[o]
        <5>1. tickNow[p] <= tickNow[q] /\ tickNow[q] \in Nat
          BY <1>1, <2>1, <3>2, <3>4, <4>2 DEF Known, IInv, TypeOK, Times
        <5> QED
          BY <1>1, <1>2, <4>2, <5>1
      <4> QED
        BY <1>a, <3>4, <4>1, <4>2
    <3> QED
      BY <1>a, <3>1, <3>2, <3>3, <3>4 DEF Known
  <2>2. \A q \in Procs : moves[q] # None => q \notin up /\ tickNow[q] # None
    BY DEF IInv, FillInv
  <2> QED
    BY <1>a, <2>1, <2>2 DEF FillInv
<1>14. MoveInv'
  <2> SUFFICES ASSUME NEW q \in Procs, NEW v \in Users, task'[q][v].pc = "move"
               PROVE  Moving(q, v, task[q][v])'
    BY DEF MoveInv, Moving
  <2>1. v # u /\ task'[q][v] = task[q][v] /\ settings'[v] = settings[v]
    BY <1>5, <1>6, <1>7, NoTaskType
  <2>2. Moving(q, v, task[q][v])
    BY DEF IInv, MoveInv
  <2> QED
    BY <1>a, <2>1, <2>2 DEF Moving, Intact
<1>15. StreakInv'
  <2>1. ASSUME NEW q \in Procs, NEW v \in Users PROVE Counted(v, task[q][v])'
    <3>1. settings'[v].streak = settings[v].streak
      BY <1>7
    <3>2. CASE q = p /\ v = u
      BY <1>5, <1>6, <3>2 DEF Counted
    <3>3. CASE q # p \/ v # u
      BY <1>a, <1>6, <3>1, <3>3 DEF IInv, StreakInv, Counted
    <3> QED
      BY <3>2, <3>3
  <2> QED
    BY <2>1 DEF StreakInv
<1>16. OneWarningPerStreak'
  <2> SUFFICES ASSUME NEW v \in Users
               PROVE  /\ warned[v] <= IF settings[v].streak >= AlertStreak THEN 1 ELSE 0
                      /\ settings[v].streak >= AlertStreak /\ warned[v] = 0 =>
                           v \in unlogged \/ \E q \in Procs : task'[q][v].pc = "log"
    BY <1>a, <1>7 DEF OneWarningPerStreak
  <2>1. \A q \in Procs : task[q][v].pc = "log" => task'[q][v].pc = "log"
    BY <1>1, <1>6
  <2> QED
    BY <2>1 DEF IInv, OneWarningPerStreak
<1> QED
  BY <1>9, <1>10, <1>11, <1>12, <1>13, <1>14, <1>c, <1>15, <1>16 DEF IInv

\* What the steps of `_count` leave alone, once the task they make is known.
LEMMA CountMove ==
  ASSUME IInv, NEW p \in Procs, NEW u \in Users, NEW t \in Tasks,
         task[p][u].pc \in {"tally", "log"}, Step(p, u, t), Held(t), t.pc # "move",
         \A o \in Operations : t.due[o] # None =>
           t.due[o] = task[p][u].due[o] /\ (MovedPast(task[p][u], o) => MovedPast(t, o)),
         settings' \in [Users -> Rows], warned' \in [Users -> Nat],
         unlogged' \subseteq Users,
         \A v \in Users : v # u =>
           settings'[v] = settings[v] /\ warned'[v] = warned[v] /\ (v \in unlogged' <=> v \in unlogged),
         settings'[u].next = settings[u].next,
         Counted(u, task[p][u])',
         warned'[u] <= IF settings'[u].streak >= AlertStreak THEN 1 ELSE 0,
         settings'[u].streak >= AlertStreak /\ warned'[u] = 0 => u \in unlogged' \/ t.pc = "log",
         UNCHANGED <<now, served, resumed, stale, overwritten, locks, procs, tickNow, counters>>
  PROVE  IInv'
<1> USE DEF IInv
<1>0. UNCHANGED <<now, served, resumed, stale, overwritten, lock, userLock, up, moves, tickNow,
                 patches, requests, faults>>
  BY DEF locks, procs, counters
<1>1. /\ task' \in [Procs -> [Users -> Tasks]]
      /\ task'[p][u] = t
      /\ \A q \in Procs, v \in Users : q # p \/ v # u => task'[q][v] = task[q][v]
      /\ lock = p
      /\ \A q \in Procs, v \in Users : q # p => task[q][v] = NoTask
  BY StepEffect
<1>2. TypeOK'
  BY <1>0, <1>1 DEF TypeOK
<1>3. LockInv' /\ TaskInv'
  BY <1>0, <1>1 DEF LockInv, TaskInv
<1>4. DueInv'
  BY <1>0, <1>1 DEF DueInv
<1>a. /\ \A v \in Users : settings'[v].next = settings[v].next
      /\ \A q \in Procs, v \in Users, o \in Operations : task'[q][v].due[o] # None =>
           task'[q][v].due[o] = task[q][v].due[o]
           /\ (MovedPast(task[q][v], o) => MovedPast(task'[q][v], o))
  BY <1>1
<1>5. ServedInv'
  BY <1>0, <1>a, ServedKept DEF TypeOK
<1>b. FillInv'
  <2>1. ASSUME NEW q \in Procs, NEW v \in Users, NEW o \in Operations,
               q \notin up, tickNow[q] # None, <<v, o>> \notin stale[q]
        PROVE  Known(q, v, o)'
    <3>1. Known(q, v, o) /\ settings'[v].next[o] = settings[v].next[o]
      BY <1>a, <2>1 DEF FillInv
    <3> QED
      BY <1>0, <1>a, <3>1 DEF Known
  <2>2. \A q \in Procs : moves[q] # None => q \notin up /\ tickNow[q] # None
    BY DEF FillInv
  <2> QED
    BY <1>0, <2>1, <2>2 DEF FillInv
<1>6. MoveInv'
  <2>1. ASSUME NEW q \in Procs, NEW v \in Users PROVE Moving(q, v, task[q][v])'
    <3>1. CASE q = p /\ v = u
      BY <1>1, <3>1 DEF Moving
    <3>2. CASE q # p
      BY <1>1, <3>2, NoTaskType DEF Moving
    <3>3. CASE v # u
      <4>1. task'[q][v] = task[q][v] /\ settings'[v] = settings[v] /\ tickNow' = tickNow
        BY <1>0, <1>1, <3>3
      <4>2. Moving(q, v, task[q][v])
        BY DEF MoveInv
      <4> QED
        BY <1>0, <4>1, <4>2 DEF Moving, Intact
    <3> QED
      BY <3>1, <3>2, <3>3
  <2> QED
    BY <2>1 DEF MoveInv
<1>7. StreakInv'
  <2>1. ASSUME NEW q \in Procs, NEW v \in Users PROVE Counted(v, task[q][v])'
    <3>1. CASE q = p /\ v = u
      BY <1>1, <3>1 DEF Counted
    <3>2. CASE q # p
      BY <1>1, <3>2, NoTaskType DEF Counted
    <3>3. CASE v # u
      BY <1>0, <1>1, <3>3 DEF StreakInv, Counted
    <3> QED
      BY <3>1, <3>2, <3>3
  <2> QED
    BY <2>1 DEF StreakInv
<1>8. OneWarningPerStreak'
  <2> SUFFICES ASSUME NEW v \in Users
               PROVE  /\ warned'[v] <= IF settings'[v].streak >= AlertStreak THEN 1 ELSE 0
                      /\ settings'[v].streak >= AlertStreak /\ warned'[v] = 0 =>
                           v \in unlogged' \/ \E q \in Procs : task'[q][v].pc = "log"
    BY DEF OneWarningPerStreak
  <2>1. CASE v = u
    BY <1>0, <1>1, <2>1
  <2>2. CASE v # u
    <3>1. \A q \in Procs : task'[q][v] = task[q][v]
      BY <1>1, <2>2
    <3> QED
      BY <1>0, <2>2, <3>1 DEF OneWarningPerStreak
  <2> QED
    BY <2>1, <2>2
<1> QED
  BY <1>2, <1>3, <1>4, <1>5, <1>6, <1>b, <1>7, <1>8

\* `_count` writes the streak.  What it read is what the row holds, so the row
\* gets the next streak, and the log step is owed a warning on the edge only.
LEMMA CountStep ==
  ASSUME IInv, NEW p \in Procs, NEW u \in Users, Count(p, u)
  PROVE  IInv'
<1> DEFINE old == task[p][u]
           before == old.read.streak
           streak == after(before, old.outcome)
           t == [old EXCEPT !.pc = "log"]
<1>1. /\ old \in Tasks /\ Held(old) /\ old.pc = "tally" /\ old.read \in Rows
      /\ old.outcome \in {"ok", "failed"} /\ before = settings[u].streak
      /\ settings[u] \in Rows /\ before \in Nat /\ streak \in Nat /\ warned[u] \in Nat
  <2>1. /\ old \in Tasks /\ Held(old) /\ old.pc = "tally"
        /\ settings[u] \in Rows /\ warned[u] \in Nat /\ Counted(u, old)
    BY DEF IInv, TypeOK, TaskInv, StreakInv, Count
  <2>2. old.read \in Rows /\ old.outcome \in {"ok", "failed"} /\ before = settings[u].streak
    BY <2>1 DEF Held, Counted
  <2>3. before \in Nat
    BY <2>2 DEF Rows
  <2> QED
    BY <2>1, <2>2, <2>3 DEF after
<1>2. AlertStreak \in Nat \ {0} /\ unlogged \subseteq Users
  BY SchedulerConstants DEF IInv, TypeOK
<1>3. /\ t \in Tasks /\ t.pc = "log" /\ t.op = old.op /\ t.due = old.due
      /\ t.read = old.read /\ t.outcome = old.outcome
  BY <1>1 DEF Tasks, Steps
<1>4. Step(p, u, t) /\ UNCHANGED <<now, served, resumed, stale, overwritten, locks, procs, tickNow, counters>>
  BY DEF Count
<1> HIDE DEF t
<1>5. Held(t) /\ \A o \in Operations : MovedPast(t, o) = MovedPast(old, o)
  BY <1>1, <1>3 DEF Held, MovedPast
<1>6. /\ settings' \in [Users -> Rows]
      /\ settings'[u].next = settings[u].next /\ settings'[u].streak = streak
      /\ \A v \in Users : v # u => settings'[v] = settings[v]
  <2> DEFINE row == [settings[u] EXCEPT !.streak = streak]
  <2>1. row \in Rows /\ row.next = settings[u].next /\ row.streak = streak
    BY <1>1 DEF Rows
  <2>2. settings \in [Users -> Rows]
    BY DEF IInv, TypeOK
  <2>3. (settings' = settings /\ streak = before) \/ settings' = [settings EXCEPT ![u] = row]
    BY <2>2 DEF Count
  <2> HIDE DEF row
  <2> QED
    BY <1>1, <2>1, <2>2, <2>3
<1>7. /\ warned' \in [Users -> Nat]
      /\ warned'[u] = IF streak = 0 THEN 0 ELSE warned[u]
      /\ \A v \in Users : v # u => warned'[v] = warned[v]
      /\ unlogged' = IF streak = 0 THEN unlogged \ {u} ELSE unlogged
  BY DEF Count, IInv, TypeOK
<1>8. /\ warned[u] <= IF before >= AlertStreak THEN 1 ELSE 0
      /\ before >= AlertStreak /\ warned[u] = 0 => u \in unlogged
  <2>1. \A q \in Procs : task[q][u].pc # "log"
    <3>1. old # NoTask
      BY <1>1, NoTaskType
    <3> QED
      BY <1>1, <3>1, NoTaskType DEF IInv, LockInv
  <2> QED
    BY <1>1, <2>1 DEF IInv, OneWarningPerStreak
<1>9. /\ Crosses(before, old.outcome) => warned'[u] = 0
      /\ ~Crosses(before, old.outcome) /\ streak >= AlertStreak /\ warned'[u] = 0 => u \in unlogged'
      /\ warned'[u] <= IF streak >= AlertStreak THEN 1 ELSE 0
  BY <1>1, <1>2, <1>7, <1>8 DEF Crosses, after
<1>10. Counted(u, task[p][u])'
  <2>1. task'[p][u] = t
    BY <1>1, <1>3, <1>4, StepEffect DEF IInv
  <2> QED
    BY <1>3, <1>4, <1>6, <1>9, <2>1 DEF Counted
<1>11. /\ unlogged' \subseteq Users
       /\ \A v \in Users : v # u => (v \in unlogged' <=> v \in unlogged)
  BY <1>2, <1>7
<1> QED
  BY <1>1, <1>3, <1>4, <1>5, <1>6, <1>7, <1>9, <1>10, <1>11, CountMove

\* The warning is logged, on the edge only, and the task goes on.
LEMMA LogStep ==
  ASSUME IInv, NEW p \in Procs, NEW u \in Users, Log(p, u)
  PROVE  IInv'
<1> DEFINE old == task[p][u]
           t == Next_operation(old)
           crosses == Crosses(old.read.streak, old.outcome)
<1>1. /\ old \in Tasks /\ Held(old) /\ old.pc = "log" /\ old.op \in Operations
      /\ Counted(u, old) /\ settings[u].streak \in Nat /\ warned[u] \in Nat
  BY DEF IInv, TypeOK, TaskInv, StreakInv, Held, Log, Rows
<1>2. AlertStreak \in Nat \ {0} /\ unlogged \subseteq Users
  BY SchedulerConstants DEF IInv, TypeOK
<1>3. /\ t \in Tasks /\ t.pc \in {"none", "queued"}
      /\ t.pc = "queued" => \E o \in Operations : t.due[o] # None
      /\ \A o \in Operations : t.due[o] # None => o # old.op /\ t.due[o] = old.due[o]
  BY <1>1, NextOperation
<1>4. /\ Step(p, u, t)
      /\ UNCHANGED <<now, settings, served, unlogged, resumed, stale, overwritten, locks, procs,
                     tickNow, counters>>
  BY DEF Log
<1>5. /\ warned' \in [Users -> Nat]
      /\ warned'[u] = IF crosses THEN warned[u] + 1 ELSE warned[u]
      /\ \A v \in Users : v # u => warned'[v] = warned[v]
  BY DEF Log, IInv, TypeOK
<1> HIDE DEF t
<1>6. Held(t) /\ \A o \in Operations : t.due[o] # None => ~MovedPast(old, o)
  BY <1>3 DEF Held, MovedPast
<1>7. /\ crosses => warned[u] = 0 /\ settings[u].streak = AlertStreak
      /\ ~crosses /\ settings[u].streak >= AlertStreak /\ warned[u] = 0 => u \in unlogged
      /\ warned[u] <= IF settings[u].streak >= AlertStreak THEN 1 ELSE 0
  BY <1>1 DEF Counted, Crosses, IInv, OneWarningPerStreak
<1> HIDE DEF crosses
<1>8. /\ warned'[u] <= IF settings[u].streak >= AlertStreak THEN 1 ELSE 0
      /\ settings[u].streak >= AlertStreak /\ warned'[u] = 0 => u \in unlogged
  BY <1>1, <1>2, <1>5, <1>7
<1>9. Counted(u, task[p][u])'
  <2>1. task'[p][u] = t
    BY <1>1, <1>3, <1>4, StepEffect DEF IInv
  <2> QED
    BY <1>3, <2>1 DEF Counted
<1>10. settings \in [Users -> Rows]
  BY DEF IInv, TypeOK
<1> QED
  BY <1>1, <1>2, <1>3, <1>4, <1>5, <1>6, <1>8, <1>9, <1>10, CountMove

\* A failed transaction drops the task.
LEMMA DatabaseErrorStep ==
  ASSUME IInv, NEW p \in Procs, NEW u \in Users, DatabaseError(p, u)
  PROVE  IInv'
<1>1. /\ task[p][u].pc \notin {"none", "log"} /\ Step(p, u, NoTask)
      /\ faults' = faults + 1
      /\ UNCHANGED <<now, db, lock, userLock, procs, tickNow, patches, requests>>
  BY DEF DatabaseError, locks
<1>2. faults \in Nat
  BY DEF IInv, TypeOK
<1>3. Follows(u, task[p][u], NoTask)
  BY <1>1, NoTaskType DEF Follows, Held
<1>5. Parts'
  BY <1>1, <1>3, NoTaskType, TaskMove
<1>6. task' \in [Procs -> [Users -> Tasks]]
  BY <1>1, NoTaskType, StepEffect DEF IInv
<1>7. TypeOK'
  BY <1>1, <1>2, <1>6 DEF IInv, TypeOK, db, procs
<1> QED
  BY <1>5, <1>7 DEF IInv, Parts

\* A process with no task reads the clock, or is done with what it read.
LEMMA ClockReadStep ==
  ASSUME IInv, NEW p \in Procs, lock # p, moves[p] = None,
         NEW t, tickNow' = [tickNow EXCEPT ![p] = t],
         t = None \/ (t = now /\ tickNow[p] = None),
         faults' \in Nat,
         UNCHANGED <<now, db, locks, procs, task, patches, requests>>
  PROVE  IInv'
<1> USE DEF IInv
<1>0. /\ UNCHANGED <<now, settings, served, warned, unlogged, resumed, stale, overwritten,
                     lock, userLock, up, moves, task, patches, requests>>
      /\ now \in Nat /\ tickNow \in [Procs -> Times]
  BY DEF db, locks, procs, TypeOK
<1>1. /\ tickNow' \in [Procs -> Times] /\ tickNow'[p] = t
      /\ \A q \in Procs : q # p => tickNow'[q] = tickNow[q]
      /\ \A u \in Users : task[p][u] = NoTask
  BY <1>0 DEF Times, LockInv
<1>2. TypeOK'
  BY <1>0, <1>1 DEF TypeOK
<1>3. LockInv' /\ TaskInv'
  BY <1>0, <1>1 DEF LockInv, TaskInv
<1>4. DueInv'
  BY <1>0, <1>1, NoTaskType DEF DueInv
<1>5. ServedInv'
  BY <1>0 DEF ServedInv, Intact, MovedPast
<1>6. MoveInv'
  <2>1. ASSUME NEW q \in Procs, NEW u \in Users PROVE Moving(q, u, task[q][u])'
    <3>1. CASE q = p
      BY <1>0, <1>1, <3>1, NoTaskType DEF Moving
    <3>2. CASE q # p
      <4>1. Moving(q, u, task[q][u]) /\ tickNow'[q] = tickNow[q]
        BY <1>1, <3>2 DEF MoveInv
      <4> QED
        BY <1>0, <4>1 DEF Moving, Intact
    <3> QED
      BY <3>1, <3>2
  <2> QED
    BY <2>1 DEF MoveInv
<1>7. FillInv'
  <2>1. ASSUME NEW q \in Procs, NEW u \in Users, NEW o \in Operations,
               q \notin up, tickNow'[q] # None, <<u, o>> \notin stale[q]
        PROVE  Known(q, u, o)'
    <3>1. \A r \in Procs : task[r][u].due[o] # None => tickNow'[r] = tickNow[r] /\ tickNow[r] <= now
      <4> SUFFICES ASSUME NEW r \in Procs, task[r][u].due[o] # None
                   PROVE  tickNow'[r] = tickNow[r] /\ tickNow[r] <= now
        OBVIOUS
      <4>1. lock = r
        BY NoTaskType DEF LockInv
      <4> QED
        BY <1>1, <4>1 DEF LockInv
    <3>2. CASE q = p
      <4>1. tickNow'[q] = now
        BY <1>1, <2>1, <3>2
      <4>2. \A s \in Nat : <<u, o, s>> \in served => s <= now
        BY DEF ServedInv
      <4> QED
        BY <1>0, <3>1, <3>2, <4>1, <4>2 DEF Known
    <3>3. CASE q # p
      <4>1. Known(q, u, o) /\ tickNow'[q] = tickNow[q]
        BY <1>1, <2>1, <3>3 DEF FillInv
      <4> QED
        BY <1>0, <3>1, <4>1 DEF Known
    <3> QED
      BY <3>2, <3>3
  <2>2. \A q \in Procs : moves[q] # None => q \notin up /\ tickNow'[q] # None
    BY <1>1 DEF FillInv
  <2> QED
    BY <1>0, <2>1, <2>2 DEF FillInv
<1>8. StreakInv' /\ OneWarningPerStreak'
  BY <1>0 DEF StreakInv, Counted, OneWarningPerStreak
<1> QED
  BY <1>2, <1>3, <1>4, <1>5, <1>6, <1>7, <1>8

\* The steps of `start` and of `run` that only read the clock or give it up.
LEMMA ClockSteps ==
  ASSUME IInv, NEW p \in Procs, ReadClock(p) \/ TickIdles(p) \/ TickFails(p)
  PROVE  IInv'
<1>0. faults \in Nat
  BY DEF IInv, TypeOK
<1>1. CASE ReadClock(p)
  <2>1. tickNow[p] = None /\ lock # p /\ moves[p] = None
    BY <1>1 DEF ReadClock, IInv, LockInv, FillInv
  <2>2. /\ tickNow' = [tickNow EXCEPT ![p] = now] /\ faults' = faults
        /\ UNCHANGED <<now, db, locks, procs, task, patches, requests>>
    BY <1>1 DEF ReadClock, counters
  <2> QED
    BY <1>0, <2>1, <2>2, ClockReadStep
<1>2. CASE TickIdles(p) \/ TickFails(p)
  <2>1. lock # p /\ moves[p] = None
    BY <1>2 DEF TickIdles, TickFails, IInv, FillInv
  <2>2. /\ tickNow' = [tickNow EXCEPT ![p] = None] /\ faults' \in Nat
        /\ UNCHANGED <<now, db, locks, procs, task, patches, requests>>
    BY <1>0, <1>2 DEF TickIdles, TickFails, counters
  <2> QED
    BY <2>1, <2>2, ClockReadStep
<1> QED
  BY <1>1, <1>2

\* The backfill reads: what it will write is after the time of the start.
LEMMA StartReadsStep ==
  ASSUME IInv, NEW p \in Procs, StartReads(p)
  PROVE  IInv'
<1> USE DEF IInv
<1> DEFINE fills == [u \in Users |-> [o \in Operations |->
             IF o \in unscheduled(settings[u]) THEN next_run(settings[u], o, tickNow[p]) ELSE None]]
<1>1. /\ UNCHANGED <<now, settings, served, warned, unlogged, resumed, stale, overwritten,
                     lock, userLock, up, tickNow, task, patches, requests, faults>>
      /\ p \notin up /\ tickNow[p] # None
      /\ moves' = [moves EXCEPT ![p] = fills]
  BY DEF StartReads, db, locks, counters
<1>2. tickNow[p] \in Nat
  BY <1>1 DEF TypeOK, Times
<1>3. ASSUME NEW u \in Users, NEW o \in Operations
      PROVE  /\ fills[u][o] \in Times
             /\ fills[u][o] # None => settings[u].next[o] = None /\ fills[u][o] > tickNow[p]
  <2>1. settings[u] \in Rows
    BY DEF TypeOK
  <2> QED
    BY <1>2, <2>1, NextRunIsAfter DEF unscheduled, Times
<1>4. fills \in [Users -> [Operations -> Times]]
  BY <1>3
<1> HIDE DEF fills
<1>5. /\ moves' \in [Procs -> [Users -> [Operations -> Times]] \cup {None}]
      /\ moves'[p] = fills /\ \A q \in Procs : q # p => moves'[q] = moves[q]
  BY <1>1, <1>4 DEF TypeOK
<1>6. TypeOK'
  BY <1>1, <1>5 DEF TypeOK
<1>7. LockInv' /\ TaskInv' /\ DueInv'
  BY <1>1 DEF LockInv, TaskInv, DueInv
<1>8. ServedInv' /\ MoveInv' /\ StreakInv' /\ OneWarningPerStreak'
  BY <1>1 DEF ServedInv, Intact, MoveInv, Moving, StreakInv, Counted, OneWarningPerStreak
<1>9. FillInv'
  <2>1. ASSUME NEW q \in Procs, NEW u \in Users, NEW o \in Operations,
               q \notin up, tickNow[q] # None, <<u, o>> \notin stale[q]
        PROVE  Known(q, u, o)'
    <3>1. Known(q, u, o)
      BY <2>1 DEF FillInv
    <3> QED
      BY <1>1, <1>3, <1>5, <3>1 DEF Known
  <2>2. \A q \in Procs : moves'[q] # None => q \notin up /\ tickNow[q] # None
    BY <1>1, <1>5 DEF FillInv
  <2> QED
    BY <1>1, <2>1, <2>2 DEF FillInv
<1> QED
  BY <1>6, <1>7, <1>8, <1>9

\* The backfill writes: over a next run that nobody has written since the
\* start, a time after everything served; the others are marked.
LEMMA StartFillsStep ==
  ASSUME IInv, NEW p \in Procs, StartFills(p)
  PROVE  IInv'
<1> USE DEF IInv
<1> DEFINE columns == {c \in Users \X Operations : moves[p][c[1]][c[2]] # None}
           nexts(u) == [o \in Operations |->
             IF <<u, o>> \in columns THEN moves[p][u][o] ELSE settings[u].next[o]]
<1>1. /\ UNCHANGED <<now, served, warned, unlogged, resumed, lock, userLock, task,
                     patches, requests, faults>>
      /\ p \notin up /\ moves[p] # None /\ up' = up \cup {p}
      /\ settings' = [u \in Users |-> [settings[u] EXCEPT !.next = nexts(u)]]
      /\ overwritten' = overwritten \cup (columns \cap stale[p])
      /\ moves' = [moves EXCEPT ![p] = None]
      /\ tickNow' = [tickNow EXCEPT ![p] = None]
  BY DEF StartFills, locks, counters
<1>2. stale' = [q \in Procs |-> IF q # p /\ q \notin up /\ tickNow[q] # None
                                THEN stale[q] \cup columns ELSE {}]
  BY DEF StartFills
<1>3. /\ moves[p] \in [Users -> [Operations -> Times]] /\ tickNow[p] \in Nat /\ lock # p
      /\ now \in Nat /\ settings \in [Users -> Rows]
  BY <1>1 DEF TypeOK, FillInv, LockInv, Times
<1>4. \A u \in Users, o \in Operations : <<u, o>> \in columns <=> moves[p][u][o] # None
  OBVIOUS
<1>5. ASSUME NEW u \in Users
      PROVE  nexts(u) \in [Operations -> Times]
             /\ \A o \in Operations : nexts(u)[o] =
                  IF moves[p][u][o] # None THEN moves[p][u][o] ELSE settings[u].next[o]
  BY <1>3, <1>4 DEF Rows
<1>6. columns \subseteq Users \X Operations
  OBVIOUS
<1> HIDE DEF columns, nexts
<1>7. ASSUME NEW u \in Users
      PROVE  settings'[u] \in Rows /\ settings'[u].next = nexts(u)
             /\ settings'[u].streak = settings[u].streak
  <2>1. settings[u] \in Rows /\ settings'[u] = [settings[u] EXCEPT !.next = nexts(u)]
    BY <1>1, <1>3
  <2> QED
    BY <1>5, <2>1 DEF Rows
<1>8. settings' \in [Users -> Rows]
  BY <1>1, <1>7
<1>9. /\ moves' \in [Procs -> [Users -> [Operations -> Times]] \cup {None}]
      /\ moves'[p] = None /\ \A q \in Procs : q # p => moves'[q] = moves[q]
  BY <1>1 DEF TypeOK
<1>10. /\ tickNow' \in [Procs -> Times] /\ tickNow'[p] = None
       /\ \A q \in Procs : q # p => tickNow'[q] = tickNow[q]
  BY <1>1 DEF TypeOK, Times
<1>11. stale' \in [Procs -> SUBSET (Users \X Operations)]
  BY <1>2, <1>6 DEF TypeOK
<1>12. TypeOK'
  BY <1>1, <1>6, <1>8, <1>9, <1>10, <1>11 DEF TypeOK
<1>13. LockInv' /\ TaskInv'
  BY <1>1, <1>3, <1>10 DEF LockInv, TaskInv
<1>14. \A q \in Procs, u \in Users : task[q][u] # NoTask => q # p /\ tickNow'[q] = tickNow[q]
  BY <1>3, <1>10 DEF LockInv
<1>15. DueInv'
  BY <1>1, <1>14, NoTaskType DEF DueInv
<1>16. ASSUME NEW u \in Users, NEW o \in Operations, <<u, o>> \notin overwritten',
              moves[p][u][o] # None
       PROVE  /\ Intact(u, o) /\ Known(p, u, o)
              /\ settings[u].next[o] = None /\ moves[p][u][o] > tickNow[p]
  <2>1. Intact(u, o) /\ <<u, o>> \notin stale[p]
    BY <1>1, <1>4, <1>16 DEF Intact
  <2>2. Known(p, u, o)
    BY <1>1, <2>1 DEF FillInv
  <2> QED
    BY <1>1, <1>16, <2>1, <2>2 DEF Known
<1>17. ServedInv'
  <2> SUFFICES ASSUME NEW u \in Users, NEW o \in Operations, NEW s \in Nat, <<u, o, s>> \in served
               PROVE  /\ s <= now
                      /\ Intact(u, o)' => After(settings'[u].next[o], s)
                      /\ \A q \in Procs : Intact(u, o)' /\ task[q][u].due[o] # None =>
                           MovedPast(task[q][u], o) \/ s < task[q][u].due[o]
    BY <1>1 DEF ServedInv
  <2>1. Intact(u, o)' => Intact(u, o)
    BY <1>1 DEF Intact
  <2>2. /\ s <= now
        /\ Intact(u, o) => After(settings[u].next[o], s)
        /\ \A q \in Procs : Intact(u, o) /\ task[q][u].due[o] # None =>
             MovedPast(task[q][u], o) \/ s < task[q][u].due[o]
    BY DEF ServedInv
  <2>3. ASSUME Intact(u, o)' PROVE After(settings'[u].next[o], s)
    <3>1. CASE moves[p][u][o] = None
      BY <1>5, <1>7, <2>1, <2>2, <2>3, <3>1
    <3>2. CASE moves[p][u][o] # None
      <4>1. s <= tickNow[p] /\ moves[p][u][o] > tickNow[p]
        BY <1>16, <2>3, <3>2 DEF Known, Intact
      <4>2. moves[p][u][o] \in Nat /\ settings'[u].next[o] = moves[p][u][o]
        BY <1>3, <1>5, <1>7, <3>2 DEF Times
      <4> QED
        BY <1>3, <4>1, <4>2 DEF After
    <3> QED
      BY <3>1, <3>2
  <2> QED
    BY <2>1, <2>2, <2>3
<1>18. MoveInv'
  <2> SUFFICES ASSUME NEW q \in Procs, NEW u \in Users, task[q][u].pc = "move",
                      <<u, task[q][u].op>> \notin overwritten'
               PROVE  LET t == task[q][u]
                      IN  \/ settings'[u].next[t.op] = t.read.next[t.op]
                          \/ After(settings'[u].next[t.op], tickNow'[q])
    BY <1>1 DEF MoveInv, Moving, Intact
  <2> DEFINE o == task[q][u].op
  <2>1. o \in Operations /\ task[q][u].due[o] # None /\ task[q][u] # NoTask
    BY NoTaskType DEF TaskInv, Held
  <2>2. lock = q /\ tickNow'[q] = tickNow[q] /\ tickNow[q] \in Nat
    BY <1>14, <2>1 DEF LockInv, TypeOK, Times
  <2>3. CASE moves[p][u][o] = None
    <3>1. Intact(u, o) /\ settings'[u].next[o] = settings[u].next[o]
      BY <1>1, <1>5, <1>7, <2>1, <2>3 DEF Intact
    <3>2. Moving(q, u, task[q][u])
      BY DEF MoveInv
    <3> QED
      BY <2>2, <3>1, <3>2 DEF Moving
  <2>4. CASE moves[p][u][o] # None
    <3>1. tickNow[q] <= tickNow[p] /\ moves[p][u][o] > tickNow[p]
      BY <1>16, <2>1, <2>4 DEF Known
    <3>2. moves[p][u][o] \in Nat /\ settings'[u].next[o] = moves[p][u][o]
      BY <1>3, <1>5, <1>7, <2>1, <2>4 DEF Times
    <3> QED
      BY <1>3, <2>2, <3>1, <3>2 DEF After
  <2> QED
    BY <2>3, <2>4
<1>19. FillInv'
  <2>1. ASSUME NEW q \in Procs, NEW u \in Users, NEW o \in Operations,
               q \notin up', tickNow'[q] # None, <<u, o>> \notin stale'[q]
        PROVE  Known(q, u, o)'
    <3>1. q # p /\ q \notin up /\ tickNow'[q] = tickNow[q] /\ tickNow[q] # None
      BY <1>1, <1>10, <2>1
    <3>2. <<u, o>> \notin stale[q] /\ <<u, o>> \notin columns
      BY <1>2, <2>1, <3>1
    <3>3. Known(q, u, o)
      BY <3>1, <3>2 DEF FillInv
    <3>4. settings'[u].next[o] = settings[u].next[o] /\ moves'[q] = moves[q]
      BY <1>4, <1>5, <1>7, <1>9, <3>1, <3>2
    <3>5. \A r \in Procs : task[r][u].due[o] # None => tickNow'[r] = tickNow[r]
      BY <1>14, NoTaskType
    <3> QED
      BY <1>1, <3>1, <3>3, <3>4, <3>5 DEF Known
  <2>2. \A q \in Procs : moves'[q] # None => q \notin up' /\ tickNow'[q] # None
    BY <1>1, <1>9, <1>10 DEF FillInv
  <2> QED
    BY <2>1, <2>2 DEF FillInv
<1>20. StreakInv' /\ OneWarningPerStreak'
  BY <1>1, <1>7 DEF StreakInv, Counted, OneWarningPerStreak
<1> QED
  BY <1>12, <1>13, <1>15, <1>17, <1>18, <1>19, <1>20

\* PATCH recomputes next runs from the new settings and the clock.
LEMMA PatchStep ==
  ASSUME IInv, NEW u \in Users, PatchPaused(u) \/ PatchInvest(u) \/ PatchCadence(u)
  PROVE  IInv'
<1>1. now \in Nat /\ settings \in [Users -> Rows] /\ patches \in Nat
  BY DEF IInv, TypeOK
<1>2. PICK row \in Rows, ops \in SUBSET Operations :
        Patch(u, row, ops) /\ row.streak = settings[u].streak /\ row.next = settings[u].next
  <2> DEFINE s == settings[u]
  <2>0. s \in Rows
    BY <1>1
  <2>1. CASE PatchPaused(u)
    <3> DEFINE row == [s EXCEPT !.paused = ~s.paused]
    <3>1. row \in Rows /\ row.streak = s.streak /\ row.next = s.next
      BY <2>0 DEF Rows
    <3>2. Patch(u, row, Operations)
      BY <2>1 DEF PatchPaused
    <3> QED
      BY <3>1, <3>2
  <2>2. CASE PatchInvest(u)
    <3> DEFINE row == [s EXCEPT !.enabled = ~s.enabled]
    <3>1. row \in Rows /\ row.streak = s.streak /\ row.next = s.next
      BY <2>0 DEF Rows
    <3>2. Patch(u, row, {INVEST}) /\ {INVEST} \in SUBSET Operations
      BY <2>2 DEF PatchInvest, Operations
    <3> QED
      BY <3>1, <3>2
  <2>3. CASE PatchCadence(u)
    <3>1. PICK o \in Operations, l \in Lengths : Patch(u, [s EXCEPT !.length[o] = l], {o})
      BY <2>3 DEF PatchCadence
    <3> DEFINE row == [s EXCEPT !.length[o] = l]
    <3>2. row \in Rows /\ row.streak = s.streak /\ row.next = s.next
      BY <2>0 DEF Rows
    <3> QED
      BY <3>1, <3>2
  <2> QED
    BY <2>1, <2>2, <2>3
<1> DEFINE r == rescheduled(row, ops, now)
<1>3. /\ r \in Rows /\ r.streak = settings[u].streak
      /\ \A o \in Operations : r.next[o] = settings[u].next[o] \/ r.next[o] = None \/ r.next[o] > now
  BY <1>1, <1>2, RescheduledRow
<1>4. /\ settings' = [settings EXCEPT ![u] = r] /\ patches' = patches + 1
      /\ Written({u} \X ops) /\ {u} \X ops \in SUBSET (Users \X Operations)
      /\ UNCHANGED <<now, served, warned, unlogged, overwritten, lock, userLock, procs, tickNow,
                     task, requests, faults>>
  BY <1>2 DEF Patch, locks
<1>a. \A o \in Operations : o \notin ops => r.next[o] = settings[u].next[o]
  BY <1>1, <1>2, RescheduledRow
<1> HIDE DEF r
<1>5. settings' \in [Users -> Rows]
  BY <1>1, <1>3, <1>4
<1>6. /\ \A v \in Users : settings'[v].streak = settings[v].streak
      /\ \A v \in Users, o \in Operations : \/ settings'[v].next[o] = settings[v].next[o]
                                              \/ settings'[v].next[o] = None
                                              \/ settings'[v].next[o] > now
  BY <1>1, <1>3, <1>4
<1>b. \A v \in Users, o \in Operations :
        <<v, o>> \notin {u} \X ops => settings'[v].next[o] = settings[v].next[o]
  BY <1>1, <1>3, <1>4, <1>a
<1>7. Parts' /\ stale' \in [Procs -> SUBSET (Users \X Operations)]
  BY <1>4, <1>5, <1>6, <1>b, SettingsMove
<1>8. resumed' \in [Users -> Nat]
  BY <1>1 DEF IInv, TypeOK, PatchPaused, PatchInvest, PatchCadence
<1>9. TypeOK'
  BY <1>1, <1>4, <1>5, <1>7, <1>8 DEF IInv, TypeOK, procs
<1> QED
  BY <1>7, <1>9 DEF IInv, Parts

\* `tick`: under the lock, which was free, the slots due become tasks.  No
\* slot of theirs was served, because a served slot is behind the next run.
LEMMA TickStep ==
  ASSUME IInv, NEW p \in Procs, Tick(p)
  PROVE  IInv'
<1> USE DEF IInv
<1>1. lock = Nobody /\ lock' = p /\ Nobody \notin Procs
  BY SchedulerConstants DEF Tick, Taken
<1>2. UNCHANGED <<now, settings, served, warned, unlogged, resumed, stale, overwritten, userLock,
                 up, moves, tickNow, patches, requests, faults>>
  BY DEF Tick, db, procs, counters
<1>3. \A q \in Procs, v \in Users : task[q][v] = NoTask
  BY <1>1 DEF LockInv
<1>4. tickNow[p] \in Nat /\ tickNow[p] # None /\ p \in up /\ now \in Nat
  BY DEF Tick, TypeOK, Times
<1> DEFINE slots(u) == [o \in Operations |->
             IF Passed(settings[u].next[o], tickNow[p]) THEN settings[u].next[o] ELSE None]
           queued(u) == [NoTask EXCEPT !.pc = "queued", !.due = slots(u)]
<1>5. PICK batch \in SUBSET Users :
        /\ \A u \in batch : is_due(u, tickNow[p])
        /\ task' = [task EXCEPT ![p] = [u \in Users |-> IF u \notin batch THEN NoTask ELSE queued(u)]]
  BY DEF Tick, due_users
<1>6. ASSUME NEW u \in Users
      PROVE  slots(u) \in [Operations -> Times]
             /\ \A o \in Operations : slots(u)[o] # None =>
                  slots(u)[o] = settings[u].next[o] /\ slots(u)[o] \in Nat /\ slots(u)[o] <= tickNow[p]
  <2>1. \A o \in Operations : settings[u].next[o] \in Times
    BY DEF TypeOK, Rows
  <2> QED
    BY <2>1 DEF Passed, Times
<1> HIDE DEF slots
<1>7. ASSUME NEW u \in Users
      PROVE  queued(u) \in Tasks /\ queued(u).pc = "queued" /\ queued(u).due = slots(u)
  BY <1>6, NoTaskType DEF Tasks, Steps
<1> HIDE DEF queued
<1>8. ASSUME NEW u \in batch
      PROVE  Held(queued(u))
  <2>1. \E o \in Operations : slots(u)[o] # None
    BY <1>5 DEF is_due, Passed, slots
  <2> QED
    BY <1>7, <2>1 DEF Held
<1>9. \A q \in Procs, v \in Users :
        task'[q][v] = IF q = p /\ v \in batch THEN queued(v) ELSE NoTask
  BY <1>3, <1>5 DEF TypeOK
<1>10. task' \in [Procs -> [Users -> Tasks]]
  BY <1>5, <1>7, NoTaskType DEF TypeOK
<1>11. \A q \in Procs, v \in Users : task'[q][v].pc \in {"none", "queued"} /\ task[q][v].pc # "log"
  BY <1>3, <1>7, <1>9, NoTaskType
<1>12. TypeOK'
  BY <1>1, <1>2, <1>4, <1>10 DEF TypeOK
<1>13. LockInv'
  BY <1>1, <1>2, <1>4, <1>9 DEF LockInv
<1>14. TaskInv'
  BY <1>8, <1>9, NoTaskType DEF TaskInv, Held
<1>a. ASSUME NEW q \in Procs, NEW v \in Users, NEW o \in Operations, task'[q][v].due[o] # None
      PROVE  /\ q = p /\ task'[q][v].due[o] = settings[v].next[o] /\ settings[v].next[o] \in Nat
             /\ settings[v].next[o] <= tickNow[p] /\ settings[v].next[o] # None
  <2>1. q = p /\ v \in batch /\ task'[q][v].due[o] = slots(v)[o]
    BY <1>7, <1>9, <1>a, NoTaskType
  <2> QED
    BY <1>6, <1>a, <2>1
<1>15. DueInv'
  BY <1>2, <1>a DEF DueInv
<1>16. ServedInv'
  <2> SUFFICES ASSUME NEW v \in Users, NEW o \in Operations, NEW s \in Nat, <<v, o, s>> \in served
               PROVE  /\ s <= now
                      /\ Intact(v, o) => After(settings[v].next[o], s)
                      /\ \A q \in Procs : Intact(v, o) /\ task'[q][v].due[o] # None =>
                           MovedPast(task'[q][v], o) \/ s < task'[q][v].due[o]
    BY <1>2 DEF ServedInv, Intact
  <2>1. s <= now /\ (Intact(v, o) => After(settings[v].next[o], s))
    BY DEF ServedInv
  <2>2. ASSUME NEW q \in Procs, Intact(v, o), task'[q][v].due[o] # None
        PROVE  s < task'[q][v].due[o]
    BY <1>a, <2>1, <2>2 DEF After
  <2> QED
    BY <2>1, <2>2
<1>b. FillInv'
  <2>1. ASSUME NEW q \in Procs, NEW u \in Users, NEW o \in Operations,
               q \notin up, tickNow[q] # None, <<u, o>> \notin stale[q]
        PROVE  Known(q, u, o)'
    <3>1. Known(q, u, o)
      BY <2>1 DEF FillInv
    <3> QED
      BY <1>2, <1>a, <3>1 DEF Known
  <2>2. \A q \in Procs : moves[q] # None => q \notin up /\ tickNow[q] # None
    BY DEF FillInv
  <2> QED
    BY <1>2, <2>1, <2>2 DEF FillInv
<1>17. MoveInv' /\ StreakInv'
  BY <1>11 DEF MoveInv, Moving, StreakInv, Counted
<1>18. OneWarningPerStreak'
  BY <1>2, <1>11 DEF OneWarningPerStreak
<1> QED
  BY <1>12, <1>13, <1>14, <1>15, <1>16, <1>b, <1>17, <1>18

\* The process dies: its tasks are gone, and a warning it owed is marked.
LEMMA CrashStep ==
  ASSUME IInv, NEW p \in Procs, Crash(p)
  PROVE  IInv'
<1> USE DEF IInv
<1>1. /\ faults' = faults + 1 /\ faults \in Nat /\ up' = up \ {p} /\ up' \subseteq Procs
      /\ UNCHANGED <<now, settings, served, warned, resumed, overwritten, patches, requests>>
  BY DEF Crash, TypeOK
<1>2. /\ task' \in [Procs -> [Users -> Tasks]]
      /\ \A q \in Procs, v \in Users : task'[q][v] = IF q = p THEN NoTask ELSE task[q][v]
  BY NoTaskType DEF Crash, TypeOK
<1>3. lock' = IF lock = p THEN Nobody ELSE lock
  BY DEF Crash
<1>4. userLock' \in [Users -> Procs \cup {Nobody, Request}]
  BY DEF Crash, TypeOK
<1>5. /\ moves' \in [Procs -> [Users -> [Operations -> Times]] \cup {None}]
      /\ tickNow' \in [Procs -> Times]
      /\ stale' \in [Procs -> SUBSET (Users \X Operations)]
      /\ tickNow'[p] = None /\ moves'[p] = None
      /\ \A q \in Procs : q # p =>
           tickNow'[q] = tickNow[q] /\ moves'[q] = moves[q] /\ stale'[q] = stale[q]
  <2>1. /\ moves' = [moves EXCEPT ![p] = None] /\ tickNow' = [tickNow EXCEPT ![p] = None]
        /\ stale' = [stale EXCEPT ![p] = {}]
    BY DEF Crash
  <2> QED
    BY <2>1 DEF TypeOK, Times
<1>6. /\ unlogged' = unlogged \cup {u \in Users :
           task[p][u].pc = "log" /\ Crosses(task[p][u].read.streak, task[p][u].outcome)}
      /\ unlogged' \subseteq Users
  BY DEF Crash, TypeOK
<1>7. TypeOK'
  BY <1>1, <1>2, <1>3, <1>4, <1>5, <1>6 DEF TypeOK
<1>8. LockInv'
  BY <1>1, <1>2, <1>3, <1>5, SchedulerConstants DEF LockInv
<1>a. TaskInv'
  BY <1>2, NoTaskType DEF TaskInv, Held
<1>9. DueInv'
  BY <1>2, <1>5, NoTaskType DEF DueInv
<1>10. ServedInv'
  BY <1>1, <1>2, NoTaskType DEF ServedInv, Intact
<1>11. MoveInv'
  <2>1. ASSUME NEW q \in Procs, NEW u \in Users PROVE Moving(q, u, task[q][u])'
    <3>1. CASE q = p
      BY <1>2, <3>1, NoTaskType DEF Moving
    <3>2. CASE q # p
      <4>1. Moving(q, u, task[q][u])
        BY DEF MoveInv
      <4> QED
        BY <1>1, <1>2, <1>5, <3>2, <4>1 DEF Moving, Intact
    <3> QED
      BY <3>1, <3>2
  <2> QED
    BY <2>1 DEF MoveInv
<1>12. FillInv'
  <2>1. ASSUME NEW q \in Procs, NEW u \in Users, NEW o \in Operations,
               q \notin up', tickNow'[q] # None, <<u, o>> \notin stale'[q]
        PROVE  Known(q, u, o)'
    <3>1. q # p /\ q \notin up /\ tickNow[q] # None /\ <<u, o>> \notin stale[q]
      BY <1>1, <1>5, <2>1
    <3>2. Known(q, u, o)
      BY <3>1 DEF FillInv
    <3>3. \A r \in Procs : task'[r][u].due[o] # None =>
            task[r][u].due[o] # None /\ tickNow'[r] = tickNow[r]
      BY <1>2, <1>5, NoTaskType
    <3> QED
      BY <1>1, <1>5, <3>1, <3>2, <3>3 DEF Known
  <2>2. \A q \in Procs : moves'[q] # None => q \notin up' /\ tickNow'[q] # None
    BY <1>1, <1>5 DEF FillInv
  <2> QED
    BY <2>1, <2>2 DEF FillInv
<1>13. StreakInv'
  <2>1. ASSUME NEW q \in Procs, NEW u \in Users PROVE Counted(u, task[q][u])'
    <3>1. CASE q = p
      BY <1>2, <3>1, NoTaskType DEF Counted
    <3>2. CASE q # p
      <4>1. Counted(u, task[q][u])
        BY DEF StreakInv
      <4> QED
        BY <1>1, <1>2, <1>6, <3>2, <4>1 DEF Counted
    <3> QED
      BY <3>1, <3>2
  <2> QED
    BY <2>1 DEF StreakInv
<1>14. OneWarningPerStreak'
  <2> SUFFICES ASSUME NEW v \in Users, settings[v].streak >= AlertStreak, warned[v] = 0,
                      v \notin unlogged'
               PROVE  \E q \in Procs : task'[q][v].pc = "log"
    BY <1>1 DEF OneWarningPerStreak
  <2>1. v \notin unlogged
    BY <1>6
  <2>2. PICK q \in Procs : task[q][v].pc = "log"
    BY <2>1 DEF OneWarningPerStreak
  <2>3. Counted(v, task[q][v])
    BY DEF StreakInv
  <2>4. Crosses(task[q][v].read.streak, task[q][v].outcome)
    BY <2>1, <2>2, <2>3 DEF Counted
  <2>5. q # p
    BY <1>6, <2>2, <2>4
  <2> QED
    BY <1>2, <2>2, <2>5
<1> QED
  BY <1>7, <1>8, <1>a, <1>9, <1>10, <1>11, <1>12, <1>13, <1>14

\* A tick is over: no process has a task.
LEMMA TickEndsStep ==
  ASSUME IInv, NEW p \in Procs, TickEnds(p)
  PROVE  IInv'
<1> USE DEF IInv
<1>1. /\ lock = p /\ lock' = Nobody /\ \A q \in Procs, v \in Users : task[q][v] = NoTask
      /\ UNCHANGED <<now, settings, served, warned, unlogged, resumed, stale, overwritten,
                     userLock, up, moves, task, patches, requests, faults>>
  BY DEF TickEnds, LockInv, db, procs, counters
<1>2. /\ tickNow' \in [Procs -> Times] /\ tickNow'[p] = None
      /\ \A q \in Procs : q # p => tickNow'[q] = tickNow[q]
  BY DEF TickEnds, TypeOK, Times
<1>3. TypeOK' /\ LockInv' /\ TaskInv'
  BY <1>1, <1>2, SchedulerConstants DEF TypeOK, LockInv, TaskInv
<1>4. DueInv' /\ MoveInv' /\ StreakInv' /\ OneWarningPerStreak'
  BY <1>1, NoTaskType DEF DueInv, MoveInv, Moving, StreakInv, Counted, OneWarningPerStreak
<1>5. ServedInv'
  BY <1>1 DEF ServedInv, Intact, MovedPast
<1>6. FillInv'
  <2>1. ASSUME NEW q \in Procs, NEW u \in Users, NEW o \in Operations,
               q \notin up, tickNow'[q] # None, <<u, o>> \notin stale[q]
        PROVE  Known(q, u, o)'
    <3>1. q # p /\ tickNow'[q] = tickNow[q] /\ Known(q, u, o)
      BY <1>2, <2>1 DEF FillInv
    <3> QED
      BY <1>1, <3>1, NoTaskType DEF Known
  <2>2. \A q \in Procs : moves[q] # None => q \notin up /\ tickNow'[q] # None
    BY <1>1, <1>2 DEF FillInv, LockInv
  <2> QED
    BY <1>1, <2>1, <2>2 DEF FillInv
<1> QED
  BY <1>3, <1>4, <1>5, <1>6

\* The lock of a request and the clock.
LEMMA OtherSteps ==
  ASSUME IInv, Clock \/ \E u \in Users : RequestBegins(u) \/ RequestEnds(u)
  PROVE  IInv'
<1> USE DEF IInv
<1>1. /\ UNCHANGED <<settings, served, warned, unlogged, resumed, stale, overwritten,
                     lock, up, moves, tickNow, task, patches, faults>>
      /\ requests' \in Nat /\ userLock' \in [Users -> Procs \cup {Nobody, Request}]
      /\ now \in Nat /\ now' \in Nat /\ now' >= now
  <2>1. CASE Clock
    BY <2>1 DEF Clock, TypeOK, db, locks, procs, counters
  <2>2. CASE \E u \in Users : RequestBegins(u) \/ RequestEnds(u)
    BY <2>2 DEF RequestBegins, RequestEnds, TypeOK, db, procs, counters
  <2> QED
    BY <2>1, <2>2
<1>2. TypeOK'
  BY <1>1 DEF TypeOK
<1>3. LockInv'
  <2>1. \A p \in Procs : tickNow[p] # None => tickNow[p] \in Nat /\ tickNow[p] <= now
    BY DEF LockInv, TypeOK, Times
  <2>2. \A p \in Procs : tickNow[p] # None => tickNow[p] <= now'
    BY <1>1, <2>1
  <2> QED
    BY <1>1, <2>2 DEF LockInv
<1>4. TaskInv' /\ DueInv'
  BY <1>1 DEF TaskInv, DueInv
<1>5. ServedInv'
  BY <1>1, ServedKept
<1>6. MoveInv' /\ FillInv'
  BY <1>1 DEF MoveInv, Moving, Intact, FillInv, Known
<1>7. StreakInv' /\ OneWarningPerStreak'
  BY <1>1 DEF StreakInv, Counted, OneWarningPerStreak
<1> QED
  BY <1>2, <1>3, <1>4, <1>5, <1>6, <1>7

\* Every step keeps the invariant.
LEMMA InvStep == IInv /\ [Next]_vars => IInv'
<1> SUFFICES ASSUME IInv, [Next]_vars PROVE IInv'
  OBVIOUS
<1>1. CASE \E p \in Procs, u \in Users : Work(p, u) \/ DatabaseError(p, u)
  BY <1>1, OperateStep, RunSteps, ReadSteps, AdvanceStep, CountStep, LogStep,
       DatabaseErrorStep DEF Work
<1>2. CASE \E p \in Procs : Starts(p) \/ Ticks(p) \/ TickFails(p) \/ Crash(p)
  BY <1>2, ClockSteps, StartReadsStep, StartFillsStep, TickStep, TickEndsStep, CrashStep
     DEF Starts, Ticks
<1>3. CASE \E u \in Users : PatchPaused(u) \/ PatchInvest(u) \/ PatchCadence(u)
                           \/ RequestBegins(u) \/ RequestEnds(u)
  BY <1>3, PatchStep, OtherSteps
<1>4. CASE Clock
  BY <1>4, OtherSteps
<1>5. CASE UNCHANGED vars
  <2>1. UNCHANGED <<now, settings, served, warned, unlogged, resumed, stale, overwritten, lock,
                   userLock, up, moves, tickNow, task, patches, requests, faults>>
    BY <1>5 DEF vars, db, locks, procs, counters
  <2>2. TypeOK' /\ LockInv' /\ TaskInv' /\ DueInv' /\ ServedInv'
    BY <2>1 DEF IInv, TypeOK, LockInv, TaskInv, DueInv, ServedInv, Intact
  <2>3. MoveInv' /\ FillInv' /\ StreakInv' /\ OneWarningPerStreak'
    BY <2>1 DEF IInv, MoveInv, Moving, Intact, FillInv, Known, StreakInv, Counted,
                OneWarningPerStreak
  <2> QED
    BY <2>2, <2>3 DEF IInv
<1> QED
  BY <1>1, <1>2, <1>3, <1>4, <1>5 DEF Next

\* The invariant holds in every state the scheduler reaches.
LEMMA Invariant == Spec => []IInv
BY InvInit, InvStep, PTL DEF Spec
-----------------------------------------------------------------------------
\* Every variable of the scheduler keeps its type: rows, tasks, slots.
THEOREM SchedulerTypes == Spec => []TypeOK
<1>1. IInv => TypeOK
  BY DEF IInv
<1> QED
  BY <1>1, Invariant, PTL

\* No two processes work on a user's row at once (the scheduler's advisory
\* lock), which is what `_advance` and `_count` rely on.
THEOREM OneWorker == Spec => []OneWorkerPerUser
<1>1. IInv => OneWorkerPerUser
  BY DEF IInv, LockInv, OneWorkerPerUser
<1> QED
  BY <1>1, Invariant, PTL

\* An operation run for a slot and moved past it never runs for that slot
\* again, whatever PATCH, a crash, another process or an old `now` does
\* (`_advance`), unless a backfill wrote over its next run.
THEOREM ServedOnce == Spec => []SlotServedOnce
<1>1. IInv => SlotServedOnce
  <2> SUFFICES ASSUME IInv, NEW p \in Procs, NEW u \in Users, Running(p, u), Slot(p, u) \in served
               PROVE  <<u, task[p][u].op>> \in overwritten
    BY DEF SlotServedOnce
  <2> DEFINE o == task[p][u].op
             s == task[p][u].due[o]
  <2>1. o \in Operations /\ s # None /\ <<u, o, s>> \in served
    BY DEF IInv, TaskInv, Held, Running, Slot
  <2>2. s \in Nat
    BY <2>1 DEF IInv, TypeOK, Tasks, Times
  <2>3. ~MovedPast(task[p][u], o)
    BY DEF MovedPast, Running
  <2>4. Intact(u, o) => s < s
    BY <2>1, <2>2, <2>3 DEF IInv, ServedInv
  <2> QED
    BY <2>2, <2>4 DEF Intact
<1> QED
  BY <1>1, Invariant, PTL

\* A failure streak is warned of once, on the edge, and its warning is missing
\* only if the process that owed it died (`_count`).
THEOREM WarnedOnce == Spec => []OneWarningPerStreak
<1>1. IInv => OneWarningPerStreak
  BY DEF IInv
<1> QED
  BY <1>1, Invariant, PTL
=============================================================================
