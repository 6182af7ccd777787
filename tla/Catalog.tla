------------------------------- MODULE Catalog -------------------------------
(***************************************************************************)
(* Kraken's names, pairs and decimals, kept for a day: _Kept of core/      *)
(* catalog.py, which any number of threads use without a lock.             *)
(***************************************************************************)
EXTENDS Integers

CONSTANTS
  Threads,
  None,
  TTL,       \* CATALOG_TTL
  Timeout,   \* longest that a read takes, its turn in the public bucket included
  MaxTime,   \* bound: the clock
  MaxVersion \* bound: changes of Kraken's list

CatalogConstants ==
  /\ TTL \in Nat \ {0} /\ {Timeout, MaxTime, MaxVersion} \subseteq Nat /\ None \notin Nat

VARIABLES
  now,
  kraken,   \* the version of Kraken's list
  until,    \* history: when each version was replaced
  copy,     \* _copy: the version kept and when, or None
  thread,   \* each thread's call of get
  tooOld    \* history: an answer was older than a reader may be given

vars == <<now, kraken, until, copy, thread, tooOld>>

Versions == 0..MaxVersion
Copies == [at : Nat, version : Versions]
Gets == [pc : {"idle", "reads", "read"}, since : Nat, version : Versions \cup {None}]
Idle == [pc |-> "idle", since |-> 0, version |-> None]

TypeOK ==
  /\ now \in 0..MaxTime /\ kraken \in Versions
  /\ until \in [Versions -> Nat \cup {None}]
  /\ copy \in Copies \cup {None}
  /\ thread \in [Threads -> Gets]
  /\ tooOld \in BOOLEAN

Init ==
  /\ now = 0 /\ kraken = 0 /\ until = [v \in Versions |-> None]
  /\ copy = None /\ thread = [t \in Threads |-> Idle] /\ tooOld = FALSE
-----------------------------------------------------------------------------
kept == copy # None /\ now - copy.at < TTL

Answer(v) == tooOld' = (tooOld \/ (until[v] # None /\ until[v] + TTL + Timeout <= now))

\* get, with a copy that is young enough.
Hit(t) ==
  /\ thread[t] = Idle /\ kept
  /\ Answer(copy.version)
  /\ UNCHANGED <<now, kraken, until, copy, thread>>

\* get, without: Kraken is read, by every thread that misses.
Miss(t) ==
  /\ thread[t] = Idle /\ ~kept
  /\ thread' = [thread EXCEPT ![t] = [Idle EXCEPT !.pc = "reads", !.since = now]]
  /\ UNCHANGED <<now, kraken, until, copy, tooOld>>

\* Kraken answers with its list of now; the answer is on its way back.
KrakenAnswers(t) ==
  /\ thread[t].pc = "reads"
  /\ thread' = [thread EXCEPT ![t] = [@ EXCEPT !.pc = "read", !.version = kraken]]
  /\ UNCHANGED <<now, kraken, until, copy, tooOld>>

\* The copy is replaced, with the time of now.
Keep(t) ==
  /\ thread[t].pc = "read"
  /\ copy' = [at |-> now, version |-> thread[t].version]
  /\ Answer(thread[t].version)
  /\ thread' = [thread EXCEPT ![t] = Idle]
  /\ UNCHANGED <<now, kraken, until>>

\* Mutant of AfterFailure: the copy there is goes on for another day.
RenewedAfterFailure == IF copy = None THEN None ELSE [copy EXCEPT !.at = now]

\* A failed read keeps nothing.
AfterFailure == copy

ReadFails(t) ==
  /\ thread[t].pc \in {"reads", "read"}
  /\ copy' = AfterFailure
  /\ thread' = [thread EXCEPT ![t] = Idle]
  /\ UNCHANGED <<now, kraken, until, tooOld>>

\* Kraken lists or retires something.
Change ==
  /\ kraken < MaxVersion
  /\ kraken' = kraken + 1
  /\ until' = [until EXCEPT ![kraken] = now]
  /\ UNCHANGED <<now, copy, thread, tooOld>>

\* No read takes longer than Timeout.  The wall clock is never set back here.
Clock ==
  /\ now < MaxTime
  /\ \A t \in Threads : thread[t] # Idle => now < thread[t].since + Timeout
  /\ now' = now + 1
  /\ UNCHANGED <<kraken, until, copy, thread, tooOld>>

Next ==
  \/ \E t \in Threads :
       Hit(t) \/ Miss(t) \/ KrakenAnswers(t) \/ Keep(t) \/ ReadFails(t)
  \/ Change \/ Clock

Spec == Init /\ [][Next]_vars
-----------------------------------------------------------------------------
\* "A copy up to a day old is accepted" (catalog.py), and no older: what get
\* returns was Kraken's list within the last TTL and the time of one read, also
\* when two threads missed at once and the older answer was kept last, and when
\* Kraken fails for days.
AnswersAreFresh == ~tooOld
=============================================================================
