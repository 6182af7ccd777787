------------------------------- MODULE Cadence -------------------------------
(***************************************************************************)
(* When an operation is next due: core/cadence.py, on the Gregorian        *)
(* calendar.  An instant counts units since midnight of 1 January Year, of *)
(* which a day has Day; the epoch is instant 0.  A run may be late by any  *)
(* of Delays, as after an outage, and asks for the next slot then.         *)
(***************************************************************************)
EXTENDS Integers, FiniteSetsExt

CONSTANTS
  Year,       \* the year of instant 0
  Day,        \* units in a day
  Window,     \* the window that users are spread over, in units
  Cadences,   \* pairs of months and days
  Intervals,  \* lengths of the MIN cadence, in units
  Dates,      \* dates of anchors, as <<year, month, day>>
  Times,      \* times of day of anchors
  Starts,     \* instants at which a slot is first asked for
  Delays,     \* how late a run may be
  MaxTime     \* bound: the last instant

VARIABLES
  cadence,  \* [mode, months, days, length]
  date,     \* the anchor's date
  time,     \* and time of day
  offset,   \* offset_seconds of the user
  now,      \* when the slot was asked for
  slot      \* the answer

vars == <<cadence, date, time, offset, now, slot>>

Modes ==
  {[mode |-> "INTERVAL", months |-> c[1], days |-> c[2], length |-> 0] : c \in Cadences}
    \cup {[mode |-> "MIN", months |-> 0, days |-> 0, length |-> n] : n \in Intervals}

Offsets == 0..(IF cadence.mode = "MIN" THEN cadence.length ELSE Window) - 1

TypeOK ==
  /\ cadence \in Modes /\ date \in Dates /\ time \in Times /\ offset \in Offsets
  /\ now \in Nat /\ slot \in Nat
-----------------------------------------------------------------------------
(* The calendar. *)

Leap(y) == y % 4 = 0 /\ (y % 100 # 0 \/ y % 400 = 0)
monthrange(y, m) ==
  IF m = 2 THEN IF Leap(y) THEN 29 ELSE 28 ELSE IF m \in {4, 6, 9, 11} THEN 30 ELSE 31

Before(m) == <<0, 31, 59, 90, 120, 151, 181, 212, 243, 273, 304, 334>>[m]

\* Days since 1 January Year, and midnight of a date.
DayNumber(y, m, d) ==
  365 * (y - Year) + Cardinality({x \in Year..y - 1 : Leap(x)})
    + Before(m) + (IF m > 2 /\ Leap(y) THEN 1 ELSE 0) + d - 1
At(y, m, d) == Day * DayNumber(y, m, d)

CadenceConstants ==
  /\ {Year, Day, Window} \subseteq Nat \ {0} /\ MaxTime \in Nat
  /\ Cadences \subseteq (Nat \X Nat) \ {<<0, 0>>} /\ Intervals \subseteq Nat \ {0}
  /\ \A d \in Dates : /\ d \in Nat \X (1..12) \X (1..31)
                      /\ d[1] >= Year /\ d[3] <= monthrange(d[1], d[2])
  /\ Times \subseteq 0..Day - 1 /\ Starts \subseteq Nat /\ Delays \subseteq Nat

\* Months since January of year 0, and back.
Index(y, m) == 12 * y + m - 1

\* Mutant of _add_months: a day that the month lacks spills into the next one.
AddMonthsSpilling(months) ==
  LET index == Index(date[1], date[2]) + months
  IN  At(index \div 12, (index % 12) + 1, 1) + Day * (date[3] - 1) + time

_add_months(months) ==
  LET index == Index(date[1], date[2]) + months
      y == index \div 12
      m == (index % 12) + 1
  IN  At(y, m, Min({date[3], monthrange(y, m)})) + time

_occurrence(k) == _add_months(k * cadence.months) + Day * k * cadence.days
-----------------------------------------------------------------------------
(* Slots. *)

_every(t) == ((t - offset) \div cadence.length + 1) * cadence.length + offset

\* 30.436875 days, as a fraction.
MeanMonth == <<48699, 1600>>

\* The guess: whole mean steps since the anchor.
Guess(t) ==
  LET elapsed == t - _occurrence(0)
      step == cadence.days * MeanMonth[2] + cadence.months * MeanMonth[1]
  IN  IF elapsed < 0 THEN 0 ELSE (elapsed * MeanMonth[2]) \div (Day * step)

\* Steps from the k-th that lead past an instant: a month has at least 28 days.
ShortestStep == Day * (28 * cadence.months + cadence.days)
Steps(k, t) ==
  IF t < _occurrence(k) THEN 0 ELSE ((t - _occurrence(k)) \div ShortestStep) + 1

\* The two loops.
WalkDown(k, t) == Max({j \in 0..k : j = 0 \/ _occurrence(j) + offset <= t})
WalkUp(k, t) == Min({j \in k..k + Steps(k, t) : _occurrence(j) + offset > t})

_anchored(t) == _occurrence(WalkUp(WalkDown(Guess(t), t), t)) + offset

next_slot(t) == IF cadence.mode = "MIN" THEN _every(t) ELSE _anchored(t)

Init ==
  /\ cadence \in Modes /\ date \in Dates /\ time \in Times /\ offset \in Offsets
  /\ now \in Starts
  /\ slot = next_slot(now)

\* The operation runs at its slot or later, and asks for the next one.
Run ==
  /\ slot <= MaxTime
  /\ \E d \in Delays : now' = slot + d
  /\ slot' = next_slot(now')
  /\ UNCHANGED <<cadence, date, time, offset>>

Next == Run

Spec == Init /\ [][Next]_vars
-----------------------------------------------------------------------------
Monthly == cadence.mode = "INTERVAL" /\ cadence.days = 0

\* The month, as an index, that an instant after the anchor is in.
MonthOf(t) ==
  CHOOSE i \in Index(date[1], date[2])..Index(date[1], date[2]) + cadence.months * Steps(0, t) :
    /\ At(i \div 12, (i % 12) + 1, 1) <= t
    /\ t < At((i + 1) \div 12, ((i + 1) % 12) + 1, 1)

\* next_slot: "The first slot strictly after now", found from a guess that may be
\* too low or too high: no step of the cadence lies between now and the slot,
\* whether now is before the anchor, on a slot, or years after the last.  And
\* "an anchor on the 31st falls on the 30th or the 28th, and returns to the 31st"
\* (_occurrence): a slot of a monthly cadence is on the anchor's day wherever the
\* month has one, and on its last day elsewhere, at the anchor's time.  Without an
\* anchor (_every) it is the next whole interval since the epoch, shifted.
FirstSlotAfterNow ==
  /\ slot > now
  /\ cadence.mode = "INTERVAL" =>
       /\ \E k \in 0..Steps(0, slot) : slot = _occurrence(k) + offset
       /\ \A k \in 0..Steps(0, slot) :
            _occurrence(k) + offset > now => _occurrence(k) + offset >= slot
  /\ cadence.mode = "MIN" =>
       slot - now <= cadence.length /\ (slot - offset) % cadence.length = 0
  /\ Monthly =>
       LET i == MonthOf(slot - offset)
           y == i \div 12
           m == (i % 12) + 1
       IN  slot - offset - time - At(y, m, 1)
             = Day * ((IF date[3] <= monthrange(y, m) THEN date[3] ELSE monthrange(y, m)) - 1)
=============================================================================
