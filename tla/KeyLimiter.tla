------------------------------ MODULE KeyLimiter ------------------------------
(***************************************************************************)
(* The pacing and the nonces of calls to Kraken: exchange/limits.py, and   *)
(* the call that uses them in exchange/client.py.                          *)
(*                                                                         *)
(* Threads share one limiter.  A thread reserves its slot under the guard  *)
(* and sleeps outside it, takes a nonce under the guard, and then signs    *)
(* and posts.  The monotonic clock paces; the wall clock, which a          *)
(* correction may set back, gives nonces.                                  *)
(***************************************************************************)
EXTENDS Integers, Sequences

CONSTANTS
  Threads, Buckets,
  None,
  MinInterval,  \* seconds between two calls of a bucket
  MaxTime,      \* bound: both clocks
  MaxCalls      \* bound: calls of a bucket

KeyLimiterConstants ==
  /\ MinInterval \in Nat /\ MaxTime \in Nat /\ MaxCalls \in Nat /\ None \notin Nat

VARIABLES
  now,         \* the monotonic clock
  clock,       \* the wall clock
  last_call,   \* the last slot reserved in each bucket, or None
  last_nonce,  \* the last nonce of each bucket
  call,        \* each thread's call
  slots,       \* history: the slots of each bucket, as they were reserved
  nonces,      \* history: the nonces of each bucket, as they were handed out
  arrived      \* history: the nonces of each bucket, as Kraken received them

history == <<slots, nonces, arrived>>
vars == <<now, clock, last_call, last_nonce, call, history>>

Calls == [pc : {"idle", "sleeps", "turn", "signed"}, bucket : Buckets \cup {None},
          slot : Nat, nonce : Nat]
Idle == [pc |-> "idle", bucket |-> None, slot |-> 0, nonce |-> 0]

TypeOK ==
  /\ now \in Nat /\ clock \in Nat
  /\ last_call \in [Buckets -> Nat \cup {None}]
  /\ last_nonce \in [Buckets -> Nat]
  /\ call \in [Threads -> Calls]
  /\ slots \in [Buckets -> Seq(Nat)] /\ nonces \in [Buckets -> Seq(Nat)]
  /\ arrived \in [Buckets -> Seq(Nat)]

Init ==
  /\ now = 0 /\ clock = 1
  /\ last_call = [b \in Buckets |-> None] /\ last_nonce = [b \in Buckets |-> 0]
  /\ call = [t \in Threads |-> Idle]
  /\ slots = [b \in Buckets |-> <<>>] /\ nonces = [b \in Buckets |-> <<>>]
  /\ arrived = [b \in Buckets |-> <<>>]
-----------------------------------------------------------------------------
\* Mutant of slot: a caller that has to wait is counted from now.
SlotNow(b) == now

\* now, or the last slot and the interval if that is later.
slot(b) ==
  IF last_call[b] = None \/ last_call[b] + MinInterval <= now THEN now
  ELSE last_call[b] + MinInterval

wait_turn(t, b) ==
  /\ call[t] = Idle /\ Len(slots[b]) < MaxCalls
  /\ last_call' = [last_call EXCEPT ![b] = slot(b)]
  /\ call' = [call EXCEPT ![t] = [Idle EXCEPT !.pc = "sleeps", !.bucket = b, !.slot = slot(b)]]
  /\ slots' = [slots EXCEPT ![b] = Append(@, slot(b))]
  /\ UNCHANGED <<now, clock, last_nonce, nonces, arrived>>

Wakes(t) ==
  /\ call[t].pc = "sleeps" /\ now >= call[t].slot
  /\ call' = [call EXCEPT ![t].pc = "turn"]
  /\ UNCHANGED <<now, clock, last_call, last_nonce, history>>

candidate(b) == IF clock <= last_nonce[b] THEN last_nonce[b] + 1 ELSE clock

next_nonce(t) ==
  LET b == call[t].bucket
  IN  /\ call[t].pc = "turn"
      /\ last_nonce' = [last_nonce EXCEPT ![b] = candidate(b)]
      /\ call' = [call EXCEPT ![t].pc = "signed", ![t].nonce = candidate(b)]
      /\ nonces' = [nonces EXCEPT ![b] = Append(@, candidate(b))]
      /\ UNCHANGED <<now, clock, last_call, slots, arrived>>

\* The request is posted, and Kraken receives it.
Post(t) ==
  /\ call[t].pc = "signed"
  /\ arrived' = [arrived EXCEPT ![call[t].bucket] = Append(@, call[t].nonce)]
  /\ call' = [call EXCEPT ![t] = Idle]
  /\ UNCHANGED <<now, clock, last_call, last_nonce, slots, nonces>>

\* The secret does not decode, or the transport fails before Kraken is reached.
Fails(t) ==
  /\ call[t].pc = "signed"
  /\ call' = [call EXCEPT ![t] = Idle]
  /\ UNCHANGED <<now, clock, last_call, last_nonce, history>>

Tick ==
  /\ now < MaxTime /\ now' = now + 1 /\ clock' = clock + 1
  /\ UNCHANGED <<last_call, last_nonce, call, history>>

\* A correction of the wall clock.
SetBack ==
  /\ clock > 1 /\ clock' = clock - 1
  /\ UNCHANGED <<now, last_call, last_nonce, call, history>>

Next ==
  \/ \E t \in Threads : Wakes(t) \/ next_nonce(t) \/ Post(t) \/ Fails(t)
  \/ \E t \in Threads, b \in Buckets : wait_turn(t, b)
  \/ Tick \/ SetBack

Spec == Init /\ [][Next]_vars
-----------------------------------------------------------------------------
Increasing(s) == \A i, j \in 1..Len(s) : i < j => s[i] < s[j]

\* wait_turn: however many threads come at once, and however long each slept,
\* two slots of a bucket are MinInterval apart.  next_nonce: its nonces are handed
\* out strictly increasing, within one reading of the clock and after a
\* correction that moved it back.
CallsTakeTurns ==
  \A b \in Buckets :
    /\ \A i, j \in 1..Len(slots[b]) : i < j => slots[b][i] + MinInterval <= slots[b][j]
    /\ Increasing(nonces[b])

\* next_nonce, "A nonce strictly greater than the last one this bucket used",
\* as Kraken sees the calls: it refuses a nonce not above the last it received.
NoncesArriveInOrder == \A b \in Buckets : Increasing(arrived[b])
=============================================================================
