--------------------------- MODULE EvaluationProofs ---------------------------
(***************************************************************************)
(* What evaluations share outside the database, for any number of them:    *)
(* the prices of a tick, Kraken's lists, and the turns of their calls; and *)
(* when an evaluation is next due, for any cadence.                        *)
(***************************************************************************)
EXTENDS RebalancingProofs, Sequences
-----------------------------------------------------------------------------
(***************************************************************************)
(* The prices of a tick.                                                   *)
(***************************************************************************)

\* The guard: only its holder has a call under way, and what it asks Kraken for
\* is still unknown.
GuardInv ==
  \A e \in Evaluations :
    asks[e] # {} => guard = e /\ \A p \in missing[e] : prices[p] = None

\* What was handed out is what the tick holds.
GotInv ==
  \A e \in Evaluations, p \in Pairs : \A x \in got[e][p] : prices[p] # None /\ x = prices[p]

PricesInv == Prices!TypeOK /\ GuardInv /\ GotInv

\* An answer made of what the tick holds by then.
LEMMA GivenIsHeld ==
  ASSUME NEW e \in Evaluations, NEW wanted, NEW have \in [Pairs -> Prices!Prices \cup {None}],
         Prices!TypeOK, GotInv,
         \A p \in Pairs : prices[p] # None => have[p] = prices[p],
         got' = Prices!Given(e, wanted, have), prices' = have
  PROVE  GotInv' /\ got' \in [Evaluations -> [Pairs -> SUBSET Prices!Prices]]
<1> DEFINE g == [p \in Pairs |-> IF p \in wanted /\ have[p] # None THEN got[e][p] \cup {have[p]}
                                 ELSE got[e][p]]
<1>1. got' = [got EXCEPT ![e] = g] /\ got \in [Evaluations -> [Pairs -> SUBSET Prices!Prices]]
  BY DEF Prices!Given, Prices!TypeOK
<1>2. g \in [Pairs -> SUBSET Prices!Prices]
  BY <1>1
<1>3. got' \in [Evaluations -> [Pairs -> SUBSET Prices!Prices]]
  BY <1>1, <1>2
<1>4. ASSUME NEW f \in Evaluations, NEW p \in Pairs, NEW x \in got'[f][p]
      PROVE  have[p] # None /\ x = have[p]
  BY <1>1, <1>4 DEF GotInv
<1> QED
  BY <1>3, <1>4 DEF GotInv

\* The tick begins with nobody in the guard and nothing handed out.
LEMMA PricesInit ==
  ASSUME Prices!TickMarketConstants, Prices!Init
  PROVE  PricesInv
<1>1. PICK read \in SUBSET Pairs :
        prices = [p \in Pairs |-> IF p \in read THEN price[p] ELSE None]
  BY DEF Prices!Init, Prices!preload
<1>2. 0 \in Prices!Prices
  BY DEF Prices!Prices, Prices!TickMarketConstants
<1>3. Prices!TypeOK
  BY <1>1, <1>2 DEF Prices!Init, Prices!TypeOK
<1>4. GuardInv /\ GotInv
  BY DEF Prices!Init, GuardInv, GotInv
<1> QED
  BY <1>3, <1>4 DEF PricesInv

\* Whoever leaves the guard had entered it, so nobody has a call under way then.
LEMMA LeavesAlone ==
  ASSUME NEW e \in Evaluations, Prices!TickMarketConstants, PricesInv, asks[e] # {},
         Prices!Leaves(e)
  PROVE  /\ guard' \in Evaluations \cup {None}
         /\ asks' \in [Evaluations -> SUBSET Pairs]
         /\ missing' \in [Evaluations -> SUBSET Pairs]
         /\ \A f \in Evaluations : asks'[f] = {}
<1>1. Prices!TypeOK /\ guard = e
  BY DEF PricesInv, GuardInv
<1>2. asks' = [asks EXCEPT ![e] = {}] /\ missing' = [missing EXCEPT ![e] = {}] /\ guard' = None
  BY <1>1 DEF Prices!Leaves
<1>3. \A f \in Evaluations : f # e => asks[f] = {}
  BY <1>1 DEF PricesInv, GuardInv
<1> QED
  BY <1>1, <1>2, <1>3 DEF Prices!TypeOK

\* Every step of a tick keeps the guard, the prices held and those handed out in
\* agreement.
LEMMA PricesStep ==
  ASSUME Prices!TickMarketConstants, PricesInv, [Prices!Next]_(Prices!vars)
  PROVE  PricesInv'
<1> USE DEF PricesInv
<1>1. ASSUME NEW e \in Evaluations, Prices!ticker(e)
      PROVE  PricesInv'
  <2>1. PICK pairs \in SUBSET Pairs \ {{}} :
          LET lacking == {p \in pairs : prices[p] = None}
          IN  IF lacking = {}
              THEN got' = Prices!Given(e, pairs, prices) /\ UNCHANGED <<guard, asks, missing>>
              ELSE /\ guard' = e
                   /\ asks' = [asks EXCEPT ![e] = pairs]
                   /\ missing' = [missing EXCEPT ![e] = lacking]
                   /\ UNCHANGED got
    BY <1>1 DEF Prices!ticker
  <2>2. UNCHANGED <<price, prices>> /\ guard = None
    BY <1>1 DEF Prices!ticker, Prices!Enters
  <2>3. \A f \in Evaluations : asks[f] = {}
    BY <2>2 DEF GuardInv, Prices!TickMarketConstants
  <2>4. CASE {p \in pairs : prices[p] = None} = {}
    <3>1. got' = Prices!Given(e, pairs, prices) /\ UNCHANGED <<guard, asks, missing>>
      BY <2>1, <2>4
    <3>2. prices \in [Pairs -> Prices!Prices \cup {None}] /\ prices' = prices
      BY <2>2 DEF Prices!TypeOK
    <3>3. GotInv' /\ got' \in [Evaluations -> [Pairs -> SUBSET Prices!Prices]]
      BY <3>1, <3>2, GivenIsHeld
    <3>4. GuardInv'
      BY <3>1, <2>3 DEF GuardInv
    <3> QED
      BY <3>1, <3>3, <3>4, <2>2 DEF Prices!TypeOK
  <2>5. CASE {p \in pairs : prices[p] = None} # {}
    <3>1. /\ guard' = e /\ asks' = [asks EXCEPT ![e] = pairs]
          /\ missing' = [missing EXCEPT ![e] = {p \in pairs : prices[p] = None}]
          /\ UNCHANGED got
      BY <2>1, <2>5
    <3>2. Prices!TypeOK'
      BY <2>2, <3>1 DEF Prices!TypeOK
    <3>3. GuardInv'
      BY <2>2, <2>3, <3>1 DEF GuardInv, Prices!TypeOK
    <3>4. GotInv'
      BY <2>2, <3>1 DEF GotInv
    <3> QED
      BY <3>2, <3>3, <3>4
  <2> QED
    BY <2>4, <2>5
<1>2. ASSUME NEW e \in Evaluations, Prices!Fetched(e)
      PROVE  PricesInv'
  <2>1. PICK read \in SUBSET missing[e] :
          LET have == [p \in Pairs |-> IF p \in read THEN price[p] ELSE prices[p]]
          IN  prices' = have /\ got' = Prices!Given(e, asks[e], have)
    BY <1>2 DEF Prices!Fetched
  <2> DEFINE have == [p \in Pairs |-> IF p \in read THEN price[p] ELSE prices[p]]
  <2>2. /\ prices' = have /\ got' = Prices!Given(e, asks[e], have)
        /\ price' = price /\ asks[e] # {} /\ Prices!Leaves(e)
    BY <1>2, <2>1 DEF Prices!Fetched
  <2>3. have \in [Pairs -> Prices!Prices \cup {None}]
    BY DEF Prices!TypeOK
  <2>4. \A p \in Pairs : prices[p] # None => have[p] = prices[p]
    BY <2>2 DEF GuardInv
  <2> HIDE DEF have
  <2>5. GotInv' /\ got' \in [Evaluations -> [Pairs -> SUBSET Prices!Prices]]
    BY <2>2, <2>3, <2>4, GivenIsHeld
  <2>6. /\ guard' \in Evaluations \cup {None}
        /\ asks' \in [Evaluations -> SUBSET Pairs]
        /\ missing' \in [Evaluations -> SUBSET Pairs]
        /\ \A f \in Evaluations : asks'[f] = {}
    BY <2>2, LeavesAlone
  <2>7. Prices!TypeOK'
    BY <2>2, <2>3, <2>5, <2>6 DEF Prices!TypeOK
  <2>8. GuardInv'
    BY <2>6 DEF GuardInv
  <2> QED
    BY <2>5, <2>7, <2>8
<1>3. ASSUME NEW e \in Evaluations, Prices!FetchFails(e)
      PROVE  PricesInv'
  <2>1. UNCHANGED <<price, prices, got>> /\ asks[e] # {} /\ Prices!Leaves(e)
    BY <1>3 DEF Prices!FetchFails
  <2>2. /\ guard' \in Evaluations \cup {None}
        /\ asks' \in [Evaluations -> SUBSET Pairs]
        /\ missing' \in [Evaluations -> SUBSET Pairs]
        /\ \A f \in Evaluations : asks'[f] = {}
    BY <2>1, LeavesAlone
  <2> QED
    BY <2>1, <2>2 DEF Prices!TypeOK, GuardInv, GotInv
<1>4. ASSUME NEW p \in Pairs, Prices!Move(p)
      PROVE  PricesInv'
  <2>1. price' \in [Pairs -> Prices!Prices]
    BY <1>4 DEF Prices!Move, Prices!TypeOK, Prices!Prices, Prices!TickMarketConstants
  <2> QED
    BY <1>4, <2>1 DEF Prices!Move, Prices!TypeOK, GuardInv, GotInv
<1>5. CASE UNCHANGED Prices!vars
  BY <1>5 DEF Prices!vars, Prices!TypeOK, GuardInv, GotInv
<1> QED
  BY <1>1, <1>2, <1>3, <1>4, <1>5 DEF Prices!Next

\* The invariant holds in every state that the evaluations of a tick reach.
LEMMA PricesInvariant == Spec => [](part = "market" => PricesInv)
<1>1. Init => (part = "market" => PricesInv)
  BY InputsConstants, PricesInit DEF Init
<1>2. (part = "market" => PricesInv) /\ [Next]_vars => (part = "market" => PricesInv)'
  <2> SUFFICES ASSUME PricesInv, part = "market", [Next]_vars PROVE PricesInv'
    BY DEF Next, vars
  <2>1. [Prices!Next]_(Prices!vars)
    BY DEF Next, vars, market, Prices!vars
  <2> QED
    BY <2>1, InputsConstants, PricesStep
<1> QED
  BY <1>1, <1>2, PTL DEF Spec

\* TickMarket: within a tick, whatever evaluations ask at the same time and
\* whatever Kraken leaves out, nobody is given two prices of a pair.
THEOREM TickHasOnePrice == Spec => []OnePriceATick
<1>1. (part = "market" => PricesInv) => OnePriceATick
  BY DEF PricesInv, GotInv, Prices!OnePriceATick, OnePriceATick
<1> QED
  BY <1>1, PricesInvariant, PTL
-----------------------------------------------------------------------------
(***************************************************************************)
(* Kraken's lists.                                                         *)
(***************************************************************************)
\* When each version was replaced: in the past, and the one of now not yet.
UntilInv ==
  \A v \in Lists!Versions :
    /\ until[v] # None => until[v] <= now
    /\ v >= kraken => until[v] = None

\* Version v was Kraken's list at s, or after it.
ListedAt(v, s) == until[v] = None \/ until[v] >= s

\* A read under way: within its time, and its answer no older than its start.
Reading(t) ==
  /\ thread[t].pc = "idle" => thread[t] = Lists!Idle
  /\ thread[t].pc # "idle" => thread[t].since <= now /\ now <= thread[t].since + Timeout
  /\ thread[t].pc = "read" =>
       thread[t].version \in Lists!Versions /\ ListedAt(thread[t].version, thread[t].since)

ReadingInv == \A t \in Threads : Reading(t)

\* The copy: the time it carries is that of the end of the read, so its version
\* may have been replaced up to Timeout before.
CopyInv ==
  copy # None => copy.at <= now /\ ListedAt(copy.version, copy.at - Timeout)

ListsInv == Lists!TypeOK /\ UntilInv /\ ReadingInv /\ CopyInv /\ Lists!AnswersAreFresh

\* What was listed at a time within TTL and Timeout of now may be answered.
LEMMA FreshAnswer ==
  ASSUME Lists!CatalogConstants, Lists!TypeOK, NEW v \in Lists!Versions, NEW s \in Int,
         ListedAt(v, s), now < s + TTL + Timeout,
         Lists!AnswersAreFresh, Lists!Answer(v)
  PROVE  Lists!AnswersAreFresh' /\ tooOld' \in BOOLEAN
<1>1. until[v] \in Nat \cup {None} /\ now \in Int /\ TTL \in Int /\ Timeout \in Int
  BY DEF Lists!TypeOK, Lists!CatalogConstants
<1>2. ~(until[v] # None /\ until[v] + TTL + Timeout <= now)
  BY <1>1 DEF ListedAt
<1> QED
  BY <1>2 DEF Lists!Answer, Lists!AnswersAreFresh

LEMMA ListsInit ==
  ASSUME Lists!CatalogConstants, Lists!Init
  PROVE  ListsInv
<1> USE DEF Lists!CatalogConstants
<1>1. Lists!Idle \in Lists!Gets
  BY DEF Lists!Idle, Lists!Gets
<1>2. Lists!TypeOK
  <2>1. 0 \in 0..MaxTime /\ 0 \in Lists!Versions
    BY DEF Lists!Versions
  <2>2. tooOld \in BOOLEAN
    BY DEF Lists!Init
  <2> QED
    BY <1>1, <2>1, <2>2 DEF Lists!Init, Lists!TypeOK
<1>3. UntilInv
  BY DEF Lists!Init, UntilInv
<1>4. ReadingInv
  BY DEF Lists!Init, ReadingInv, Reading, Lists!Idle
<1>5. CopyInv /\ Lists!AnswersAreFresh
  BY DEF Lists!Init, CopyInv, Lists!AnswersAreFresh
<1> QED
  BY <1>2, <1>3, <1>4, <1>5 DEF ListsInv

\* A thread's call goes on, and Kraken's list and the clock stay: the other
\* threads' reads are as good as before.
LEMMA OneThreadMoves ==
  ASSUME ListsInv, NEW t \in Threads, NEW get \in Lists!Gets,
         thread' = [thread EXCEPT ![t] = get], UNCHANGED <<now, kraken, until>>,
         Reading(t)'
  PROVE  UntilInv' /\ ReadingInv' /\ thread' \in [Threads -> Lists!Gets]
<1>1. thread' \in [Threads -> Lists!Gets]
  BY DEF ListsInv, Lists!TypeOK
<1>2. UntilInv'
  BY DEF ListsInv, UntilInv
<1>3. ASSUME NEW q \in Threads, q # t
      PROVE  Reading(q)'
  <2>1. thread'[q] = thread[q] /\ Reading(q)
    BY <1>3 DEF ListsInv, Lists!TypeOK, ReadingInv
  <2> QED
    BY <2>1 DEF Reading, ListedAt
<1> QED
  BY <1>1, <1>2, <1>3 DEF ReadingInv

LEMMA ListsStep ==
  ASSUME Lists!CatalogConstants, ListsInv, [Lists!Next]_(Lists!vars)
  PROVE  ListsInv'
<1> USE DEF Lists!CatalogConstants
<1>0. Lists!Idle \in Lists!Gets /\ Lists!Idle.pc = "idle"
  BY DEF Lists!Idle, Lists!Gets
<1>1. ASSUME NEW t \in Threads, Lists!Hit(t)
      PROVE  ListsInv'
  <2>1. /\ copy # None /\ now - copy.at < TTL /\ Lists!Answer(copy.version)
        /\ UNCHANGED <<now, kraken, until, copy, thread>>
    BY <1>1 DEF Lists!Hit, Lists!kept
  <2>2. copy.version \in Lists!Versions /\ copy.at \in Nat /\ now \in Nat
    BY <2>1 DEF ListsInv, Lists!TypeOK, Lists!Copies
  <2>3. ListedAt(copy.version, copy.at - Timeout)
    BY <2>1 DEF ListsInv, CopyInv
  <2>4. now < (copy.at - Timeout) + TTL + Timeout /\ copy.at - Timeout \in Int
    BY <2>1, <2>2
  <2>5. Lists!AnswersAreFresh' /\ tooOld' \in BOOLEAN
    BY <2>1, <2>2, <2>3, <2>4, FreshAnswer DEF ListsInv
  <2> QED
    BY <2>1, <2>5 DEF ListsInv, Lists!TypeOK, UntilInv, ReadingInv, Reading, ListedAt, CopyInv
<1>2. ASSUME NEW t \in Threads, Lists!Miss(t)
      PROVE  ListsInv'
  <2> DEFINE get == [Lists!Idle EXCEPT !.pc = "reads", !.since = now]
  <2>1. thread' = [thread EXCEPT ![t] = get] /\ UNCHANGED <<now, kraken, until, copy, tooOld>>
    BY <1>2 DEF Lists!Miss
  <2>2. now \in Nat /\ Timeout \in Nat
    BY DEF ListsInv, Lists!TypeOK
  <2>3. get \in Lists!Gets /\ get.pc = "reads" /\ get.since = now
    BY <2>2 DEF Lists!Idle, Lists!Gets
  <2> HIDE DEF get
  <2>4. thread'[t] = get
    BY <2>1 DEF ListsInv, Lists!TypeOK
  <2>5. Reading(t)'
    BY <2>1, <2>2, <2>3, <2>4 DEF Reading
  <2>6. UntilInv' /\ ReadingInv' /\ thread' \in [Threads -> Lists!Gets]
    BY <2>1, <2>3, <2>5, OneThreadMoves
  <2> QED
    BY <2>1, <2>6 DEF ListsInv, Lists!TypeOK, CopyInv, ListedAt, Lists!AnswersAreFresh
<1>3. ASSUME NEW t \in Threads, Lists!KrakenAnswers(t)
      PROVE  ListsInv'
  <2> DEFINE get == [thread[t] EXCEPT !.pc = "read", !.version = kraken]
  <2>1. /\ thread' = [thread EXCEPT ![t] = get] /\ UNCHANGED <<now, kraken, until, copy, tooOld>>
        /\ thread[t].pc = "reads"
    BY <1>3 DEF Lists!KrakenAnswers
  <2>2. thread[t] \in Lists!Gets /\ kraken \in Lists!Versions /\ Reading(t)
    BY DEF ListsInv, Lists!TypeOK, ReadingInv
  <2>3. /\ get \in Lists!Gets /\ get.pc = "read" /\ get.version = kraken
        /\ get.since = thread[t].since
    BY <2>2 DEF Lists!Gets
  <2> HIDE DEF get
  <2>4. thread'[t] = get
    BY <2>1 DEF ListsInv, Lists!TypeOK
  <2>5. until[kraken] = None
    BY <2>2 DEF ListsInv, UntilInv, Lists!Versions
  <2>6. Reading(t)'
    BY <2>1, <2>2, <2>3, <2>4, <2>5 DEF Reading, ListedAt
  <2>7. UntilInv' /\ ReadingInv' /\ thread' \in [Threads -> Lists!Gets]
    BY <2>1, <2>3, <2>6, OneThreadMoves
  <2> QED
    BY <2>1, <2>7 DEF ListsInv, Lists!TypeOK, CopyInv, ListedAt, Lists!AnswersAreFresh
<1>4. ASSUME NEW t \in Threads, Lists!Keep(t)
      PROVE  ListsInv'
  <2>1. /\ thread[t].pc = "read" /\ copy' = [at |-> now, version |-> thread[t].version]
        /\ Lists!Answer(thread[t].version) /\ thread' = [thread EXCEPT ![t] = Lists!Idle]
        /\ UNCHANGED <<now, kraken, until>>
    BY <1>4 DEF Lists!Keep
  <2>2. /\ now \in Nat /\ thread[t].since \in Nat /\ thread[t].version \in Lists!Versions
        /\ thread[t].since <= now /\ now <= thread[t].since + Timeout
        /\ ListedAt(thread[t].version, thread[t].since)
    BY <2>1 DEF ListsInv, Lists!TypeOK, Lists!Gets, ReadingInv, Reading
  <2>3. thread'[t] = Lists!Idle
    BY <2>1 DEF ListsInv, Lists!TypeOK
  <2>4. Reading(t)'
    BY <1>0, <2>3 DEF Reading
  <2>5. UntilInv' /\ ReadingInv' /\ thread' \in [Threads -> Lists!Gets]
    BY <1>0, <2>1, <2>4, OneThreadMoves
  <2>6. now < thread[t].since + TTL + Timeout
    BY <2>2
  <2>7. Lists!AnswersAreFresh' /\ tooOld' \in BOOLEAN
    BY <2>1, <2>2, <2>6, FreshAnswer DEF ListsInv
  <2>8. until[thread[t].version] \in Nat \cup {None}
    BY <2>2 DEF ListsInv, Lists!TypeOK
  <2>9. CopyInv' /\ copy' \in Lists!Copies
    BY <2>1, <2>2, <2>8 DEF CopyInv, ListedAt, Lists!Copies
  <2> QED
    BY <2>1, <2>5, <2>7, <2>9 DEF ListsInv, Lists!TypeOK
<1>5. ASSUME NEW t \in Threads, Lists!ReadFails(t)
      PROVE  ListsInv'
  <2>1. /\ thread' = [thread EXCEPT ![t] = Lists!Idle]
        /\ UNCHANGED <<now, kraken, until, copy, tooOld>>
    BY <1>5 DEF Lists!ReadFails, Lists!AfterFailure
  <2>2. thread'[t] = Lists!Idle
    BY <2>1 DEF ListsInv, Lists!TypeOK
  <2>3. Reading(t)'
    BY <1>0, <2>2 DEF Reading
  <2>4. UntilInv' /\ ReadingInv' /\ thread' \in [Threads -> Lists!Gets]
    BY <1>0, <2>1, <2>3, OneThreadMoves
  <2> QED
    BY <2>1, <2>4 DEF ListsInv, Lists!TypeOK, CopyInv, ListedAt, Lists!AnswersAreFresh
<1>6. ASSUME Lists!Change
      PROVE  ListsInv'
  <2>1. /\ kraken < MaxVersion /\ kraken' = kraken + 1 /\ until' = [until EXCEPT ![kraken] = now]
        /\ UNCHANGED <<now, copy, thread, tooOld>>
    BY <1>6 DEF Lists!Change
  <2>2. /\ now \in Nat /\ kraken \in Lists!Versions /\ kraken' \in Lists!Versions
        /\ until \in [Lists!Versions -> Nat \cup {None}]
        /\ until' \in [Lists!Versions -> Nat \cup {None}]
    BY <2>1 DEF ListsInv, Lists!TypeOK, Lists!Versions
  <2>3. until'[kraken] = now /\ \A v \in Lists!Versions : v # kraken => until'[v] = until[v]
    BY <2>1, <2>2
  <2>4. UntilInv'
    BY <2>1, <2>2, <2>3 DEF ListsInv, UntilInv, Lists!Versions
  <2>5. ASSUME NEW v \in Lists!Versions, NEW s \in Int, ListedAt(v, s), s <= now
        PROVE  until'[v] = None \/ until'[v] >= s
    BY <2>2, <2>3, <2>5 DEF ListedAt
  <2>6. ReadingInv'
    <3> SUFFICES ASSUME NEW t \in Threads
                 PROVE  Reading(t)'
      BY DEF ReadingInv
    <3>1. Reading(t) /\ thread'[t] = thread[t] /\ thread[t].since \in Nat
      BY <2>1 DEF ListsInv, ReadingInv, Lists!TypeOK, Lists!Gets
    <3> QED
      BY <2>1, <2>5, <3>1 DEF Reading, ListedAt
  <2>7. CopyInv'
    <3>1. CASE copy = None
      BY <2>1, <3>1 DEF CopyInv
    <3>2. CASE copy # None
      <4>1. /\ copy.at \in Nat /\ copy.version \in Lists!Versions /\ copy.at <= now
            /\ ListedAt(copy.version, copy.at - Timeout)
        BY <3>2 DEF ListsInv, Lists!TypeOK, Lists!Copies, CopyInv
      <4>2. copy.at - Timeout \in Int /\ copy.at - Timeout <= now
        BY <4>1, <2>2
      <4> QED
        BY <2>1, <2>5, <4>1, <4>2 DEF CopyInv, ListedAt
    <3> QED
      BY <3>1, <3>2
  <2> QED
    BY <2>1, <2>2, <2>4, <2>6, <2>7 DEF ListsInv, Lists!TypeOK, Lists!AnswersAreFresh
<1>7. ASSUME Lists!Clock
      PROVE  ListsInv'
  <2>1. /\ now < MaxTime /\ now' = now + 1 /\ UNCHANGED <<kraken, until, copy, thread, tooOld>>
        /\ \A t \in Threads : thread[t] # Lists!Idle => now < thread[t].since + Timeout
    BY <1>7 DEF Lists!Clock
  <2>2. now \in Nat /\ now' \in 0..MaxTime /\ until \in [Lists!Versions -> Nat \cup {None}]
    BY <2>1 DEF ListsInv, Lists!TypeOK
  <2>3. UntilInv'
    BY <2>1, <2>2 DEF ListsInv, UntilInv
  <2>4. ReadingInv'
    <3> SUFFICES ASSUME NEW t \in Threads
                 PROVE  Reading(t)'
      BY DEF ReadingInv
    <3>1. Reading(t) /\ thread'[t] = thread[t] /\ thread[t].since \in Nat
      BY <2>1 DEF ListsInv, ReadingInv, Lists!TypeOK, Lists!Gets
    <3> QED
      BY <1>0, <2>1, <2>2, <3>1 DEF Reading, ListedAt
  <2>5. CopyInv'
    <3>1. copy # None => copy.at \in Nat
      BY DEF ListsInv, Lists!TypeOK, Lists!Copies
    <3> QED
      BY <2>1, <2>2, <3>1 DEF ListsInv, CopyInv, ListedAt
  <2> QED
    BY <2>1, <2>2, <2>3, <2>4, <2>5 DEF ListsInv, Lists!TypeOK, Lists!AnswersAreFresh
<1>8. CASE UNCHANGED Lists!vars
  BY <1>8 DEF Lists!vars, ListsInv, Lists!TypeOK, UntilInv, ReadingInv, Reading, ListedAt,
     CopyInv, Lists!AnswersAreFresh
<1> QED
  BY <1>1, <1>2, <1>3, <1>4, <1>5, <1>6, <1>7, <1>8 DEF Lists!Next

\* The invariant holds in every state that readers of the catalog reach.
LEMMA ListsInvariant == Spec => [](part = "lists" => ListsInv)
<1>1. Init => (part = "lists" => ListsInv)
  BY InputsConstants, ListsInit DEF Init
<1>2. (part = "lists" => ListsInv) /\ [Next]_vars => (part = "lists" => ListsInv)'
  <2> SUFFICES ASSUME ListsInv, part = "lists", [Next]_vars PROVE ListsInv'
    BY DEF Next, vars
  <2>1. [Lists!Next]_(Lists!vars)
    BY DEF Next, vars, lists, Lists!vars
  <2> QED
    BY <2>1, InputsConstants, ListsStep
<1> QED
  BY <1>1, <1>2, PTL DEF Spec

\* _Kept: without a lock, and with any number of threads reading and keeping at
\* once, no answer of get is older than TTL and the time of one read.
THEOREM CatalogIsFresh == Spec => []AnswersAreFresh
<1>1. (part = "lists" => ListsInv) => AnswersAreFresh
  BY DEF ListsInv, Lists!AnswersAreFresh, AnswersAreFresh
<1> QED
  BY <1>1, ListsInvariant, PTL
-----------------------------------------------------------------------------
(***************************************************************************)
(* The turns and the nonces of calls.                                      *)
(***************************************************************************)
\* A call under way has its bucket.
CallInv == \A t \in Threads : call[t].pc # "idle" => call[t].bucket \in Buckets

\* What the limiter remembers of a bucket is the last and the largest of its history.
SlotInv ==
  \A b \in Buckets :
    IF last_call[b] = None THEN slots[b] = <<>>
    ELSE \A i \in 1..Len(slots[b]) : slots[b][i] <= last_call[b]
NonceInv == \A b \in Buckets : \A i \in 1..Len(nonces[b]) : nonces[b][i] <= last_nonce[b]

TurnsInv == Limiter!TypeOK /\ CallInv /\ SlotInv /\ NonceInv /\ Limiter!CallsTakeTurns

\* A sequence whose members are d apart, or more.
Spaced(s, d) == \A i, j \in 1..Len(s) : i < j => s[i] + d <= s[j]
AtMost(s, x) == \A i \in 1..Len(s) : s[i] <= x

\* It stays so when what is appended comes d after them all, which is then the last.
LEMMA SpacedAppend ==
  ASSUME NEW s \in Seq(Nat), NEW x \in Nat, NEW d \in Nat, Spaced(s, d),
         \A i \in 1..Len(s) : s[i] + d <= x
  PROVE  Append(s, x) \in Seq(Nat) /\ Spaced(Append(s, x), d) /\ AtMost(Append(s, x), x)
<1> DEFINE a == Append(s, x)
<1>1. /\ a \in Seq(Nat) /\ Len(a) = Len(s) + 1 /\ a[Len(s) + 1] = x
      /\ \A i \in 1..Len(s) : a[i] = s[i]
  OBVIOUS
<1>2. Len(s) \in Nat /\ \A i \in 1..Len(s) : s[i] \in Nat
  OBVIOUS
<1> HIDE DEF a
<1>3. \A i \in 1..Len(a) : i = Len(s) + 1 \/ i \in 1..Len(s)
  BY <1>1, <1>2
<1>4. AtMost(a, x)
  <2>1. \A i \in 1..Len(s) : s[i] <= x
    BY <1>2
  <2> QED
    BY <1>1, <1>3, <2>1 DEF AtMost
<1>5. ASSUME NEW i \in 1..Len(a), NEW j \in 1..Len(a), i < j
      PROVE  a[i] + d <= a[j]
  <2>1. i \in 1..Len(s)
    BY <1>1, <1>2, <1>5
  <2>2. CASE j \in 1..Len(s)
    BY <1>1, <1>5, <2>1, <2>2 DEF Spaced
  <2>3. CASE j = Len(s) + 1
    BY <1>1, <2>1, <2>3
  <2> QED
    BY <1>3, <2>2, <2>3
<1> QED
  BY <1>1, <1>4, <1>5 DEF Spaced, a

\* CallsTakeTurns, as Spaced says it.
LEMMA TurnsAreSpaced ==
  ASSUME slots \in [Buckets -> Seq(Nat)], nonces \in [Buckets -> Seq(Nat)]
  PROVE  Limiter!CallsTakeTurns <=>
           \A b \in Buckets : Spaced(slots[b], MinInterval) /\ Spaced(nonces[b], 1)
<1>1. ASSUME NEW b \in Buckets
      PROVE  Limiter!Increasing(nonces[b]) <=> Spaced(nonces[b], 1)
  <2>1. \A i, j \in 1..Len(nonces[b]) :
          (nonces[b][i] < nonces[b][j]) <=> (nonces[b][i] + 1 <= nonces[b][j])
    <3>1. \A i \in 1..Len(nonces[b]) : nonces[b][i] \in Nat
      OBVIOUS
    <3> QED
      BY <3>1
  <2>2. Spaced(nonces[b], 1) <=>
          \A i, j \in 1..Len(nonces[b]) : i < j => nonces[b][i] + 1 <= nonces[b][j]
    BY DEF Spaced
  <2>3. Limiter!Increasing(nonces[b]) <=>
          \A i, j \in 1..Len(nonces[b]) : i < j => nonces[b][i] < nonces[b][j]
    BY DEF Limiter!Increasing
  <2> QED
    BY <2>1, <2>2, <2>3
<1> QED
  BY <1>1 DEF Limiter!CallsTakeTurns, Spaced

LEMMA TurnsInit ==
  ASSUME Limiter!KeyLimiterConstants, Limiter!Init
  PROVE  TurnsInv
<1>1. Limiter!Idle \in Limiter!Calls /\ Limiter!Idle.pc = "idle"
  BY DEF Limiter!Idle, Limiter!Calls
<1>2. Limiter!TypeOK
  BY <1>1 DEF Limiter!Init, Limiter!TypeOK
<1>3. CallInv
  BY <1>1 DEF Limiter!Init, CallInv
<1>4. SlotInv /\ NonceInv
  BY DEF Limiter!Init, SlotInv, NonceInv
<1>5. Limiter!CallsTakeTurns
  BY DEF Limiter!Init, Limiter!CallsTakeTurns, Limiter!Increasing
<1> QED
  BY <1>2, <1>3, <1>4, <1>5 DEF TurnsInv

LEMMA TurnsStep ==
  ASSUME Limiter!KeyLimiterConstants, TurnsInv, [Limiter!Next]_(Limiter!vars)
  PROVE  TurnsInv'
<1> USE DEF Limiter!KeyLimiterConstants
<1>0. Limiter!Idle \in Limiter!Calls /\ Limiter!Idle.pc = "idle"
  BY DEF Limiter!Idle, Limiter!Calls
<1>t. /\ now \in Nat /\ clock \in Nat /\ last_call \in [Buckets -> Nat \cup {None}]
      /\ last_nonce \in [Buckets -> Nat] /\ call \in [Threads -> Limiter!Calls]
      /\ slots \in [Buckets -> Seq(Nat)] /\ nonces \in [Buckets -> Seq(Nat)]
      /\ arrived \in [Buckets -> Seq(Nat)]
  BY DEF TurnsInv, Limiter!TypeOK
<1>s. \A b \in Buckets : Spaced(slots[b], MinInterval) /\ Spaced(nonces[b], 1)
  BY <1>t, TurnsAreSpaced DEF TurnsInv
\* The call of one thread goes on, and is in its bucket.
<1>c. ASSUME NEW t \in Threads, NEW c \in Limiter!Calls, call' = [call EXCEPT ![t] = c],
             c.pc # "idle" => c.bucket \in Buckets
      PROVE  CallInv' /\ call' \in [Threads -> Limiter!Calls]
  <2>1. call' \in [Threads -> Limiter!Calls]
    BY <1>c, <1>t
  <2>2. ASSUME NEW q \in Threads
        PROVE  call'[q] = IF q = t THEN c ELSE call[q]
    BY <1>c, <1>t
  <2> QED
    BY <2>1, <2>2, <1>c DEF TurnsInv, CallInv
<1>1. ASSUME NEW t \in Threads, NEW b \in Buckets, Limiter!wait_turn(t, b)
      PROVE  TurnsInv'
  <2> DEFINE x == Limiter!slot(b)
             c == [Limiter!Idle EXCEPT !.pc = "sleeps", !.bucket = b, !.slot = x]
  <2>1. /\ last_call' = [last_call EXCEPT ![b] = x] /\ call' = [call EXCEPT ![t] = c]
        /\ slots' = [slots EXCEPT ![b] = Append(slots[b], x)]
        /\ UNCHANGED <<now, clock, last_nonce, nonces, arrived>>
    BY <1>1 DEF Limiter!wait_turn
  <2>2. /\ x \in Nat
        /\ last_call[b] # None => last_call[b] \in Nat /\ last_call[b] + MinInterval <= x
    BY <1>t DEF Limiter!slot
  <2>3. c \in Limiter!Calls /\ c.bucket = b
    BY <2>2 DEF Limiter!Idle, Limiter!Calls
  <2> HIDE DEF x, c
  <2>4. CallInv' /\ call' \in [Threads -> Limiter!Calls]
    BY <1>c, <2>1, <2>3
  <2>5. \A i \in 1..Len(slots[b]) : slots[b][i] + MinInterval <= x
    <3>1. CASE last_call[b] = None
      <4>1. slots[b] = <<>>
        BY <3>1 DEF TurnsInv, SlotInv
      <4> QED
        BY <4>1
    <3>2. CASE last_call[b] # None
      <4>1. \A i \in 1..Len(slots[b]) : slots[b][i] <= last_call[b] /\ slots[b][i] \in Nat
        BY <1>t, <3>2 DEF TurnsInv, SlotInv
      <4> QED
        BY <2>2, <3>2, <4>1
    <3> QED
      BY <3>1, <3>2
  <2> DEFINE a == Append(slots[b], x)
  <2>6. slots[b] \in Seq(Nat) /\ MinInterval \in Nat /\ Spaced(slots[b], MinInterval)
    BY <1>t, <1>s
  <2>7. a \in Seq(Nat) /\ Spaced(a, MinInterval) /\ AtMost(a, x)
    BY <2>2, <2>5, <2>6, SpacedAppend
  <2>8. slots' = [slots EXCEPT ![b] = a]
    BY <2>1
  <2> HIDE DEF a
  <2>9. /\ slots' \in [Buckets -> Seq(Nat)]
        /\ \A q \in Buckets : slots'[q] = IF q = b THEN a ELSE slots[q]
    BY <1>t, <2>7, <2>8
  <2>10. /\ last_call' \in [Buckets -> Nat \cup {None}]
         /\ \A q \in Buckets : last_call'[q] = IF q = b THEN x ELSE last_call[q]
    BY <1>t, <2>1, <2>2
  <2>11. Limiter!TypeOK'
    BY <1>t, <2>1, <2>4, <2>9, <2>10 DEF Limiter!TypeOK
  <2>12. SlotInv'
    BY <2>2, <2>7, <2>9, <2>10 DEF TurnsInv, SlotInv, AtMost
  <2>13. NonceInv'
    BY <2>1 DEF TurnsInv, NonceInv
  <2>14. \A q \in Buckets : Spaced(slots'[q], MinInterval) /\ Spaced(nonces'[q], 1)
    BY <1>s, <2>1, <2>7, <2>9
  <2>15. Limiter!CallsTakeTurns'
    <3>1. slots' \in [Buckets -> Seq(Nat)] /\ nonces' \in [Buckets -> Seq(Nat)]
      BY <2>11 DEF Limiter!TypeOK
    <3>2. \A q \in Buckets : \A i \in 1..Len(nonces'[q]) : nonces'[q][i] \in Nat
      BY <3>1
    <3> QED
      BY <2>14, <3>2 DEF Limiter!CallsTakeTurns, Limiter!Increasing, Spaced
  <2> QED
    BY <2>4, <2>11, <2>12, <2>13, <2>15 DEF TurnsInv
<1>2. ASSUME NEW t \in Threads, Limiter!Wakes(t)
      PROVE  TurnsInv'
  <2> DEFINE c == [call[t] EXCEPT !.pc = "turn"]
  <2>1. /\ call' = [call EXCEPT ![t] = c] /\ call[t].pc = "sleeps"
        /\ UNCHANGED <<now, clock, last_call, last_nonce, slots, nonces, arrived>>
    BY <1>2 DEF Limiter!Wakes, Limiter!history
  <2>2. c \in Limiter!Calls /\ c.bucket = call[t].bucket
    BY <1>t DEF Limiter!Calls
  <2>3. call[t].bucket \in Buckets
    BY <2>1 DEF TurnsInv, CallInv
  <2> HIDE DEF c
  <2>4. CallInv' /\ call' \in [Threads -> Limiter!Calls]
    BY <1>c, <2>1, <2>2, <2>3
  <2> QED
    BY <2>1, <2>4 DEF TurnsInv, Limiter!TypeOK, SlotInv, NonceInv, Limiter!CallsTakeTurns
<1>3. ASSUME NEW t \in Threads, Limiter!next_nonce(t)
      PROVE  TurnsInv'
  <2> DEFINE b == call[t].bucket
             x == Limiter!candidate(b)
             c == [call[t] EXCEPT !.pc = "signed", !.nonce = x]
  <2>1. /\ call[t].pc = "turn" /\ last_nonce' = [last_nonce EXCEPT ![b] = x]
        /\ call' = [call EXCEPT ![t].pc = "signed", ![t].nonce = x]
        /\ nonces' = [nonces EXCEPT ![b] = Append(nonces[b], x)]
        /\ UNCHANGED <<now, clock, last_call, slots, arrived>>
    BY <1>3 DEF Limiter!next_nonce
  <2>2. b \in Buckets
    BY <2>1 DEF TurnsInv, CallInv
  <2>3. x \in Nat /\ last_nonce[b] \in Nat /\ last_nonce[b] < x
    BY <1>t, <2>2 DEF Limiter!candidate
  <2>4. c \in Limiter!Calls /\ c.bucket = b
    BY <1>t, <2>3 DEF Limiter!Calls
  <2>5. call' = [call EXCEPT ![t] = c]
    BY <1>t, <2>1
  <2> HIDE DEF x, c
  <2>6. CallInv' /\ call' \in [Threads -> Limiter!Calls]
    BY <1>c, <2>2, <2>4, <2>5
  <2> HIDE DEF b
  <2>7. \A i \in 1..Len(nonces[b]) : nonces[b][i] + 1 <= x
    <3>1. \A i \in 1..Len(nonces[b]) : nonces[b][i] <= last_nonce[b] /\ nonces[b][i] \in Nat
      BY <1>t, <2>2 DEF TurnsInv, NonceInv
    <3> QED
      BY <2>3, <3>1
  <2> DEFINE a == Append(nonces[b], x)
  <2>8. nonces[b] \in Seq(Nat) /\ Spaced(nonces[b], 1)
    BY <1>t, <1>s, <2>2
  <2>9. a \in Seq(Nat) /\ Spaced(a, 1) /\ AtMost(a, x)
    BY <2>3, <2>7, <2>8, SpacedAppend
  <2>10. nonces' = [nonces EXCEPT ![b] = a]
    BY <2>1
  <2> HIDE DEF a
  <2>11. /\ nonces' \in [Buckets -> Seq(Nat)]
         /\ \A q \in Buckets : nonces'[q] = IF q = b THEN a ELSE nonces[q]
    BY <1>t, <2>2, <2>9, <2>10
  <2>12. /\ last_nonce' \in [Buckets -> Nat]
         /\ \A q \in Buckets : last_nonce'[q] = IF q = b THEN x ELSE last_nonce[q]
    BY <1>t, <2>1, <2>2, <2>3
  <2>13. Limiter!TypeOK'
    BY <1>t, <2>1, <2>6, <2>11, <2>12 DEF Limiter!TypeOK
  <2>14. SlotInv'
    BY <2>1 DEF TurnsInv, SlotInv
  <2>15. NonceInv'
    BY <2>9, <2>11, <2>12 DEF TurnsInv, NonceInv, AtMost
  <2>16. \A q \in Buckets : Spaced(slots'[q], MinInterval) /\ Spaced(nonces'[q], 1)
    BY <1>s, <2>1, <2>9, <2>11
  <2>17. Limiter!CallsTakeTurns'
    <3>1. \A q \in Buckets : \A i \in 1..Len(nonces'[q]) : nonces'[q][i] \in Nat
      BY <2>11
    <3> QED
      BY <2>16, <3>1 DEF Limiter!CallsTakeTurns, Limiter!Increasing, Spaced
  <2> QED
    BY <2>6, <2>13, <2>14, <2>15, <2>17 DEF TurnsInv
<1>4. ASSUME NEW t \in Threads, Limiter!Post(t)
      PROVE  TurnsInv'
  <2>1. /\ call' = [call EXCEPT ![t] = Limiter!Idle] /\ call[t].pc = "signed"
        /\ arrived' = [arrived EXCEPT ![call[t].bucket]
                                        = Append(arrived[call[t].bucket], call[t].nonce)]
        /\ UNCHANGED <<now, clock, last_call, last_nonce, slots, nonces>>
    BY <1>4 DEF Limiter!Post
  <2>2. CallInv' /\ call' \in [Threads -> Limiter!Calls]
    BY <1>0, <1>c, <2>1
  <2>3. call[t].bucket \in Buckets /\ call[t].nonce \in Nat
    BY <1>t, <2>1 DEF TurnsInv, CallInv, Limiter!Calls
  <2>4. arrived' \in [Buckets -> Seq(Nat)]
    BY <1>t, <2>1, <2>3
  <2> QED
    BY <2>1, <2>2, <2>4 DEF TurnsInv, Limiter!TypeOK, SlotInv, NonceInv, Limiter!CallsTakeTurns
<1>5. ASSUME NEW t \in Threads, Limiter!Fails(t)
      PROVE  TurnsInv'
  <2>1. /\ call' = [call EXCEPT ![t] = Limiter!Idle]
        /\ UNCHANGED <<now, clock, last_call, last_nonce, slots, nonces, arrived>>
    BY <1>5 DEF Limiter!Fails, Limiter!history
  <2>2. CallInv' /\ call' \in [Threads -> Limiter!Calls]
    BY <1>0, <1>c, <2>1
  <2> QED
    BY <2>1, <2>2 DEF TurnsInv, Limiter!TypeOK, SlotInv, NonceInv, Limiter!CallsTakeTurns
<1>6. CASE Limiter!Tick \/ Limiter!SetBack
  <2>1. /\ now' \in Nat /\ clock' \in Nat
        /\ UNCHANGED <<last_call, last_nonce, call, slots, nonces, arrived>>
    BY <1>6, <1>t DEF Limiter!Tick, Limiter!SetBack, Limiter!history
  <2> QED
    BY <2>1 DEF TurnsInv, Limiter!TypeOK, CallInv, SlotInv, NonceInv, Limiter!CallsTakeTurns
<1>7. CASE UNCHANGED Limiter!vars
  BY <1>7 DEF Limiter!vars, Limiter!history, TurnsInv, Limiter!TypeOK, CallInv, SlotInv,
     NonceInv, Limiter!CallsTakeTurns
<1> QED
  BY <1>1, <1>2, <1>3, <1>4, <1>5, <1>6, <1>7 DEF Limiter!Next

\* The invariant holds in every state that threads with calls to make reach.
LEMMA TurnsInvariant == Spec => [](part = "limiter" => TurnsInv)
<1>1. Init => (part = "limiter" => TurnsInv)
  BY InputsConstants, TurnsInit DEF Init
<1>2. (part = "limiter" => TurnsInv) /\ [Next]_vars => (part = "limiter" => TurnsInv)'
  <2> SUFFICES ASSUME TurnsInv, part = "limiter", [Next]_vars PROVE TurnsInv'
    BY DEF Next, vars
  <2>1. [Limiter!Next]_(Limiter!vars)
    BY DEF Next, vars, limiter, Limiter!vars, Limiter!history
  <2> QED
    BY <2>1, InputsConstants, TurnsStep
<1> QED
  BY <1>1, <1>2, PTL DEF Spec

\* wait_turn and next_nonce: for any number of threads, any interval and any
\* corrections of the wall clock, a bucket's slots are MinInterval apart and its
\* nonces are handed out strictly increasing.
THEOREM TurnsAreTaken == Spec => []CallsTakeTurns
<1>1. (part = "limiter" => TurnsInv) => CallsTakeTurns
  BY DEF TurnsInv, Limiter!CallsTakeTurns, CallsTakeTurns
<1> QED
  BY <1>1, TurnsInvariant, PTL
-----------------------------------------------------------------------------
(***************************************************************************)
(* The calendar and its slots.  A month begins when the one before it has  *)
(* ended, so the same day of the next is 28 days later or more; hence the  *)
(* steps of a cadence are in the order of time, the walks end, and they    *)
(* end at the first step after now wherever the guess was.                 *)
(***************************************************************************)

\* Min finds the least of a set of numbers.
LEMMA LeastOf ==
  ASSUME NEW S \in SUBSET Nat, S # {}
  PROVE  Calendar!Min(S) \in S /\ \A x \in S : Calendar!Min(S) <= x
<1> DEFINE f == [x \in S |-> x]
<1>1. f \in [S -> Nat]
  OBVIOUS
<1>2. \E x \in S : \A y \in S : f[x] <= f[y]
  <2> HIDE DEF f
  <2> QED
    BY <1>1, LeastRank
<1>3. \E x \in S : \A y \in S : x <= y
  BY <1>2
<1> QED
  BY <1>3 DEF Calendar!Min

\* The greatest of numbers up to n.
LEMMA GreatestOf ==
  ASSUME NEW n \in Nat, NEW S \in SUBSET (0..n), S # {}
  PROVE  Calendar!Max(S) \in S /\ \A x \in S : x <= Calendar!Max(S)
<1> DEFINE f == [x \in S |-> n - x]
<1>1. f \in [S -> Nat]
  OBVIOUS
<1>2. \E x \in S : \A y \in S : f[x] <= f[y]
  <2> HIDE DEF f
  <2> QED
    BY <1>1, LeastRank
<1>3. \E x \in S : \A y \in S : x >= y
  BY <1>2
<1> QED
  BY <1>3 DEF Calendar!Max

\* The lesser of two.
LEMMA LesserOf ==
  ASSUME NEW a \in Nat, NEW b \in Nat
  PROVE  Calendar!Min({a, b}) = IF a <= b THEN a ELSE b
<1>1. Calendar!Min({a, b}) \in {a, b} /\ \A x \in {a, b} : Calendar!Min({a, b}) <= x
  BY LeastOf
<1> QED
  BY <1>1

\* Cadence counts as the theorems on finite sets do.
LEMMA CalendarCounts == \A S : Calendar!Cardinality(S) = Cardinality(S)
BY DEF Calendar!Cardinality, Cardinality, Calendar!IsFiniteSet, IsFiniteSet
\* The leap years before y.
Leaps(y) == {x \in Year..y - 1 : Calendar!Leap(x)}

\* A year adds itself to the leap years before the next, if it is one.
LEMMA LeapsBefore ==
  ASSUME Year \in Nat, NEW y \in Nat, y >= Year
  PROVE  /\ Cardinality(Leaps(y)) \in Nat
         /\ Cardinality(Leaps(y + 1)) = Cardinality(Leaps(y)) + (IF Calendar!Leap(y) THEN 1 ELSE 0)
<1>1. IsFiniteSet(Leaps(y))
  <2>1. IsFiniteSet(Year..y - 1) /\ Leaps(y) \subseteq Year..y - 1
    BY FS_Interval DEF Leaps
  <2> QED
    BY <2>1, FS_Subset
<1>2. y \notin Leaps(y)
  BY DEF Leaps
<1>3. Leaps(y + 1) = IF Calendar!Leap(y) THEN Leaps(y) \cup {y} ELSE Leaps(y)
  <2>1. Year..(y + 1) - 1 = (Year..y - 1) \cup {y}
    OBVIOUS
  <2> QED
    BY <2>1 DEF Leaps
<1> QED
  BY <1>1, <1>2, <1>3, FS_AddElement, FS_CardinalityType

\* The year and the month of an index, and its length.
YearOf(i) == i \div 12
MonthIn(i) == (i % 12) + 1
LengthOf(i) == Calendar!monthrange(YearOf(i), MonthIn(i))

\* The first day of a month, and the d-th or its last.
FirstOf(i) == Calendar!DayNumber(YearOf(i), MonthIn(i), 1)
OnDay(i, d) == Calendar!DayNumber(YearOf(i), MonthIn(i), Calendar!Min({d, LengthOf(i)}))

\* An index is a year and a month, and the next index the next month.
LEMMA MonthType ==
  ASSUME NEW i \in Nat
  PROVE  /\ YearOf(i) \in Nat /\ MonthIn(i) \in 1..12
         /\ i = (12 * YearOf(i)) + MonthIn(i) - 1
         /\ MonthIn(i) < 12 => YearOf(i + 1) = YearOf(i) /\ MonthIn(i + 1) = MonthIn(i) + 1
         /\ MonthIn(i) = 12 => YearOf(i + 1) = YearOf(i) + 1 /\ MonthIn(i + 1) = 1
         /\ LengthOf(i) \in 28..31
<1>1. LengthOf(i) \in 28..31
  BY DEF LengthOf, Calendar!monthrange
<1> QED
  BY <1>1 DEF YearOf, MonthIn

\* The day that a leap year adds.
LeapDay(y) == IF Calendar!Leap(y) THEN 1 ELSE 0

\* Days before the first of a month.
Start(y, m) ==
  (365 * (y - Year)) + Cardinality(Leaps(y)) + Calendar!Before(m) + (IF m > 2 THEN LeapDay(y) ELSE 0)

\* It is a number of days.
LEMMA StartType ==
  ASSUME Year \in Nat, NEW y \in Nat, y >= Year, NEW m \in 1..12
  PROVE  /\ Cardinality(Leaps(y)) \in Nat /\ Calendar!Before(m) \in Nat /\ LeapDay(y) \in {0, 1}
         /\ Start(y, m) \in Nat
<1>1. Cardinality(Leaps(y)) \in Nat
  BY LeapsBefore
<1>2. Calendar!Before(m) \in Nat
  BY DEF Calendar!Before
<1>3. LeapDay(y) \in {0, 1}
  BY DEF LeapDay
<1> QED
  BY <1>1, <1>2, <1>3 DEF Start

\* A day's number is that of the first of its month, and the days since.
LEMMA NumberIs ==
  ASSUME Year \in Nat, NEW y \in Nat, y >= Year, NEW m \in 1..12, NEW d \in Int
  PROVE  Calendar!DayNumber(y, m, d) = Start(y, m) + d - 1
<1>1. (IF m > 2 /\ Calendar!Leap(y) THEN 1 ELSE 0) = IF m > 2 THEN LeapDay(y) ELSE 0
  BY DEF LeapDay
<1>2. Calendar!DayNumber(y, m, d)
        = (365 * (y - Year)) + Cardinality(Leaps(y)) + Calendar!Before(m)
            + (IF m > 2 /\ Calendar!Leap(y) THEN 1 ELSE 0) + d - 1
  BY CalendarCounts DEF Calendar!DayNumber, Leaps
<1> QED
  BY <1>1, <1>2 DEF Start

\* The first of a month, by its index.
LEMMA FirstIs ==
  ASSUME Year \in Nat, NEW i \in Nat, YearOf(i) >= Year
  PROVE  FirstOf(i) = Start(YearOf(i), MonthIn(i)) /\ FirstOf(i) \in Nat
<1> DEFINE y == YearOf(i)
           m == MonthIn(i)
<1>1. y \in Nat /\ m \in 1..12 /\ y >= Year
  BY MonthType
<1>2. FirstOf(i) = Calendar!DayNumber(y, m, 1)
  BY DEF FirstOf
<1> HIDE DEF y, m
<1>3. Calendar!DayNumber(y, m, 1) = Start(y, m) + 1 - 1
  BY <1>1, NumberIs
<1>4. Start(y, m) \in Nat
  BY <1>1, StartType
<1> QED
  BY <1>2, <1>3, <1>4 DEF y, m

\* A month begins when the one before it has ended.
LEMMA MonthsFollow ==
  ASSUME Year \in Nat, NEW i \in Nat, YearOf(i) >= Year
  PROVE  FirstOf(i + 1) = FirstOf(i) + LengthOf(i)
<1> DEFINE y == YearOf(i)
           m == MonthIn(i)
<1>1. y \in Nat /\ m \in 1..12 /\ y >= Year
  BY MonthType
<1>2. LengthOf(i) = IF m = 2 THEN 28 + LeapDay(y) ELSE IF m \in {4, 6, 9, 11} THEN 30 ELSE 31
  BY DEF LengthOf, Calendar!monthrange, LeapDay
<1>3. FirstOf(i) = Start(y, m)
  BY FirstIs
<1>4. m < 12 => FirstOf(i + 1) = Start(y, m + 1)
  BY <1>1, FirstIs, MonthType
<1>5. m = 12 => FirstOf(i + 1) = Start(y + 1, 1)
  BY <1>1, FirstIs, MonthType
<1> HIDE DEF y, m
<1>6. Cardinality(Leaps(y)) \in Nat /\ Calendar!Before(m) \in Nat /\ LeapDay(y) \in {0, 1}
  BY <1>1, StartType
<1>7. CASE m < 12
  <2>1. Calendar!Before(m + 1)
          = Calendar!Before(m) + (IF m = 2 THEN 28 ELSE IF m \in {4, 6, 9, 11} THEN 30 ELSE 31)
    BY <1>1, <1>7 DEF Calendar!Before
  <2> QED
    BY <1>1, <1>2, <1>3, <1>4, <1>6, <1>7, <2>1 DEF Start
<1>8. CASE m = 12
  <2>1. Cardinality(Leaps(y + 1)) = Cardinality(Leaps(y)) + LeapDay(y)
    BY <1>1, LeapsBefore DEF LeapDay
  <2>2. Calendar!Before(1) = 0 /\ Calendar!Before(12) = 334
    BY DEF Calendar!Before
  <2> QED
    BY <1>1, <1>2, <1>3, <1>5, <1>6, <1>8, <2>1, <2>2 DEF Start
<1> QED
  BY <1>1, <1>7, <1>8

\* The d-th of a month, or its last day where it has no d-th.
LEMMA DayInMonth ==
  ASSUME Year \in Nat, NEW i \in Nat, YearOf(i) >= Year, NEW d \in 1..31
  PROVE  /\ FirstOf(i) \in Nat /\ OnDay(i, d) \in Nat
         /\ OnDay(i, d) = FirstOf(i) + (IF d <= LengthOf(i) THEN d ELSE LengthOf(i)) - 1
<1> DEFINE e == Calendar!Min({d, LengthOf(i)})
<1>1. LengthOf(i) \in 28..31 /\ YearOf(i) \in Nat /\ MonthIn(i) \in 1..12
  BY MonthType
<1>2. e = (IF d <= LengthOf(i) THEN d ELSE LengthOf(i)) /\ e \in 1..31
  BY <1>1, LesserOf
<1> HIDE DEF e
<1>3. /\ Calendar!DayNumber(YearOf(i), MonthIn(i), e) \in Nat
      /\ Calendar!DayNumber(YearOf(i), MonthIn(i), e) = FirstOf(i) + e - 1
      /\ FirstOf(i) \in Nat
  <2> DEFINE y == YearOf(i)
             m == MonthIn(i)
  <2>1. y \in Nat /\ m \in 1..12 /\ y >= Year /\ FirstOf(i) = Start(y, m) /\ FirstOf(i) \in Nat
    BY <1>1, FirstIs
  <2> HIDE DEF y, m
  <2>2. Calendar!DayNumber(y, m, e) = Start(y, m) + e - 1
    BY <1>2, <2>1, NumberIs
  <2> QED
    BY <1>2, <2>1, <2>2 DEF y, m
<1>4. OnDay(i, d) = Calendar!DayNumber(YearOf(i), MonthIn(i), e)
  BY DEF OnDay, e
<1> QED
  BY <1>2, <1>3, <1>4

\* The same day of the next month is at least 28 days later.
LEMMA MonthLater ==
  ASSUME Year \in Nat, NEW i \in Nat, YearOf(i) >= Year, NEW d \in 1..31
  PROVE  OnDay(i + 1, d) >= OnDay(i, d) + 28
<1>1. LengthOf(i) \in 28..31 /\ YearOf(i) \in Nat /\ MonthIn(i) \in 1..12
  BY MonthType
<1>2. YearOf(i + 1) >= Year
  BY <1>1, MonthType
<1>3. LengthOf(i + 1) \in 28..31
  BY MonthType
<1>4. /\ FirstOf(i) \in Nat
      /\ OnDay(i, d) = FirstOf(i) + (IF d <= LengthOf(i) THEN d ELSE LengthOf(i)) - 1
  BY DayInMonth
<1>5. /\ FirstOf(i + 1) \in Nat
      /\ OnDay(i + 1, d) = FirstOf(i + 1) + (IF d <= LengthOf(i + 1) THEN d ELSE LengthOf(i + 1)) - 1
  BY <1>2, DayInMonth
<1>6. FirstOf(i + 1) = FirstOf(i) + LengthOf(i)
  BY MonthsFollow
<1> QED
  BY <1>1, <1>3, <1>4, <1>5, <1>6

\* And n months later, at least n times 28 days.
LEMMA MonthsLater ==
  ASSUME Year \in Nat, NEW i \in Nat, YearOf(i) >= Year, NEW d \in 1..31, NEW n \in Nat
  PROVE  /\ YearOf(i + n) >= Year /\ OnDay(i + n, d) \in Nat
         /\ OnDay(i + n, d) >= OnDay(i, d) + (28 * n)
<1> DEFINE P == {k \in Nat : YearOf(i + k) >= Year /\ OnDay(i + k, d) >= OnDay(i, d) + (28 * k)}
<1>1. 0 \in P
  BY DayInMonth
<1>2. ASSUME NEW k \in Nat, k \in P PROVE k + 1 \in P
  <2>1. i + k \in Nat /\ (i + k) + 1 = i + (k + 1) /\ YearOf(i + k) >= Year
    BY <1>2
  <2>2. YearOf((i + k) + 1) >= Year
    <3>1. YearOf(i + k) \in Nat /\ MonthIn(i + k) \in 1..12
      BY <2>1, MonthType
    <3> QED
      BY <2>1, <3>1, MonthType
  <2>3. OnDay((i + k) + 1, d) >= OnDay(i + k, d) + 28
    BY <2>1, MonthLater
  <2>4. OnDay(i, d) \in Nat /\ OnDay(i + k, d) \in Nat /\ OnDay((i + k) + 1, d) \in Nat
    BY <2>1, <2>2, DayInMonth
  <2> QED
    BY <1>2, <2>1, <2>2, <2>3, <2>4
<1> HIDE DEF P
<1>3. n \in P
  BY <1>1, <1>2, NumberInduction
<1>4. YearOf(i + n) >= Year /\ OnDay(i + n, d) >= OnDay(i, d) + (28 * n)
  BY <1>3 DEF P
<1> QED
  BY <1>4, DayInMonth

\* What a user has set: a run does not change it.
Asked ==
  /\ cadence \in Calendar!Modes /\ date \in Dates /\ time \in Times
  /\ offset \in Calendar!Offsets

Anchored == Asked /\ cadence.mode = "INTERVAL"
Anchor == Calendar!Index(date[1], date[2])
Least == (28 * cadence.months) + cadence.days

\* What the constants allow of an anchored cadence: a step is not empty.
LEMMA AnchorType ==
  ASSUME Calendar!CadenceConstants, Anchored
  PROVE  /\ Year \in Nat /\ Day \in Nat \ {0} /\ time \in 0..Day - 1 /\ offset \in Nat
         /\ Anchor \in Nat /\ YearOf(Anchor) >= Year /\ date[3] \in 1..31
         /\ cadence.months \in Nat /\ cadence.days \in Nat /\ Least \in Nat \ {0}
<1>1. Year \in Nat /\ Day \in Nat \ {0} /\ time \in 0..Day - 1 /\ Window \in Nat \ {0}
  BY DEF Calendar!CadenceConstants, Anchored, Asked
<1>2. offset \in Nat
  BY <1>1 DEF Anchored, Asked, Calendar!Offsets
<1>3. PICK c \in Cadences :
        cadence = [mode |-> "INTERVAL", months |-> c[1], days |-> c[2], length |-> 0]
  BY DEF Anchored, Asked, Calendar!Modes
<1>4. c \in Nat \X Nat /\ c # <<0, 0>>
  BY DEF Calendar!CadenceConstants
<1>5. cadence.months \in Nat /\ cadence.days \in Nat /\ (cadence.months # 0 \/ cadence.days # 0)
  BY <1>3, <1>4
<1>6. Least \in Nat \ {0}
  BY <1>5 DEF Least
<1>7. date \in Nat \X (1..12) \X (1..31) /\ date[1] >= Year
  BY DEF Calendar!CadenceConstants, Anchored, Asked
<1>8. date[1] \in Nat /\ date[2] \in 1..12 /\ date[3] \in 1..31
  BY <1>7
<1>9. Anchor \in Nat /\ YearOf(Anchor) = date[1]
  BY <1>8 DEF Anchor, Calendar!Index, YearOf
<1> QED
  BY <1>1, <1>2, <1>5, <1>6, <1>7, <1>8, <1>9

\* The day of the k-th step.
StepDay(k) == OnDay(Anchor + (k * cadence.months), date[3]) + (k * cadence.days)

\* _occurrence: the day of the step, at the anchor's time.
LEMMA OccurrenceIs ==
  ASSUME Calendar!CadenceConstants, Anchored, NEW k \in Nat
  PROVE  /\ StepDay(k) \in Nat
         /\ Calendar!_occurrence(k) = (Day * StepDay(k)) + time
         /\ Calendar!_occurrence(k) \in Nat
<1> DEFINE n == k * cadence.months
           i == Anchor + n
           e == Calendar!Min({date[3], LengthOf(i)})
           o == OnDay(i, date[3])
           s == k * cadence.days
<1>1. n \in Nat /\ s \in Nat /\ i \in Nat
  BY AnchorType, Products
<1>2. o \in Nat
  <2> HIDE DEF n
  <2> QED
    BY <1>1, AnchorType, MonthsLater
<1>3. Calendar!_add_months(n) = (Day * o) + time
  <2>1. i = Anchor + n
    OBVIOUS
  <2> HIDE DEF n
  <2> QED
    BY DEF Calendar!_add_months, Calendar!At, OnDay, LengthOf, YearOf, MonthIn, Anchor
<1>4. Calendar!_occurrence(k) = Calendar!_add_months(n) + ((Day * k) * cadence.days)
  BY DEF Calendar!_occurrence
<1>5. (Day * k) * cadence.days = Day * s /\ Day * (o + s) = (Day * o) + (Day * s)
  BY <1>1, <1>2, AnchorType
<1>6. Day * o \in Nat /\ Day * s \in Nat /\ time \in Nat
  BY <1>1, <1>2, AnchorType, Products
<1>7. StepDay(k) = o + s
  BY DEF StepDay
<1> HIDE DEF o, s, n
<1> QED
  BY <1>1, <1>2, <1>3, <1>4, <1>5, <1>6, <1>7

\* n steps take at least n times the shortest.
LEMMA StepsLater ==
  ASSUME Calendar!CadenceConstants, Anchored, NEW k \in Nat, NEW n \in Nat
  PROVE  /\ StepDay(k + n) >= StepDay(k) + (n * Least)
         /\ Calendar!ShortestStep \in Nat \ {0} /\ n * Calendar!ShortestStep \in Nat
         /\ Calendar!_occurrence(k + n) >= Calendar!_occurrence(k) + (n * Calendar!ShortestStep)
<1> DEFINE m == cadence.months
           d == cadence.days
           i == Anchor + (k * m)
           j == Anchor + ((k + n) * m)
           a == OnDay(i, date[3])
           b == OnDay(j, date[3])
<1>0. m \in Nat /\ d \in Nat /\ Anchor \in Nat /\ Day \in Nat \ {0} /\ Least \in Nat \ {0}
  BY AnchorType
<1>1. /\ k * m \in Nat /\ n * m \in Nat /\ k * d \in Nat /\ n * d \in Nat
      /\ (k + n) * m = (k * m) + (n * m) /\ (k + n) * d = (k * d) + (n * d)
  BY <1>0, Products
<1>2. a \in Nat /\ YearOf(i) >= Year
  <2>1. k * m \in Nat
    BY <1>1
  <2> DEFINE km == k * m
  <2> HIDE DEF km
  <2>2. YearOf(Anchor + km) >= Year /\ OnDay(Anchor + km, date[3]) \in Nat
    BY <2>1, AnchorType, MonthsLater DEF km
  <2> QED
    BY <2>2 DEF km
<1>3. b \in Nat /\ b >= a + (28 * (n * m))
  <2> DEFINE nm == n * m
  <2>1. i \in Nat /\ nm \in Nat /\ j = i + nm
    BY <1>0, <1>1
  <2>2. Year \in Nat /\ date[3] \in 1..31
    BY AnchorType
  <2> HIDE DEF i, j, nm
  <2>3. OnDay(i + nm, date[3]) \in Nat /\ OnDay(i + nm, date[3]) >= OnDay(i, date[3]) + (28 * nm)
    BY <1>2, <2>1, <2>2, MonthsLater
  <2> QED
    BY <2>1, <2>3 DEF nm
<1>4. n * Least = (28 * (n * m)) + (n * d) /\ n * Least \in Nat
  BY <1>0, <1>1 DEF Least
<1>5. StepDay(k + n) >= StepDay(k) + (n * Least)
  <2>1. StepDay(k + n) = b + ((k + n) * d) /\ StepDay(k) = a + (k * d)
    BY DEF StepDay
  <2> HIDE DEF a, b, m, d
  <2> QED
    BY <1>1, <1>2, <1>3, <1>4, <2>1
<1>6. /\ Calendar!ShortestStep = Day * Least
      /\ Day * Least \in Nat \ {0} /\ n * (Day * Least) = Day * (n * Least)
  BY <1>0 DEF Calendar!ShortestStep, Least
<1> DEFINE x == StepDay(k)
           y == StepDay(k + n)
           z == n * Least
<1>7. /\ x \in Nat /\ y \in Nat /\ z \in Nat /\ time \in Nat
      /\ Calendar!_occurrence(k) = (Day * x) + time
      /\ Calendar!_occurrence(k + n) = (Day * y) + time
  BY <1>4, OccurrenceIs, AnchorType
<1>8. y >= x + z
  BY <1>5
<1>9. Day * y \in Nat /\ Day * x \in Nat /\ Day * z \in Nat /\ Day * y >= (Day * x) + (Day * z)
  <2> HIDE DEF x, y, z
  <2>1. (x + z) * Day <= y * Day
    BY <1>0, <1>7, <1>8, Products
  <2> QED
    BY <1>0, <1>7, <2>1
<1> HIDE DEF x, y
<1> QED
  BY <1>5, <1>6, <1>7, <1>9 DEF x, y

\* The steps of a cadence are in the order of time.
LEMMA StepsInOrder ==
  ASSUME Calendar!CadenceConstants, Anchored, NEW j \in Nat, NEW k \in Nat, j <= k
  PROVE  Calendar!_occurrence(j) <= Calendar!_occurrence(k)
<1> DEFINE n == k - j
<1>1. n \in Nat /\ k = j + n
  OBVIOUS
<1> HIDE DEF n
<1>2. /\ n * Calendar!ShortestStep \in Nat
      /\ Calendar!_occurrence(j + n) >= Calendar!_occurrence(j) + (n * Calendar!ShortestStep)
  BY <1>1, StepsLater
<1>3. Calendar!_occurrence(j) \in Nat /\ Calendar!_occurrence(j + n) \in Nat
  BY <1>1, OccurrenceIs
<1> QED
  BY <1>1, <1>2, <1>3

\* The second loop ends: so many steps from the k-th pass the instant.
LEMMA StepsPass ==
  ASSUME Calendar!CadenceConstants, Anchored, NEW k \in Nat, NEW t \in Nat
  PROVE  /\ Calendar!Steps(k, t) \in Nat
         /\ Calendar!_occurrence(k + Calendar!Steps(k, t)) > t
<1> DEFINE s == Calendar!ShortestStep
           o == Calendar!_occurrence(k)
           q == (t - o) \div s
<1>1. s \in Nat \ {0} /\ o \in Nat
  BY StepsLater, OccurrenceIs
<1>2. CASE t < o
  <2>1. Calendar!Steps(k, t) = 0
    BY <1>2 DEF Calendar!Steps
  <2> QED
    BY <1>1, <1>2, <2>1
<1>3. CASE ~(t < o)
  <2>1. Calendar!Steps(k, t) = q + 1
    BY <1>3 DEF Calendar!Steps
  <2>2. t - o \in Nat
    BY <1>1, <1>3
  <2> HIDE DEF s, o
  <2>3. q \in Nat /\ t - o < (q * s) + s
    BY <1>1, <2>2, Division
  <2> HIDE DEF q
  <2>4. q + 1 \in Nat /\ (q + 1) * s = (q * s) + s /\ q * s \in Nat
    BY <1>1, <2>3
  <2>5. Calendar!_occurrence(k + (q + 1)) >= o + ((q + 1) * s)
    BY <2>4, StepsLater DEF o, s
  <2>6. Calendar!_occurrence(k + (q + 1)) \in Nat
    BY <2>4, OccurrenceIs
  <2> QED
    BY <1>1, <2>1, <2>2, <2>3, <2>4, <2>5, <2>6
<1> QED
  BY <1>2, <1>3

\* A step that is not after the instant is among so many.
LEMMA StepsReach ==
  ASSUME Calendar!CadenceConstants, Anchored, NEW k \in Nat, NEW t \in Nat,
         t >= Calendar!_occurrence(k)
  PROVE  k \in 0..Calendar!Steps(0, t)
<1>1. Calendar!Steps(0, t) \in Nat /\ Calendar!_occurrence(Calendar!Steps(0, t)) > t
  BY StepsPass
<1>2. ASSUME Calendar!Steps(0, t) <= k PROVE FALSE
  <2>1. Calendar!_occurrence(Calendar!Steps(0, t)) <= Calendar!_occurrence(k)
    BY <1>1, <1>2, StepsInOrder
  <2>2. Calendar!_occurrence(Calendar!Steps(0, t)) \in Nat /\ Calendar!_occurrence(k) \in Nat
    BY <1>1, OccurrenceIs
  <2> QED
    BY <1>1, <2>1, <2>2
<1> QED
  BY <1>1, <1>2

\* Nothing is due at a step up to which the walk has come down.
Below(j, t) == j = 0 \/ Calendar!_occurrence(j) + offset <= t

LEMMA WalksDown ==
  ASSUME NEW k \in Nat, NEW t \in Nat
  PROVE  Calendar!WalkDown(k, t) \in Nat /\ Below(Calendar!WalkDown(k, t), t)
<1> DEFINE S == {j \in 0..k : j = 0 \/ Calendar!_occurrence(j) + offset <= t}
<1>1. S \in SUBSET (0..k) /\ 0 \in S
  OBVIOUS
<1>2. Calendar!WalkDown(k, t) = Calendar!Max(S)
  BY DEF Calendar!WalkDown
<1>3. Calendar!Max(S) \in S
  <2> HIDE DEF S
  <2> QED
    BY <1>1, GreatestOf
<1> QED
  BY <1>2, <1>3 DEF Below

\* The walk up ends at the first step after the instant.
LEMMA WalksUp ==
  ASSUME Calendar!CadenceConstants, Anchored, NEW j \in Nat, NEW t \in Nat, Below(j, t)
  PROVE  LET w == Calendar!WalkUp(j, t)
         IN  /\ w \in Nat /\ Calendar!_occurrence(w) + offset > t
             /\ \A k \in Nat : k < w => Calendar!_occurrence(k) + offset <= t
<1> DEFINE n == Calendar!Steps(j, t)
           S == {k \in j..j + n : Calendar!_occurrence(k) + offset > t}
           w == Calendar!Min(S)
<1>0. offset \in Nat
  BY AnchorType
<1>1. n \in Nat /\ Calendar!_occurrence(j + n) > t /\ Calendar!_occurrence(j + n) \in Nat
  BY StepsPass, OccurrenceIs
<1>2. S \in SUBSET Nat /\ j + n \in S
  <2> HIDE DEF n
  <2> QED
    BY <1>0, <1>1
<1>3. Calendar!WalkUp(j, t) = w
  BY DEF Calendar!WalkUp
<1>4. w \in S /\ \A x \in S : w <= x
  <2> HIDE DEF S
  <2> QED
    BY <1>2, LeastOf
<1>5. w \in Nat /\ w \in j..j + n /\ Calendar!_occurrence(w) + offset > t
  BY <1>2, <1>4
<1> HIDE DEF n, w
<1>6. ASSUME NEW k \in Nat, k < w PROVE Calendar!_occurrence(k) + offset <= t
  <2>0. Calendar!_occurrence(k) \in Nat /\ Calendar!_occurrence(j) \in Nat
    BY OccurrenceIs
  <2>1. CASE k < j
    <3>1. Calendar!_occurrence(k) <= Calendar!_occurrence(j) /\ j # 0
      BY <2>1, StepsInOrder
    <3> QED
      BY <1>0, <2>0, <3>1 DEF Below
  <2>2. CASE j <= k
    <3>1. k \notin S /\ k \in j..j + n
      BY <1>1, <1>4, <1>5, <1>6, <2>2
    <3> QED
      BY <1>0, <2>0, <3>1
  <2> QED
    BY <2>1, <2>2
<1> QED
  BY <1>3, <1>5, <1>6

\* _anchored: it finds the first step after now.
LEMMA AnchoredIsFirst ==
  ASSUME Calendar!CadenceConstants, Anchored, NEW t \in Nat
  PROVE  \E w \in Nat :
           /\ Calendar!_anchored(t) = Calendar!_occurrence(w) + offset
           /\ Calendar!_occurrence(w) + offset > t
           /\ \A k \in Nat : k < w => Calendar!_occurrence(k) + offset <= t
<1> DEFINE g == Calendar!Guess(t)
           j == Calendar!WalkDown(g, t)
           w == Calendar!WalkUp(j, t)
<1>1. g \in Nat
  <2> DEFINE e == t - Calendar!_occurrence(0)
             b == Day * ((cadence.days * Calendar!MeanMonth[2]) + (cadence.months * Calendar!MeanMonth[1]))
  <2>1. e \in Int
    BY OccurrenceIs
  <2>2. b \in Nat \ {0}
    <3>1. (cadence.days * 1600) + (cadence.months * 48699) \in Nat \ {0}
      BY AnchorType DEF Least
    <3> QED
      BY <3>1, AnchorType DEF Calendar!MeanMonth
  <2>3. g = IF e < 0 THEN 0 ELSE (e * 1600) \div b
    BY DEF Calendar!Guess, Calendar!MeanMonth
  <2> HIDE DEF e, b
  <2>4. ~(e < 0) => e * 1600 \in Nat
    BY <2>1
  <2> QED
    BY <2>1, <2>2, <2>3, <2>4, Division
<1> HIDE DEF g
<1>2. j \in Nat /\ Below(j, t)
  BY <1>1, WalksDown
<1> HIDE DEF j
<1>3. /\ w \in Nat /\ Calendar!_occurrence(w) + offset > t
      /\ \A k \in Nat : k < w => Calendar!_occurrence(k) + offset <= t
  BY <1>2, WalksUp
<1>4. Calendar!_anchored(t) = Calendar!_occurrence(w) + offset
  BY DEF Calendar!_anchored, j, g
<1> HIDE DEF w
<1> QED
  BY <1>3, <1>4

\* Integer division of any integer.
LEMMA FloorDivision ==
  ASSUME NEW n \in Int, NEW d \in Nat \ {0}
  PROVE  /\ n \div d \in Int /\ (n \div d) * d <= n /\ n < ((n \div d) * d) + d
         /\ (n * d) % d = 0
<1> DEFINE q == n \div d
<1>1. n = (d * q) + (n % d) /\ (n % d) \in 0..(d - 1) /\ q \in Int
  OBVIOUS
<1>2. d * q \in Int /\ q * d = d * q
  BY <1>1
<1>3. (n * d) % d = 0
  <2> DEFINE a == n * d
             p == a \div d
  <2>1. a \in Int /\ a = (d * p) + (a % d) /\ (a % d) \in 0..(d - 1) /\ p \in Int
    OBVIOUS
  <2>2. a % d = (n - p) * d
    <3> HIDE DEF p
    <3>1. a % d = a - (d * p) /\ d * p \in Int
      BY <2>1
    <3>2. (n - p) * d = (n * d) - (d * p)
      BY <2>1
    <3> QED
      BY <3>1, <3>2
  <2> HIDE DEF p, a
  <2>3. n - p \in Int /\ 0 * d = 0 /\ 1 * d = d
    BY <2>1
  <2>4. 0 * d <= (n - p) * d /\ (n - p) * d < 1 * d
    BY <2>1, <2>2, <2>3
  <2>5. 0 <= n - p /\ n - p < 1
    BY <2>3, <2>4, Products
  <2>6. n - p = 0
    BY <2>3, <2>5
  <2> QED
    BY <2>2, <2>3, <2>6 DEF a
<1> HIDE DEF q
<1> QED
  BY <1>1, <1>2, <1>3 DEF q

\* _every: the next whole interval.
LEMMA EveryIsNext ==
  ASSUME Calendar!CadenceConstants, Asked, cadence.mode = "MIN", NEW t \in Nat
  PROVE  LET s == Calendar!_every(t)
         IN  /\ s \in Nat /\ s > t /\ s - t <= cadence.length /\ (s - offset) % cadence.length = 0
<1> DEFINE l == cadence.length
           n == t - offset
           q == n \div l
           s == Calendar!_every(t)
<1>1. l \in Nat \ {0}
  BY DEF Asked, Calendar!Modes, Calendar!CadenceConstants
<1>2. offset \in Nat /\ n \in Int
  BY <1>1 DEF Asked, Calendar!Offsets
<1>3. s = ((q + 1) * l) + offset
  BY DEF Calendar!_every
<1> HIDE DEF l, n, s
<1>4. q \in Int /\ q * l <= n /\ n < (q * l) + l
  BY <1>1, <1>2, FloorDivision
<1> HIDE DEF q
<1>5. (q + 1) \in Int /\ (q + 1) * l = (q * l) + l /\ q * l \in Int
  BY <1>1, <1>4
<1>6. ((q + 1) * l) % l = 0
  BY <1>1, <1>5, FloorDivision
<1>7. s - offset = (q + 1) * l /\ s \in Int
  <2> DEFINE p == (q + 1) * l
  <2>1. p \in Int /\ s = p + offset
    BY <1>1, <1>3, <1>5
  <2> HIDE DEF p
  <2>2. s - offset = p /\ s \in Int
    BY <1>2, <2>1
  <2> QED
    BY <2>2 DEF p
<1>8. s > t /\ s - t <= l
  <2> DEFINE p == q * l
  <2>1. s = p + l + offset /\ p \in Int /\ p <= n /\ n < p + l
    BY <1>1, <1>2, <1>3, <1>4, <1>5
  <2>2. n = t - offset
    BY DEF n
  <2> HIDE DEF p
  <2> QED
    BY <1>1, <1>2, <2>1, <2>2
<1> QED
  BY <1>6, <1>7, <1>8 DEF l, s

\* An instant of a month after the anchor's is in that month and in no other.
LEMMA MonthFound ==
  ASSUME Calendar!CadenceConstants, Anchored, NEW n \in Nat, NEW t \in Nat,
         NEW b \in Nat, n <= b, b = cadence.months * Calendar!Steps(0, t),
         Day * FirstOf(Anchor + n) <= t, t < Day * FirstOf(Anchor + n + 1)
  PROVE  Calendar!MonthOf(t) = Anchor + n
<1> DEFINE In(i) == /\ Calendar!At(i \div 12, (i % 12) + 1, 1) <= t
                    /\ t < Calendar!At((i + 1) \div 12, ((i + 1) % 12) + 1, 1)
           i == Anchor + n
<1>0. Anchor \in Nat /\ YearOf(Anchor) >= Year /\ Day \in Nat \ {0} /\ Year \in Nat
  BY AnchorType
<1>1. i \in Anchor..Anchor + b
  BY <1>0
<1>2. \A j \in Nat : In(j) <=> Day * FirstOf(j) <= t /\ t < Day * FirstOf(j + 1)
  BY DEF Calendar!At, FirstOf, YearOf, MonthIn
<1>3. Calendar!MonthOf(t) = CHOOSE j \in Anchor..Anchor + b : In(j)
  BY DEF Calendar!MonthOf, Anchor
<1>4. In(i)
  BY <1>0, <1>2
<1>5. ASSUME NEW x \in Nat, NEW y \in Nat, x < y, x >= Anchor, Day * FirstOf(x) <= t, t < Day * FirstOf(x + 1)
      PROVE  ~(Day * FirstOf(y) <= t)
  <2> DEFINE d == x - Anchor
             m == y - (x + 1)
             z == x + 1
  <2>1. d \in Nat /\ m \in Nat /\ x = Anchor + d /\ z \in Nat /\ y = z + m /\ z = Anchor + (d + 1)
    BY <1>0, <1>5
  <2>2. \A j \in Nat : YearOf(j) >= Year => FirstOf(j) \in Nat /\ OnDay(j, 1) = FirstOf(j)
    <3> SUFFICES ASSUME NEW j \in Nat, YearOf(j) >= Year
                 PROVE  FirstOf(j) \in Nat /\ OnDay(j, 1) = FirstOf(j)
      OBVIOUS
    <3>1. LengthOf(j) \in 28..31 /\ 1 \in 1..31
      BY MonthType
    <3>2. FirstOf(j) \in Nat /\ OnDay(j, 1) = FirstOf(j) + (IF 1 <= LengthOf(j) THEN 1 ELSE LengthOf(j)) - 1
      BY <1>0, <3>1, DayInMonth
    <3> QED
      BY <3>1, <3>2
  <2> HIDE DEF d, m, z
  <2>3. YearOf(z) >= Year
    <3>1. d + 1 \in Nat /\ 1 \in 1..31
      BY <2>1
    <3>2. YearOf(Anchor + (d + 1)) >= Year
      BY <1>0, <3>1, MonthsLater
    <3> QED
      BY <2>1, <3>2
  <2>4. YearOf(z + m) >= Year /\ OnDay(z + m, 1) >= OnDay(z, 1) + (28 * m)
    <3>1. 1 \in 1..31
      OBVIOUS
    <3> QED
      BY <1>0, <2>1, <2>3, <3>1, MonthsLater
  <2>5. FirstOf(z) \in Nat /\ FirstOf(y) \in Nat /\ FirstOf(y) >= FirstOf(z)
    BY <2>1, <2>2, <2>3, <2>4
  <2>6. FirstOf(z) * Day <= FirstOf(y) * Day
    BY <1>0, <2>5, Products
  <2>7. Day * FirstOf(z) \in Nat /\ Day * FirstOf(y) \in Nat
    BY <1>0, <2>5
  <2>8. Day * FirstOf(z) <= Day * FirstOf(y) /\ t < Day * FirstOf(z)
    BY <1>0, <1>5, <2>5, <2>6 DEF z
  <2> QED
    BY <2>7, <2>8
<1>6. ASSUME NEW j \in Anchor..Anchor + b, In(j) PROVE j = i
  <2>1. j \in Nat /\ i \in Nat /\ j >= Anchor /\ i >= Anchor
    BY <1>0
  <2>2. Day * FirstOf(j) <= t /\ t < Day * FirstOf(j + 1)
    BY <1>2, <1>6, <2>1
  <2>3. Day * FirstOf(i) <= t /\ t < Day * FirstOf(i + 1)
    OBVIOUS
  <2> HIDE DEF i
  <2> QED
    BY <1>5, <2>1, <2>2, <2>3
<1> HIDE DEF In, i
<1> QED
  BY <1>1, <1>3, <1>4, <1>6 DEF i

\* The slot that is kept is the one that next_slot found for its instant.
CalendarInv == Asked /\ asked \in Nat /\ due \in Nat /\ due = Calendar!next_slot(asked)

\* next_slot: an instant after the one it was asked at.
LEMMA SlotType ==
  ASSUME Calendar!CadenceConstants, Asked, NEW t \in Nat
  PROVE  Calendar!next_slot(t) \in Nat /\ Calendar!next_slot(t) > t
<1>1. CASE cadence.mode = "MIN"
  BY <1>1, EveryIsNext DEF Calendar!next_slot
<1>2. CASE cadence.mode = "INTERVAL"
  <2>1. PICK w \in Nat : /\ Calendar!_anchored(t) = Calendar!_occurrence(w) + offset
                         /\ Calendar!_occurrence(w) + offset > t
    BY <1>2, AnchoredIsFirst DEF Anchored
  <2>2. Calendar!_occurrence(w) \in Nat /\ offset \in Nat
    BY <1>2, OccurrenceIs, AnchorType DEF Anchored
  <2> QED
    BY <1>2, <2>1, <2>2 DEF Calendar!next_slot
<1>3. cadence.mode \in {"MIN", "INTERVAL"}
  BY DEF Asked, Calendar!Modes
<1> QED
  BY <1>1, <1>2, <1>3

\* A slot of a monthly cadence is on the anchor's day, or the last of its month.
LEMMA OnAnchorsDay ==
  ASSUME Calendar!CadenceConstants, Anchored, cadence.days = 0, NEW w \in Nat
  PROVE  LET i == Calendar!MonthOf(Calendar!_occurrence(w))
             y == i \div 12
             m == (i % 12) + 1
         IN  Calendar!_occurrence(w) - time - Calendar!At(y, m, 1)
               = Day * ((IF date[3] <= Calendar!monthrange(y, m) THEN date[3]
                         ELSE Calendar!monthrange(y, m)) - 1)
<1> DEFINE n == w * cadence.months
           i == Anchor + n
           t == Calendar!_occurrence(w)
           f == FirstOf(i)
           l == LengthOf(i)
           e == IF date[3] <= l THEN date[3] ELSE l
<1>0. /\ Anchor \in Nat /\ YearOf(Anchor) >= Year /\ Day \in Nat \ {0} /\ Year \in Nat
      /\ cadence.months \in Nat /\ date[3] \in 1..31 /\ time \in 0..Day - 1
  BY AnchorType
<1>1. n \in Nat /\ i \in Nat
  BY <1>0, Products
<1>2. YearOf(i) >= Year
  <2> HIDE DEF n
  <2> QED
    BY <1>0, <1>1, MonthsLater
<1>3. l \in 28..31 /\ f \in Nat /\ OnDay(i, date[3]) = f + e - 1 /\ FirstOf(i + 1) = f + l
  <2> HIDE DEF i
  <2>1. l \in 28..31
    BY <1>1, MonthType
  <2>2. f \in Nat /\ OnDay(i, date[3]) = f + e - 1
    BY <1>0, <1>1, <1>2, DayInMonth
  <2>3. FirstOf(i + 1) = f + l
    BY <1>0, <1>1, <1>2, MonthsFollow
  <2> QED
    BY <2>1, <2>2, <2>3
<1>4. t = (Day * (f + e - 1)) + time /\ t \in Nat
  <2>1. StepDay(w) = OnDay(i, date[3]) + (w * 0)
    BY DEF StepDay
  <2>2. f + e - 1 \in Nat
    BY <1>0, <1>3
  <2> HIDE DEF i, t, f, e, l
  <2>3. StepDay(w) = f + e - 1
    BY <1>3, <2>1, <2>2
  <2>4. t = (Day * StepDay(w)) + time /\ t \in Nat
    BY OccurrenceIs DEF t
  <2> QED
    BY <2>3, <2>4
<1>5. e \in 1..l /\ e \in 1..31
  BY <1>0, <1>3
<1> HIDE DEF f, l, e, t
<1>6. /\ Day * f \in Nat /\ Day * (e - 1) \in Nat /\ Day * (f + e - 1) = (Day * f) + (Day * (e - 1))
      /\ Day * (f + l) = (Day * f) + (Day * l) /\ Day * l \in Nat
  BY <1>0, <1>3, <1>5
<1>7. Day * f <= t
  BY <1>0, <1>4, <1>6
<1>8. t < Day * (f + l)
  <2>1. e * Day <= l * Day
    BY <1>0, <1>3, <1>5, Products
  <2>2. Day * (e - 1) = (e * Day) - Day /\ e * Day \in Nat
    BY <1>0, <1>5
  <2>3. l * Day = Day * l
    BY <1>0, <1>3
  <2> QED
    BY <1>0, <1>4, <1>6, <2>1, <2>2, <2>3
<1> DEFINE b == cadence.months * Calendar!Steps(0, t)
<1>9. b \in Nat /\ n <= b
  <2> DEFINE s == Calendar!Steps(0, t)
  <2>1. w \in 0..s /\ s \in Nat
    <3>1. w \in 0..s
      BY <1>4, StepsReach DEF t
    <3>2. s \in Nat
      BY <1>4, StepsPass
    <3> QED
      BY <3>1, <3>2
  <2> HIDE DEF s
  <2>2. w * cadence.months <= s * cadence.months
    BY <1>0, <2>1, Products
  <2>3. cadence.months * s = s * cadence.months /\ s * cadence.months \in Nat
    BY <1>0, <2>1
  <2> QED
    BY <2>2, <2>3 DEF s
<1>10. Calendar!MonthOf(t) = i
  <2>1. FirstOf(Anchor + n + 1) = f + l /\ FirstOf(Anchor + n) = f
    BY <1>3 DEF f
  <2> HIDE DEF n, b
  <2> QED
    BY <1>1, <1>4, <1>7, <1>8, <1>9, <2>1, MonthFound DEF b
<1>11. Calendar!At(i \div 12, (i % 12) + 1, 1) = Day * f /\ Calendar!monthrange(i \div 12, (i % 12) + 1) = l
  BY DEF Calendar!At, f, FirstOf, l, LengthOf, YearOf, MonthIn
<1>12. t - time - (Day * f) = Day * (e - 1)
  BY <1>0, <1>4, <1>6
<1> HIDE DEF i
<1> QED
  BY <1>10, <1>11, <1>12 DEF e, t

\* What the invariant says of a slot.
LEMMA SlotIsFirst ==
  ASSUME Calendar!CadenceConstants, CalendarInv
  PROVE  Calendar!FirstSlotAfterNow
<1> USE DEF CalendarInv
<1>1. due > asked
  BY SlotType
<1>2. ASSUME cadence.mode = "MIN"
      PROVE  due - asked <= cadence.length /\ (due - offset) % cadence.length = 0
  BY <1>2, EveryIsNext DEF Calendar!next_slot
<1>3. ASSUME cadence.mode = "INTERVAL"
      PROVE  /\ \E k \in 0..Calendar!Steps(0, due) : due = Calendar!_occurrence(k) + offset
             /\ \A k \in 0..Calendar!Steps(0, due) :
                  Calendar!_occurrence(k) + offset > asked => Calendar!_occurrence(k) + offset >= due
             /\ cadence.days = 0 =>
                  LET i == Calendar!MonthOf(due - offset)
                      y == i \div 12
                      m == (i % 12) + 1
                  IN  due - offset - time - Calendar!At(y, m, 1)
                        = Day * ((IF date[3] <= Calendar!monthrange(y, m) THEN date[3]
                                  ELSE Calendar!monthrange(y, m)) - 1)
  <2>0. Anchored
    BY <1>3 DEF Anchored
  <2>1. PICK w \in Nat : /\ due = Calendar!_occurrence(w) + offset
                         /\ \A k \in Nat : k < w => Calendar!_occurrence(k) + offset <= asked
    BY <1>3, <2>0, AnchoredIsFirst DEF Calendar!next_slot
  <2>2. offset \in Nat /\ \A k \in Nat : Calendar!_occurrence(k) \in Nat
    BY <2>0, OccurrenceIs, AnchorType
  <2>3. w \in 0..Calendar!Steps(0, due) /\ Calendar!Steps(0, due) \in Nat
    <3>1. due >= Calendar!_occurrence(w)
      BY <2>1, <2>2
    <3>2. w \in 0..Calendar!Steps(0, due)
      BY <2>0, <3>1, StepsReach
    <3>3. Calendar!Steps(0, due) \in Nat
      BY <2>0, StepsPass
    <3> QED
      BY <3>2, <3>3
  <2>4. ASSUME NEW k \in 0..Calendar!Steps(0, due), Calendar!_occurrence(k) + offset > asked
        PROVE  Calendar!_occurrence(k) + offset >= due
    <3>1. k \in Nat
      BY <2>3
    <3>2. ~(k < w)
      BY <2>1, <2>2, <2>4, <3>1
    <3>3. Calendar!_occurrence(w) <= Calendar!_occurrence(k)
      BY <2>0, <3>1, <3>2, StepsInOrder
    <3> QED
      BY <2>1, <2>2, <3>1, <3>3
  <2>5. due - offset = Calendar!_occurrence(w)
    BY <2>1, <2>2
  <2> QED
    BY <2>0, <2>1, <2>3, <2>4, <2>5, OnAnchorsDay
<1> QED
  BY <1>1, <1>2, <1>3 DEF Calendar!FirstSlotAfterNow, Calendar!Monthly

\* The first slot is asked for at one of Starts.
LEMMA CalendarInit ==
  ASSUME Calendar!CadenceConstants, Calendar!Init
  PROVE  CalendarInv
<1>1. Asked /\ asked \in Nat /\ due = Calendar!next_slot(asked)
  BY DEF Calendar!Init, Asked, Calendar!CadenceConstants
<1> QED
  BY <1>1, SlotType DEF CalendarInv

\* The same cadence gives the same slots.
LEMMA SameSlots ==
  ASSUME UNCHANGED <<cadence, date, time, offset>>
  PROVE  \A t : Calendar!next_slot(t)' = Calendar!next_slot(t)
<1>0. cadence' = cadence /\ date' = date /\ time' = time /\ offset' = offset
  OBVIOUS
<1>1. ASSUME NEW n PROVE Calendar!_add_months(n)' = Calendar!_add_months(n)
  BY <1>0 DEF Calendar!_add_months
<1>2. ASSUME NEW k PROVE Calendar!_occurrence(k)' = Calendar!_occurrence(k)
  BY <1>0, <1>1 DEF Calendar!_occurrence
<1>3. ASSUME NEW k, NEW t PROVE Calendar!Steps(k, t)' = Calendar!Steps(k, t)
  BY <1>0, <1>2 DEF Calendar!Steps, Calendar!ShortestStep
<1>4. ASSUME NEW t PROVE Calendar!Guess(t)' = Calendar!Guess(t)
  BY <1>0, <1>2 DEF Calendar!Guess
<1>5. ASSUME NEW k, NEW t PROVE Calendar!WalkDown(k, t)' = Calendar!WalkDown(k, t)
  BY <1>0, <1>2 DEF Calendar!WalkDown
<1>6. ASSUME NEW k, NEW t PROVE Calendar!WalkUp(k, t)' = Calendar!WalkUp(k, t)
  BY <1>0, <1>2, <1>3 DEF Calendar!WalkUp
<1>7. ASSUME NEW t PROVE Calendar!_anchored(t)' = Calendar!_anchored(t)
  BY <1>0, <1>2, <1>4, <1>5, <1>6 DEF Calendar!_anchored
<1>8. ASSUME NEW t PROVE Calendar!_every(t)' = Calendar!_every(t)
  BY <1>0 DEF Calendar!_every
<1> QED
  BY <1>0, <1>7, <1>8 DEF Calendar!next_slot

\* A run asks again, for the same cadence, at its slot or later.
LEMMA CalendarStep ==
  ASSUME Calendar!CadenceConstants, CalendarInv, [Calendar!Next]_(Calendar!vars)
  PROVE  CalendarInv'
<1>1. CASE UNCHANGED Calendar!vars
  <2>1. UNCHANGED <<cadence, date, time, offset, asked, due>>
    BY <1>1 DEF Calendar!vars
  <2>2. Calendar!next_slot(asked)' = Calendar!next_slot(asked)
    BY <2>1, SameSlots
  <2> QED
    BY <2>1, <2>2 DEF CalendarInv, Asked, Calendar!Offsets
<1>2. CASE Calendar!Run
  <2>1. /\ UNCHANGED <<cadence, date, time, offset>> /\ due' = Calendar!next_slot(asked')
        /\ \E d \in Delays : asked' = due + d
    BY <1>2 DEF Calendar!Run
  <2>2. asked' \in Nat
    BY <2>1 DEF CalendarInv, Calendar!CadenceConstants
  <2>3. due' \in Nat
    BY <2>1, <2>2, SlotType DEF CalendarInv
  <2>4. Calendar!next_slot(asked)' = Calendar!next_slot(asked')
    BY <2>1, SameSlots
  <2> QED
    BY <2>1, <2>2, <2>3, <2>4 DEF CalendarInv, Asked, Calendar!Offsets
<1> QED
  BY <1>1, <1>2 DEF Calendar!Next

\* The invariant holds in every state.
LEMMA CalendarInvariant == Spec => [](part = "calendar" => CalendarInv)
<1>1. Init => (part = "calendar" => CalendarInv)
  BY InputsConstants, CalendarInit DEF Init
<1>2. (part = "calendar" => CalendarInv) /\ [Next]_vars => (part = "calendar" => CalendarInv)'
  <2> SUFFICES ASSUME CalendarInv, part = "calendar", [Next]_vars PROVE CalendarInv'
    BY DEF Next, vars
  <2>1. [Calendar!Next]_(Calendar!vars)
    BY DEF Next, vars, calendar, Calendar!vars
  <2> QED
    BY <2>1, InputsConstants, CalendarStep
<1> QED
  BY <1>1, <1>2, PTL DEF Spec

\* next_slot: for any cadence, anchor, offset and lateness, and as far into the
\* future as the calendar goes, the slot is the first step strictly after now, on
\* the anchor's day or the last of its month; no guess makes the walk miss it.
THEOREM SlotComesFirst == Spec => []FirstSlotAfterNow
<1>1. (part = "calendar" => CalendarInv) => FirstSlotAfterNow
  BY InputsConstants, SlotIsFirst DEF FirstSlotAfterNow
<1> QED
  BY <1>1, CalendarInvariant, PTL

\* No step of the cadence, however far, lies between the instant and its slot.
NoStepBetween ==
  part = "calendar" /\ cadence.mode = "INTERVAL" =>
    \A k \in Nat : Calendar!_occurrence(k) + offset <= asked \/ Calendar!_occurrence(k) + offset >= due

\* _anchored: the two walks skip no step, among all the steps there are.
THEOREM NoStepIsSkipped == Spec => []NoStepBetween
<1>1. (part = "calendar" => CalendarInv) => NoStepBetween
  <2> SUFFICES ASSUME CalendarInv, cadence.mode = "INTERVAL", NEW k \in Nat
               PROVE  Calendar!_occurrence(k) + offset <= asked \/ Calendar!_occurrence(k) + offset >= due
    BY DEF NoStepBetween
  <2>0. Anchored /\ Calendar!CadenceConstants
    BY InputsConstants DEF Anchored, CalendarInv
  <2>1. PICK w \in Nat : /\ due = Calendar!_occurrence(w) + offset
                         /\ \A j \in Nat : j < w => Calendar!_occurrence(j) + offset <= asked
    BY <2>0, AnchoredIsFirst DEF CalendarInv, Calendar!next_slot
  <2>2. w <= k => Calendar!_occurrence(w) <= Calendar!_occurrence(k)
    BY <2>0, StepsInOrder
  <2>3. offset \in Nat /\ Calendar!_occurrence(k) \in Nat /\ Calendar!_occurrence(w) \in Nat
    BY <2>0, OccurrenceIs, AnchorType
  <2> QED
    BY <2>1, <2>2, <2>3
<1> QED
  BY <1>1, CalendarInvariant, PTL
-----------------------------------------------------------------------------
(***************************************************************************)
(* The types of the five parts.                                            *)
(***************************************************************************)

\* A behaviour stays in the part that it picked.
LEMMA PartInvariant == Spec => [](part \in {"sizing", "calendar", "limiter", "lists", "market"})
<1>1. Init => part \in {"sizing", "calendar", "limiter", "lists", "market"}
  BY DEF Init
<1>2. /\ part \in {"sizing", "calendar", "limiter", "lists", "market"}
      /\ [Next]_vars
      => (part \in {"sizing", "calendar", "limiter", "lists", "market"})'
  BY DEF Next, vars
<1> QED
  BY <1>1, <1>2, PTL DEF Spec

\* Every leg, slot, call, copy and price is complete, whatever part runs; the
\* calendar's walks (_anchored) always end at a slot.
THEOREM InputsAreTyped == Spec => []TypeOK
<1>1. /\ part \in {"sizing", "calendar", "limiter", "lists", "market"}
      /\ part = "sizing" => SizingInv
      /\ part = "calendar" => CalendarInv
      /\ part = "limiter" => TurnsInv
      /\ part = "lists" => ListsInv
      /\ part = "market" => PricesInv
      => TypeOK
  <2>1. SizingInv => Sizing!TypeOK
    BY DEF SizingInv
  <2>2. CalendarInv => Calendar!TypeOK
    BY DEF CalendarInv, Asked, Calendar!TypeOK
  <2>3. TurnsInv => Limiter!TypeOK
    BY DEF TurnsInv
  <2>4. ListsInv => Lists!TypeOK
    BY DEF ListsInv
  <2>5. PricesInv => Prices!TypeOK
    BY DEF PricesInv
  <2> QED
    BY <2>1, <2>2, <2>3, <2>4, <2>5 DEF TypeOK
<1> QED
  BY <1>1, PartInvariant, SizingInvariant, CalendarInvariant, TurnsInvariant, ListsInvariant,
     PricesInvariant, PTL
=============================================================================
