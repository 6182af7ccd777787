---------------------------- MODULE RecordsProofs ----------------------------
(***************************************************************************)
(* What requests and evaluations share in the database: the records of     *)
(* evaluations, the value series, and the targets.                         *)
(***************************************************************************)
EXTENDS AccessProofs, Sums
-----------------------------------------------------------------------------
(***************************************************************************)
(* The records of evaluations, and the client that pages through them.     *)
(***************************************************************************)
\* The evaluation under way has an open record, unless retention took it.
RunningInv ==
  /\ running # None => running \in used
  /\ running \in DOMAIN records => records[running].status = Past!RUNNING

\* Ids that the client knows are never given again.
KnownInv ==
  reader.there \subseteq used /\ reader.got \subseteq used
    /\ (reader.before # None => reader.before \in used)

\* Between two pages: no row that it was given comes after the cursor, and every
\* listed row that it still has to be given does.  Retention takes the oldest
\* first, so a cursor that is gone has nothing after it.
CursorInv ==
  reader.pc = "paging" =>
    /\ reader.before = None => reader.got = {}
    /\ reader.before \in DOMAIN records =>
         \A i \in reader.got \cap DOMAIN records : ~Past!Older(i, reader.before)
    /\ reader.before # None =>
         \A i \in (reader.there \cap Past!listed) \ reader.got :
           reader.before \in DOMAIN records /\ Past!Older(i, reader.before)

ReadingInv == KnownInv /\ CursorInv /\ Past!NothingMissedOrRepeated

PastInv ==
  /\ Past!TypeOK /\ IsFiniteSet(DOMAIN records) /\ RunningInv
  /\ Past!OnlyALostOneStaysOpen /\ ReadingInv

\* History counts as FiniteSets does.
LEMMA PastCounts ==
  ASSUME NEW S
  PROVE  Past!Cardinality(S) = Cardinality(S)
BY DEF Past!Cardinality, Cardinality

\* The list is in one order: by the instant, and within it by the id.
LEMMA OlderIsAnOrder ==
  ASSUME Past!HistoryConstants, Past!TypeOK,
         NEW i \in DOMAIN records, NEW j \in DOMAIN records, NEW k \in DOMAIN records
  PROVE  /\ ~Past!Older(i, i)
         /\ Past!Older(i, j) /\ Past!Older(j, k) => Past!Older(i, k)
         /\ i = j \/ Past!Older(i, j) \/ Past!Older(j, i)
<1>1. i \in Nat /\ j \in Nat /\ k \in Nat
  BY DEF Past!HistoryConstants, Past!TypeOK
<1>2. \A q \in DOMAIN records : records[q].started_at \in Nat
  BY DEF Past!TypeOK, Past!Records
<1> QED
  BY <1>1, <1>2 DEF Past!Older

\* A page that holds rows has a last one.
LEMMA OldestOfAPage ==
  ASSUME Past!HistoryConstants, Past!TypeOK, IsFiniteSet(DOMAIN records),
         NEW page \in SUBSET DOMAIN records, page # {}
  PROVE  /\ Past!Oldest(page) \in page
         /\ \A j \in page \ {Past!Oldest(page)} : Past!Older(Past!Oldest(page), j)
<1> DEFINE after(i) == {j \in page : Past!Older(j, i)}
           f == [i \in page |-> Cardinality(after(i))]
<1>1. IsFiniteSet(page) /\ \A i \in page : after(i) \in SUBSET page
  BY FS_Subset
<1>2. \A i \in page : IsFiniteSet(after(i)) /\ Cardinality(after(i)) \in Nat
  BY <1>1, FS_Subset, FS_CardinalityType
<1>3. f \in [page -> Nat]
  BY <1>2
<1>4. PICK i \in page : \A j \in page : f[i] <= f[j]
  <2> HIDE DEF f
  <2> QED
    BY <1>3, LeastRank
<1>5. \A j \in page : ~Past!Older(j, i)
  <2> SUFFICES ASSUME NEW j \in page, Past!Older(j, i)
               PROVE  FALSE
    OBVIOUS
  <2>1. after(j) \in SUBSET after(i) /\ j \in after(i) /\ j \notin after(j)
    BY OlderIsAnOrder
  <2>2. Cardinality(after(j)) < Cardinality(after(i))
    <3> HIDE DEF after
    <3>1. Cardinality(after(j)) <= Cardinality(after(i)) /\ after(j) # after(i)
      BY <1>2, <2>1, FS_Subset
    <3>2. Cardinality(after(j)) # Cardinality(after(i))
      BY <1>2, <2>1, <3>1, FS_Subset
    <3> QED
      BY <1>2, <3>1, <3>2
  <2>3. f[i] = Cardinality(after(i)) /\ f[j] = Cardinality(after(j))
    OBVIOUS
  <2> HIDE DEF after, f
  <2> QED
    BY <1>2, <1>4, <2>2, <2>3
<1>6. \A j \in page \ {i} : Past!Older(i, j)
  BY <1>5, OlderIsAnOrder
<1> QED
  BY <1>6 DEF Past!Oldest

\* The page of the rows S.
PageOf(S) == {i \in S : Cardinality({j \in S : Past!Older(i, j)}) < Limit}

\* A page of S holds its newest rows, and a short page holds them all.
LEMMA PageIsTheNewest ==
  ASSUME Past!HistoryConstants, Past!TypeOK, IsFiniteSet(DOMAIN records),
         NEW S \in SUBSET DOMAIN records, NEW page, page = PageOf(S)
  PROVE  /\ \A i \in S \ page : \A o \in page : Past!Older(i, o)
         /\ Cardinality(page) < Limit => page = S
<1> DEFINE newer(i) == {j \in S : Past!Older(i, j)}
<1>1. IsFiniteSet(S) /\ \A i \in S : newer(i) \in SUBSET S
  BY FS_Subset
<1>2. \A i \in S : IsFiniteSet(newer(i)) /\ Cardinality(newer(i)) \in Nat
  BY <1>1, FS_Subset, FS_CardinalityType
<1>3. page \in SUBSET S /\ \A i \in S : i \in page <=> Cardinality(newer(i)) < Limit
  BY DEF PageOf
<1>4. Limit \in Nat
  BY DEF Past!HistoryConstants
<1>5. ASSUME NEW i \in S, NEW j \in S, Past!Older(i, j)
      PROVE  Cardinality(newer(j)) < Cardinality(newer(i))
  <2>1. newer(j) \in SUBSET newer(i) /\ j \in newer(i) /\ j \notin newer(j)
    BY <1>5, OlderIsAnOrder
  <2> HIDE DEF newer
  <2>2. Cardinality(newer(j)) <= Cardinality(newer(i)) /\ newer(j) # newer(i)
    BY <1>2, <2>1, FS_Subset
  <2>3. Cardinality(newer(j)) # Cardinality(newer(i))
    BY <1>2, <2>1, <2>2, FS_Subset
  <2>4. Cardinality(newer(i)) \in Nat /\ Cardinality(newer(j)) \in Nat
    BY <1>2
  <2> QED
    BY <2>2, <2>3, <2>4
<1>6. ASSUME NEW i \in S \ page, NEW o \in page
      PROVE  Past!Older(i, o)
  <2>1. i \in S /\ o \in S /\ i # o
    BY <1>3, <1>6
  <2>2. ~Past!Older(o, i)
    <3> HIDE DEF newer
    <3> QED
      BY <1>2, <1>3, <1>4, <1>5, <2>1, <1>6
  <2> QED
    BY <2>1, <2>2, OlderIsAnOrder
<1>7. ASSUME Cardinality(page) < Limit, page # S
      PROVE  FALSE
  <2> DEFINE T == S \ page
             f == [i \in T |-> Cardinality(newer(i))]
  <2>1. T # {} /\ f \in [T -> Nat]
    BY <1>2, <1>3, <1>7
  <2>2. PICK i \in T : \A j \in T : f[i] <= f[j]
    <3> HIDE DEF f
    <3> QED
      BY <2>1, LeastRank
  <2>3. \A j \in T : f[j] = Cardinality(newer(j))
    OBVIOUS
  <2>4. newer(i) \in SUBSET page
    <3> SUFFICES ASSUME NEW j \in S, Past!Older(i, j), j \notin page
                 PROVE  FALSE
      OBVIOUS
    <3> HIDE DEF newer, f
    <3>1. Cardinality(newer(j)) < Cardinality(newer(i))
      BY <1>5
    <3>2. Cardinality(newer(i)) \in Nat /\ Cardinality(newer(j)) \in Nat
      BY <1>2
    <3>3. f[i] <= f[j] /\ f[i] = Cardinality(newer(i)) /\ f[j] = Cardinality(newer(j))
      BY <2>2, <2>3
    <3> QED
      BY <3>1, <3>2, <3>3
  <2>5. IsFiniteSet(page) /\ Cardinality(page) \in Nat
    BY <1>1, <1>3, FS_Subset, FS_CardinalityType
  <2> HIDE DEF newer, f
  <2>6. Cardinality(newer(i)) <= Cardinality(page)
    BY <2>4, <2>5, FS_Subset
  <2> QED
    BY <1>2, <1>3, <1>4, <1>7, <2>5, <2>6
<1> QED
  BY <1>6, <1>7

\* Records come and go while the client waits: what it knows stays right if the
\* old ones keep their instant, none becomes listed, and none stays that is older
\* than one that went.
LEMMA ReadingGoesOn ==
  ASSUME Past!HistoryConstants, PastInv, UNCHANGED <<reader, repeated>>, used \subseteq used',
         DOMAIN records' \subseteq EvaluationIds,
         \A i \in DOMAIN records' : i \in used =>
           i \in DOMAIN records /\ records'[i].started_at = records[i].started_at,
         \A i \in Past!listed' : i \in used => i \in Past!listed,
         \A i \in DOMAIN records \cap DOMAIN records', j \in DOMAIN records :
           Past!Older(i, j) => j \in DOMAIN records'
  PROVE  ReadingInv'
<1>1. KnownInv /\ CursorInv /\ Past!NothingMissedOrRepeated
  BY DEF PastInv, ReadingInv
<1>2. KnownInv'
  BY <1>1 DEF KnownInv
<1>3. Past!NothingMissedOrRepeated'
  BY <1>1 DEF KnownInv, Past!NothingMissedOrRepeated
<1>5. CursorInv'
  <2> SUFFICES ASSUME reader.pc = "paging"
               PROVE  /\ reader.before = None => reader.got = {}
                      /\ reader.before \in DOMAIN records' =>
                           \A i \in reader.got \cap DOMAIN records' :
                             ~Past!Older(i, reader.before)'
                      /\ reader.before # None =>
                           \A i \in (reader.there \cap Past!listed') \ reader.got :
                             /\ reader.before \in DOMAIN records'
                             /\ Past!Older(i, reader.before)'
    BY DEF CursorInv
  <2>1. reader.before = None => reader.got = {}
    BY <1>1 DEF CursorInv
  <2>2. /\ DOMAIN records \subseteq used /\ Past!listed \subseteq DOMAIN records
        /\ reader.got \subseteq used /\ reader.there \subseteq used
        /\ reader.before # None => reader.before \in used
    BY <1>1 DEF PastInv, Past!TypeOK, Past!listed, KnownInv
  <2>3. ASSUME reader.before \in DOMAIN records', NEW i \in reader.got \cap DOMAIN records'
        PROVE  ~Past!Older(i, reader.before)'
    <3>1. reader.before # None
      BY <2>3 DEF Past!HistoryConstants
    <3>2. reader.before \in used /\ i \in used
      BY <2>2, <3>1
    <3>3. reader.before \in DOMAIN records /\ i \in DOMAIN records
      BY <2>3, <3>2
    <3>4. ~Past!Older(i, reader.before)
      BY <1>1, <2>3, <3>3 DEF CursorInv
    <3>5. records'[i].started_at = records[i].started_at
          /\ records'[reader.before].started_at = records[reader.before].started_at
      BY <2>3, <3>2
    <3> QED
      BY <3>4, <3>5 DEF Past!Older
  <2>4. ASSUME reader.before # None, NEW i \in (reader.there \cap Past!listed') \ reader.got
        PROVE  reader.before \in DOMAIN records' /\ Past!Older(i, reader.before)'
    <3>1. i \in used /\ i \in Past!listed /\ i \in DOMAIN records' /\ i \in DOMAIN records
      BY <2>2, <2>4 DEF Past!listed
    <3>2. reader.before \in DOMAIN records /\ Past!Older(i, reader.before)
      BY <1>1, <2>4, <3>1 DEF CursorInv
    <3>3. reader.before \in DOMAIN records'
      BY <3>1, <3>2
    <3>4. records'[i].started_at = records[i].started_at
          /\ records'[reader.before].started_at = records[reader.before].started_at
      BY <2>2, <2>4, <3>1, <3>3
    <3> QED
      BY <3>2, <3>3, <3>4 DEF Past!Older
  <2> QED
    BY <2>1, <2>3, <2>4
<1> QED
  BY <1>2, <1>3, <1>5 DEF ReadingInv

LEMMA PastInit ==
  ASSUME Past!HistoryConstants, Past!Init
  PROVE  PastInv
<1> USE DEF Past!HistoryConstants, Past!Init
<1>1. DOMAIN records = {} /\ Past!NotReading \in Past!Readers
  BY DEF Past!NotReading, Past!Readers
<1>2. IsFiniteSet(DOMAIN records)
  BY <1>1, FS_EmptySet
<1>3. repeated \in BOOLEAN
  OBVIOUS
<1>4. now \in 0..MaxTime
  OBVIOUS
<1>5. Past!TypeOK
  BY <1>1, <1>3, <1>4 DEF Past!TypeOK
<1>6. RunningInv /\ Past!OnlyALostOneStaysOpen
  BY <1>1 DEF RunningInv, Past!OnlyALostOneStaysOpen
<1>7. ReadingInv
  BY DEF ReadingInv, KnownInv, CursorInv, Past!NothingMissedOrRepeated, Past!NotReading
<1> QED
  BY <1>2, <1>5, <1>6, <1>7 DEF PastInv

\* GET /sessions: the page is everything after the cursor, or the newest of it.
LEMMA PageStep ==
  ASSUME Past!HistoryConstants, PastInv, Past!Page
  PROVE  PastInv'
<1> USE DEF Past!HistoryConstants
<1> DEFINE before == reader.before
           S == IF before = None THEN Past!listed
                ELSE {i \in Past!listed : Past!past(i, before)}
           page == Past!list_evaluations(before)
           pc == IF Past!Cardinality(page) < Limit THEN "done" ELSE "paging"
           next == IF page = {} THEN before ELSE Past!Oldest(page)
<1>1. /\ reader.pc = "paging" /\ (before = None \/ before \in DOMAIN records)
      /\ reader' = [reader EXCEPT !.got = reader.got \cup page, !.pc = pc, !.before = next]
      /\ repeated' = (repeated \/ page \cap reader.got # {})
      /\ UNCHANGED <<now, records, used, running, swept_on, lost>>
  BY DEF Past!Page
<1>2. /\ Past!TypeOK /\ IsFiniteSet(DOMAIN records) /\ KnownInv /\ CursorInv
      /\ Past!NothingMissedOrRepeated
  BY DEF PastInv, ReadingInv
<1>3. page = PageOf(S)
  <2>1. page = {i \in S : Past!Cardinality({j \in S : Past!Older(i, j)}) < Limit}
    BY DEF Past!list_evaluations
  <2> HIDE DEF page, S
  <2> QED
    BY <2>1, PastCounts DEF PageOf
<1>4. S \in SUBSET DOMAIN records /\ page \in SUBSET S /\ S \in SUBSET Past!listed
  BY <1>3 DEF Past!listed, PageOf
<1>5. before # None => S = {i \in Past!listed : Past!Older(i, before)}
  BY DEF Past!past
<1>6. before = None => S = Past!listed
  OBVIOUS
<1> HIDE DEF page, S
<1>7. /\ \A i \in S \ page : \A o \in page : Past!Older(i, o)
      /\ Cardinality(page) < Limit => page = S
  BY <1>2, <1>3, <1>4, PageIsTheNewest
<1>8. page # {} => /\ Past!Oldest(page) \in page
                   /\ \A j \in page \ {Past!Oldest(page)} : Past!Older(Past!Oldest(page), j)
  BY <1>2, <1>4, OldestOfAPage
<1>9. DOMAIN records \subseteq used /\ used \subseteq EvaluationIds
  BY <1>2 DEF Past!TypeOK
<1>10. pc \in {"paging", "done"} /\ next \in EvaluationIds \cup {None}
  <2>1. before \in EvaluationIds \cup {None}
    BY <1>2 DEF Past!TypeOK, Past!Readers
  <2> QED
    BY <1>4, <1>8, <1>9, <2>1
<1>11. pc = "done" => page = S
  BY <1>7, PastCounts
<1>12. page # {} => next = Past!Oldest(page)
  OBVIOUS
<1>13. page = {} => next = before
  OBVIOUS
<1> HIDE DEF pc, next
<1>14. /\ reader' \in Past!Readers /\ reader'.got = reader.got \cup page
       /\ reader'.pc = pc /\ reader'.before = next /\ reader'.there = reader.there
  BY <1>1, <1>2, <1>4, <1>9, <1>10 DEF Past!TypeOK, Past!Readers
\* What was given already does not come after the cursor, and the page does.
<1>15. page \cap reader.got = {}
  <2>1. CASE before = None
    BY <1>1, <1>2, <2>1 DEF CursorInv
  <2>2. CASE before # None
    BY <1>1, <1>2, <1>4, <1>5, <2>2 DEF CursorInv
  <2> QED
    BY <2>1, <2>2
<1>16. ~repeated' /\ repeated' \in BOOLEAN
  BY <1>1, <1>2, <1>15 DEF Past!NothingMissedOrRepeated
<1>17. Past!TypeOK'
  BY <1>1, <1>2, <1>14, <1>16 DEF Past!TypeOK
<1>18. KnownInv'
  <2>1. reader'.before # None => reader'.before \in used
    BY <1>2, <1>4, <1>8, <1>9, <1>12, <1>13, <1>14 DEF KnownInv
  <2> QED
    BY <1>1, <1>2, <1>4, <1>9, <1>14, <2>1 DEF KnownInv
\* Every row still to be given was one of those after the cursor.
<1>19. (reader.there \cap Past!listed) \ reader.got \subseteq S
  <2>1. CASE before = None
    BY <1>6, <2>1
  <2>2. CASE before # None
    BY <1>1, <1>2, <1>5, <2>2 DEF CursorInv
  <2> QED
    BY <2>1, <2>2
<1>20. Past!listed' = Past!listed
  BY <1>1 DEF Past!listed
<1>21. Past!NothingMissedOrRepeated'
  BY <1>11, <1>14, <1>16, <1>19, <1>20 DEF Past!NothingMissedOrRepeated
<1>22. CursorInv'
  <2>1. CASE page = {}
    <3>1. reader'.got = reader.got /\ reader'.before = before /\ reader'.there = reader.there
      BY <1>13, <1>14, <2>1
    <3> QED
      BY <1>1, <1>2, <1>20, <3>1 DEF CursorInv, Past!Older
  <2>2. CASE page # {}
    <3> DEFINE o == Past!Oldest(page)
    <3>1. /\ reader'.before = o /\ o \in page /\ o \in DOMAIN records /\ o # None
          /\ \A j \in page \ {o} : Past!Older(o, j)
      BY <1>4, <1>8, <1>9, <1>12, <1>14, <2>2
    <3> HIDE DEF o
    <3>2. ASSUME NEW i \in (reader.got \cup page) \cap DOMAIN records
          PROVE  ~Past!Older(i, o)
      <4>1. CASE i \in page
        BY <1>2, <1>4, <3>1, <4>1, OlderIsAnOrder
      <4>2. CASE i \in reader.got /\ before = None
        BY <1>1, <1>2, <4>2 DEF CursorInv
      <4>3. CASE i \in reader.got /\ before # None
        <5>1. ~Past!Older(i, before) /\ before \in DOMAIN records
          BY <1>1, <1>2, <4>3, <3>2 DEF CursorInv
        <5>2. Past!Older(o, before)
          BY <1>4, <1>5, <3>1, <4>3
        <5> QED
          BY <1>2, <3>1, <3>2, <5>1, <5>2, OlderIsAnOrder
      <4> QED
        BY <3>2, <4>1, <4>2, <4>3
    <3>3. ASSUME NEW i \in (reader.there \cap Past!listed) \ (reader.got \cup page)
          PROVE  Past!Older(i, o)
      BY <1>7, <1>19, <3>1
    <3> QED
      BY <1>1, <1>14, <1>20, <3>1, <3>2, <3>3 DEF CursorInv, Past!Older
  <2> QED
    BY <2>1, <2>2
<1>23. RunningInv' /\ Past!OnlyALostOneStaysOpen' /\ IsFiniteSet(DOMAIN records)'
  BY <1>1, <1>2 DEF PastInv, RunningInv, Past!OnlyALostOneStaysOpen
<1> QED
  BY <1>17, <1>18, <1>21, <1>22, <1>23 DEF PastInv, ReadingInv

\* A record is opened: of an id that nobody knows, so no reading changes.
LEMMA BeginStep ==
  ASSUME Past!HistoryConstants, PastInv, Past!start_evaluation
  PROVE  PastInv'
<1> USE DEF Past!HistoryConstants
<1>1. PICK i \in EvaluationIds \ used :
        /\ records' = [j \in DOMAIN records \cup {i} |->
             IF j = i THEN [started_at |-> now, status |-> Past!RUNNING] ELSE records[j]]
        /\ used' = used \cup {i}
        /\ running' = i
  BY DEF Past!start_evaluation
<1>2. running = None /\ UNCHANGED <<now, swept_on, reader, repeated, lost>>
  BY DEF Past!start_evaluation
<1>3. Past!TypeOK /\ IsFiniteSet(DOMAIN records) /\ Past!OnlyALostOneStaysOpen
  BY DEF PastInv
<1>4. DOMAIN records \subseteq used /\ used \subseteq EvaluationIds /\ now \in Nat
  BY <1>3 DEF Past!TypeOK
<1> DEFINE new == [started_at |-> now, status |-> Past!RUNNING]
<1>5. new \in Past!Records /\ new.status = Past!RUNNING
  BY <1>4 DEF Past!Records, Past!Statuses
<1>6. /\ DOMAIN records' = DOMAIN records \cup {i} /\ records'[i] = new
      /\ \A j \in DOMAIN records : records'[j] = records[j] /\ j # i
  BY <1>1, <1>4
<1> HIDE DEF new
<1>7. Past!TypeOK'
  BY <1>1, <1>2, <1>3, <1>5, <1>6 DEF Past!TypeOK
<1>8. IsFiniteSet(DOMAIN records')
  BY <1>3, <1>6, FS_AddElement
<1>9. RunningInv'
  BY <1>1, <1>5, <1>6 DEF RunningInv
<1>10. Past!OnlyALostOneStaysOpen'
  BY <1>1, <1>2, <1>3, <1>4, <1>6 DEF Past!OnlyALostOneStaysOpen
<1>11. ReadingInv'
  <2>1. /\ UNCHANGED <<reader, repeated>> /\ used \subseteq used' /\ DOMAIN records' \subseteq EvaluationIds
        /\ \A j \in DOMAIN records' : j \in used =>
             j \in DOMAIN records /\ records'[j].started_at = records[j].started_at
    BY <1>1, <1>2, <1>4, <1>6
  <2>2. \A j \in Past!listed' : j \in used => j \in Past!listed
    BY <1>1, <1>6 DEF Past!listed
  <2>3. \A k \in DOMAIN records \cap DOMAIN records', j \in DOMAIN records :
          Past!Older(k, j) => j \in DOMAIN records'
    BY <1>6
  <2> QED
    BY <2>1, <2>2, <2>3, ReadingGoesOn
<1> QED
  BY <1>7, <1>8, <1>9, <1>10, <1>11 DEF PastInv

\* The record under way is closed: it was listed, and may be so no more.
LEMMA FinishStep ==
  ASSUME Past!HistoryConstants, PastInv, Past!finish_evaluation
  PROVE  PastInv'
<1> USE DEF Past!HistoryConstants
<1>1. PICK outcome \in Past!Statuses \ {Past!RUNNING} :
        records' = IF running \in DOMAIN records /\ Past!Closes(outcome)
                   THEN [records EXCEPT ![running].status = outcome] ELSE records
  BY DEF Past!finish_evaluation
<1>2. running # None /\ running' = None /\ UNCHANGED <<now, used, swept_on, reader, repeated, lost>>
  BY DEF Past!finish_evaluation
<1>3. Past!TypeOK /\ IsFiniteSet(DOMAIN records) /\ Past!OnlyALostOneStaysOpen /\ RunningInv
  BY DEF PastInv
<1>4. DOMAIN records \subseteq used /\ used \subseteq EvaluationIds /\ None \notin DOMAIN records
  BY <1>3 DEF Past!TypeOK
<1>5. DOMAIN records' = DOMAIN records
  BY <1>1
<1>6. ASSUME NEW i \in DOMAIN records
      PROVE  /\ records'[i] \in Past!Records /\ records'[i].started_at = records[i].started_at
             /\ i # running => records'[i].status = records[i].status
             /\ i = running => records'[i].status = outcome
  <2>1. records[i] \in Past!Records
    BY <1>3 DEF Past!TypeOK
  <2>2. CASE running \in DOMAIN records
    <3>1. records' = [records EXCEPT ![running].status = outcome]
      BY <1>1, <2>2 DEF Past!Closes
    <3>2. CASE i # running
      <4>1. records'[i] = records[i]
        BY <3>1, <3>2
      <4> QED
        BY <2>1, <3>2, <4>1
    <3>3. CASE i = running
      <4>1. records'[i] = [records[i] EXCEPT !.status = outcome]
        BY <3>1, <3>3
      <4>2. /\ [records[i] EXCEPT !.status = outcome] \in Past!Records
            /\ [records[i] EXCEPT !.status = outcome].started_at = records[i].started_at
            /\ [records[i] EXCEPT !.status = outcome].status = outcome
        BY <2>1 DEF Past!Records
      <4> QED
        BY <3>3, <4>1, <4>2
    <3> QED
      BY <3>2, <3>3
  <2>3. CASE running \notin DOMAIN records
    <3>1. records' = records /\ i # running
      BY <1>1, <2>3
    <3> QED
      BY <2>1, <3>1
  <2> QED
    BY <2>2, <2>3
<1>7. Past!TypeOK'
  BY <1>2, <1>3, <1>5, <1>6 DEF Past!TypeOK
<1>8. RunningInv'
  BY <1>2, <1>4, <1>5 DEF RunningInv
<1>9. Past!OnlyALostOneStaysOpen'
  BY <1>1, <1>2, <1>3, <1>5, <1>6 DEF Past!OnlyALostOneStaysOpen
<1>10. ReadingInv'
  <2>1. /\ UNCHANGED <<reader, repeated>> /\ used \subseteq used' /\ DOMAIN records' \subseteq EvaluationIds
        /\ \A j \in DOMAIN records' : j \in used =>
             j \in DOMAIN records /\ records'[j].started_at = records[j].started_at
    BY <1>2, <1>4, <1>5, <1>6
  <2>2. \A j \in Past!listed' : j \in used => j \in Past!listed
    <3>1. \A j \in DOMAIN records : records'[j].status # Past!NOTHING_TO_DO
                                      => records[j].status # Past!NOTHING_TO_DO
      BY <1>3, <1>6 DEF RunningInv, Past!RUNNING, Past!NOTHING_TO_DO
    <3> QED
      BY <1>5, <3>1 DEF Past!listed
  <2>3. \A k \in DOMAIN records \cap DOMAIN records', j \in DOMAIN records :
          Past!Older(k, j) => j \in DOMAIN records'
    BY <1>5
  <2> QED
    BY <2>1, <2>2, <2>3, ReadingGoesOn
<1> QED
  BY <1>3, <1>5, <1>7, <1>8, <1>9, <1>10 DEF PastInv

\* Retention takes the records before an instant, and so the oldest first.
LEMMA RetentionStep ==
  ASSUME Past!HistoryConstants, PastInv, Past!Sweep
  PROVE  PastInv'
<1> USE DEF Past!HistoryConstants
<1> DEFINE D == Past!delete_evaluations_before(Retention)
<1>1. /\ records' = [i \in DOMAIN records \ D |-> records[i]] /\ swept_on' = Past!_day(now)
      /\ UNCHANGED <<now, used, running, reader, repeated, lost>>
  BY DEF Past!Sweep
<1>2. Past!TypeOK /\ IsFiniteSet(DOMAIN records) /\ Past!OnlyALostOneStaysOpen /\ RunningInv
  BY DEF PastInv
<1>3. DOMAIN records \subseteq used /\ used \subseteq EvaluationIds /\ now \in Nat
  BY <1>2 DEF Past!TypeOK
<1>4. /\ DOMAIN records' = DOMAIN records \ D
      /\ \A i \in DOMAIN records' : i \in DOMAIN records /\ records'[i] = records[i]
  BY <1>1
<1>5. \A i \in DOMAIN records : i \in D <=> records[i].started_at + Retention < now
  BY DEF Past!delete_evaluations_before
<1> HIDE DEF D
<1>6. swept_on' \in Nat
  BY <1>1, <1>3 DEF Past!_day
<1>7. Past!TypeOK'
  BY <1>1, <1>2, <1>4, <1>6 DEF Past!TypeOK
<1>8. IsFiniteSet(DOMAIN records')
  BY <1>2, <1>4, FS_Subset
<1>9. RunningInv'
  BY <1>1, <1>2, <1>4 DEF RunningInv
<1>10. Past!OnlyALostOneStaysOpen'
  BY <1>1, <1>2, <1>4 DEF Past!OnlyALostOneStaysOpen
<1>11. ReadingInv'
  <2>1. /\ UNCHANGED <<reader, repeated>> /\ used \subseteq used' /\ DOMAIN records' \subseteq EvaluationIds
        /\ \A j \in DOMAIN records' : j \in used =>
             j \in DOMAIN records /\ records'[j].started_at = records[j].started_at
    BY <1>1, <1>3, <1>4
  <2>2. \A j \in Past!listed' : j \in used => j \in Past!listed
    BY <1>4 DEF Past!listed
  <2>3. ASSUME NEW k \in DOMAIN records \cap DOMAIN records', NEW j \in DOMAIN records,
               Past!Older(k, j)
        PROVE  j \in DOMAIN records'
    <3>1. records[k].started_at \in Nat /\ records[j].started_at \in Nat
      BY <1>2 DEF Past!TypeOK, Past!Records
    <3>2. records[k].started_at <= records[j].started_at
      BY <2>3, <3>1 DEF Past!Older
    <3>3. ~(records[k].started_at + Retention < now)
      BY <1>4, <1>5
    <3> QED
      BY <1>3, <1>4, <1>5, <3>1, <3>2, <3>3
  <2> QED
    BY <2>1, <2>2, <2>3, ReadingGoesOn
<1> QED
  BY <1>7, <1>8, <1>9, <1>10, <1>11 DEF PastInv

LEMMA PastStep ==
  ASSUME Past!HistoryConstants, PastInv, [Past!Next]_(Past!vars)
  PROVE  PastInv'
<1> USE DEF Past!HistoryConstants
<1>1. CASE Past!Crash \/ Past!FinishFails
  <2>1. /\ UNCHANGED <<now, records, used, reader, repeated>> /\ running' = None
        /\ swept_on' \in {swept_on, None} /\ lost' = lost \cup ({running} \ {None})
    BY <1>1 DEF Past!Crash, Past!FinishFails
  <2>2. Past!TypeOK'
    BY <2>1 DEF PastInv, Past!TypeOK
  <2>3. RunningInv' /\ IsFiniteSet(DOMAIN records')
    BY <2>1 DEF PastInv, Past!TypeOK, RunningInv
  <2>4. Past!OnlyALostOneStaysOpen'
    BY <2>1 DEF PastInv, Past!TypeOK, Past!OnlyALostOneStaysOpen
  <2>5. ReadingInv'
    BY <2>1 DEF PastInv, ReadingInv, KnownInv, CursorInv, Past!NothingMissedOrRepeated,
       Past!listed, Past!Older
  <2> QED
    BY <2>2, <2>3, <2>4, <2>5 DEF PastInv
<1>2. CASE Past!BeginReading
  <2> DEFINE new == [Past!NotReading EXCEPT !.pc = "paging", !.there = DOMAIN records]
  <2>1. reader' = new /\ UNCHANGED <<now, records, used, running, swept_on, repeated, lost>>
    BY <1>2 DEF Past!BeginReading
  <2>2. DOMAIN records \subseteq used /\ used \subseteq EvaluationIds
    BY DEF PastInv, Past!TypeOK
  <2>3. /\ new \in Past!Readers /\ new.pc = "paging" /\ new.there = DOMAIN records
        /\ new.before = None /\ new.got = {}
    BY <2>2 DEF Past!NotReading, Past!Readers
  <2> HIDE DEF new
  <2>4. Past!TypeOK'
    BY <2>1, <2>3 DEF PastInv, Past!TypeOK
  <2>5. RunningInv' /\ Past!OnlyALostOneStaysOpen' /\ IsFiniteSet(DOMAIN records')
    BY <2>1 DEF PastInv, RunningInv, Past!OnlyALostOneStaysOpen
  <2>6. None \notin DOMAIN records
    BY <2>2
  <2>7. ReadingInv'
    BY <2>1, <2>2, <2>3, <2>6 DEF PastInv, ReadingInv, KnownInv, CursorInv,
       Past!NothingMissedOrRepeated
  <2> QED
    BY <2>4, <2>5, <2>7 DEF PastInv
<1>3. CASE Past!PageGone
  <2> DEFINE new == [reader EXCEPT !.pc = "done"]
  <2>1. /\ reader.pc = "paging" /\ reader.before # None /\ reader.before \notin DOMAIN records
        /\ reader' = new /\ UNCHANGED <<now, records, used, running, swept_on, repeated, lost>>
    BY <1>3 DEF Past!PageGone
  <2>2. /\ new \in Past!Readers /\ new.pc = "done" /\ new.there = reader.there
        /\ new.before = reader.before /\ new.got = reader.got
    BY DEF PastInv, Past!TypeOK, Past!Readers
  <2> HIDE DEF new
  <2>3. Past!TypeOK'
    BY <2>1, <2>2 DEF PastInv, Past!TypeOK
  <2>4. RunningInv' /\ Past!OnlyALostOneStaysOpen' /\ IsFiniteSet(DOMAIN records')
    BY <2>1 DEF PastInv, RunningInv, Past!OnlyALostOneStaysOpen
  <2>5. KnownInv' /\ CursorInv'
    BY <2>1, <2>2 DEF PastInv, ReadingInv, KnownInv, CursorInv
  <2>6. \A i \in reader.there \cap Past!listed : i \in reader.got
    BY <2>1 DEF PastInv, ReadingInv, CursorInv
  <2>7. Past!NothingMissedOrRepeated'
    BY <2>1, <2>2, <2>6 DEF PastInv, ReadingInv, Past!NothingMissedOrRepeated, Past!listed
  <2> QED
    BY <2>3, <2>4, <2>5, <2>7 DEF PastInv, ReadingInv
<1>4. CASE Past!Clock \/ UNCHANGED Past!vars
  <2>1. now' \in 0..MaxTime /\ UNCHANGED <<records, used, running, swept_on, reader, repeated, lost>>
    BY <1>4 DEF Past!Clock, Past!vars, PastInv, Past!TypeOK
  <2>2. Past!TypeOK'
    BY <2>1 DEF PastInv, Past!TypeOK
  <2> QED
    BY <2>1, <2>2 DEF PastInv, RunningInv, Past!OnlyALostOneStaysOpen, ReadingInv, KnownInv,
       CursorInv, Past!NothingMissedOrRepeated, Past!listed, Past!Older
<1> QED
  BY <1>1, <1>2, <1>3, <1>4, BeginStep, FinishStep, PageStep, RetentionStep DEF Past!Next

\* The invariant holds in every state that evaluations and readers reach.
LEMMA PastInvariant == Spec => [](part = "past" => PastInv)
<1>1. Init => (part = "past" => PastInv)
  BY TablesConstants, PastInit DEF Init
<1>2. (part = "past" => PastInv) /\ [Next]_vars => (part = "past" => PastInv)'
  <2> SUFFICES ASSUME PastInv, part = "past", [Next]_vars PROVE PastInv'
    BY DEF Next, vars
  <2>1. [Past!Next]_(Past!vars)
    BY DEF Next, vars, past, Past!vars
  <2> QED
    BY <2>1, TablesConstants, PastStep
<1> QED
  BY <1>1, <1>2, PTL DEF Spec

\* list_evaluations: for every page size, whatever is recorded, closed and swept
\* between two pages, a client misses no row and is given none twice.
THEOREM PagingIsComplete == Spec => []NothingMissedOrRepeated
<1>1. (part = "past" => PastInv) => NothingMissedOrRepeated
  BY DEF PastInv, ReadingInv, Past!NothingMissedOrRepeated, NothingMissedOrRepeated
<1> QED
  BY <1>1, PastInvariant, PTL

\* _run: for any ids, page size and retention, only the evaluation under way and those
\* that could not close it (the process died, or the transaction of the `finally`
\* failed) have an open record.
THEOREM RecordsAreClosed == Spec => []OnlyALostOneStaysOpen
<1>1. (part = "past" => PastInv) => OnlyALostOneStaysOpen
  BY DEF PastInv, Past!OnlyALostOneStaysOpen, OnlyALostOneStaysOpen
<1> QED
  BY <1>1, PastInvariant, PTL
-----------------------------------------------------------------------------
(***************************************************************************)
(* The value series.                                                       *)
(***************************************************************************)
\* A process holds rows that exist, and readings that were taken; the evaluation
\* holds the row it kept, which is pinned once it may send.
Working(p, l) ==
  /\ l.row # None => l.row \in 1..last
  /\ l.reading <= account
  /\ p = Evaluation /\ l.pc \in {"kept", "pinned", "sending"} => l.row # None
  /\ p = Evaluation /\ l.pc \in {"pinned", "sending"} => rows[l.row].pinned
WorkingInv == \A p \in Points!Procs : Working(p, proc[p])

TakenInv == \A i \in 1..last : rows[i].reading <= account

\* The points of evaluations that sent orders are pinned.
OrdersInv ==
  \A o \in orders :
    /\ o[1] \in 1..last
    /\ rows[o[1]].pinned /\ rows[o[1]].reading <= o[2]

PointsInv == Points!TypeOK /\ WorkingInv /\ TakenInv /\ OrdersInv /\ Points!NoDayLost

\* What a step owes the series: no row goes, changes its day, or changes at all
\* once it is pinned; and what the histories gain is true.
LEMMA SeriesGoesOn ==
  ASSUME PointsInv, last \in Nat, last' \in Nat, last <= last', Points!PinnedIsKept,
         \A i \in 1..last : Points!_day(rows'[i].as_of) = Points!_day(rows[i].as_of),
         \A d \in kept' \ kept : \E i \in 1..last' : Points!_day(rows'[i].as_of) = d,
         \A o \in orders' \ orders :
           o[1] \in 1..last' /\ rows'[o[1]].pinned /\ rows'[o[1]].reading <= o[2]
  PROVE  OrdersInv' /\ Points!NoDayLost'
<1>1. \A i \in 1..last : i \in 1..last'
  OBVIOUS
<1>2. ASSUME NEW o \in orders'
      PROVE  o[1] \in 1..last' /\ rows'[o[1]].pinned /\ rows'[o[1]].reading <= o[2]
  <2>1. CASE o \in orders
    <3>1. o[1] \in 1..last /\ rows[o[1]].pinned /\ rows[o[1]].reading <= o[2]
      BY <2>1 DEF PointsInv, OrdersInv
    <3>2. rows'[o[1]] = rows[o[1]]
      BY <3>1 DEF Points!PinnedIsKept
    <3> QED
      BY <1>1, <3>1, <3>2
  <2>2. CASE o \notin orders
    BY <2>2, <1>2
  <2> QED
    BY <2>1, <2>2
<1>3. ASSUME NEW d \in kept'
      PROVE  \E i \in 1..last' : Points!_day(rows'[i].as_of) = d
  <2>1. CASE d \in kept
    <3>1. PICK i \in 1..last : Points!_day(rows[i].as_of) = d
      BY <2>1 DEF PointsInv, Points!NoDayLost
    <3> QED
      BY <1>1, <3>1
  <2>2. CASE d \notin kept
    BY <1>3, <2>2
  <2> QED
    BY <2>1, <2>2
<1>4. OrdersInv'
  BY <1>2 DEF OrdersInv
<1>5. Points!NoDayLost'
  BY <1>3 DEF Points!NoDayLost, Points!_day
<1> QED
  BY <1>4, <1>5

\* What a step owes the processes: p goes on with l, and the others hold what
\* they held.
LEMMA OthersGoOn ==
  ASSUME Points!SnapshotsConstants, PointsInv,
         NEW p \in Points!Procs, NEW l \in Points!Locals, proc' = [proc EXCEPT ![p] = l],
         last' \in Nat, last <= last', account' \in Nat, account <= account',
         Points!PinnedIsKept,
         l.row # None => l.row \in 1..last',
         l.reading <= account',
         p = Evaluation /\ l.pc \in {"kept", "pinned", "sending"} => l.row # None,
         p = Evaluation /\ l.pc \in {"pinned", "sending"} => rows'[l.row].pinned
  PROVE  WorkingInv' /\ proc' \in [Points!Procs -> Points!Locals]
<1>1. /\ proc \in [Points!Procs -> Points!Locals] /\ last \in Nat /\ account \in Nat
      /\ WorkingInv
  BY DEF PointsInv, Points!TypeOK, Points!SnapshotsConstants
<1>2. /\ proc' \in [Points!Procs -> Points!Locals] /\ proc'[p] = l
      /\ \A q \in Points!Procs : q # p => proc'[q] = proc[q]
  BY <1>1
<1>3. Working(p, proc[p])'
  BY <1>2 DEF Working
<1>4. ASSUME NEW q \in Points!Procs, q # p
      PROVE  Working(q, proc[q])'
  <2>1. Working(q, proc[q]) /\ proc'[q] = proc[q] /\ proc[q].reading \in Nat
    BY <1>1, <1>2, <1>4 DEF WorkingInv, Points!Locals
  <2>2. \A i \in 1..last : i \in 1..last' /\ (rows[i].pinned => rows'[i] = rows[i])
    BY <1>1 DEF Points!PinnedIsKept
  <2>3. proc[q].reading <= account'
    BY <1>1, <2>1 DEF Working
  <2> QED
    BY <2>1, <2>2, <2>3 DEF Working
<1> QED
  BY <1>2, <1>3, <1>4 DEF WorkingInv

\* A step of a process that leaves the rows and the account alone.
LEMMA OnlyAProcessMoves ==
  ASSUME Points!SnapshotsConstants, PointsInv,
         NEW p \in Points!Procs, NEW l \in Points!Locals, proc' = [proc EXCEPT ![p] = l],
         UNCHANGED <<now, account, rows, last, kept, orders>>,
         Working(p, l)
  PROVE  PointsInv' /\ Points!PinnedIsKept
<1>1. Points!PinnedIsKept /\ last' \in Nat /\ last <= last' /\ account' \in Nat /\ account <= account'
  BY DEF Points!PinnedIsKept, PointsInv, Points!TypeOK, Points!SnapshotsConstants
<1>2. /\ l.row # None => l.row \in 1..last'
      /\ l.reading <= account'
      /\ p = Evaluation /\ l.pc \in {"kept", "pinned", "sending"} => l.row # None
      /\ p = Evaluation /\ l.pc \in {"pinned", "sending"} => rows'[l.row].pinned
  BY DEF Working
<1>3. WorkingInv' /\ proc' \in [Points!Procs -> Points!Locals]
  BY <1>1, <1>2, OthersGoOn
<1>4. Points!TypeOK' /\ TakenInv' /\ OrdersInv' /\ Points!NoDayLost'
  BY <1>3 DEF PointsInv, Points!TypeOK, TakenInv, OrdersInv, Points!NoDayLost
<1> QED
  BY <1>1, <1>3, <1>4 DEF PointsInv

LEMMA PointsInit ==
  ASSUME Points!SnapshotsConstants, Points!Init
  PROVE  PointsInv
<1> USE DEF Points!SnapshotsConstants, Points!Init
<1>1. /\ Points!Idle \in Points!Locals /\ Points!Idle.row = None /\ Points!Idle.reading = 0
      /\ Points!Idle.pc = "idle"
  BY DEF Points!Idle, Points!Locals
<1>2. now \in 0..MaxTime /\ account \in 0..MaxAccount /\ last \in 0..MaxRows /\ 1..last = {}
  OBVIOUS
<1>3. DOMAIN rows = 1..last
  BY <1>2
<1>4. Points!TypeOK
  BY <1>1, <1>2, <1>3 DEF Points!TypeOK
<1>5. WorkingInv
  BY <1>1 DEF WorkingInv, Working
<1>6. TakenInv /\ OrdersInv /\ Points!NoDayLost
  BY <1>2 DEF TakenInv, OrdersInv, Points!NoDayLost
<1> QED
  BY <1>4, <1>5, <1>6 DEF PointsInv

\* keep_snapshot and pin_snapshot, and the orders between them: every step keeps
\* the invariant, and changes no pinned row.
LEMMA PointsStep ==
  ASSUME Points!SnapshotsConstants, PointsInv, [Points!Next]_(Points!vars)
  PROVE  PointsInv' /\ Points!PinnedIsKept
<1> USE DEF Points!SnapshotsConstants
<1>i. /\ Points!Idle \in Points!Locals /\ Points!Idle.row = None /\ Points!Idle.reading = 0
      /\ Points!Idle.pc = "idle"
  BY DEF Points!Idle, Points!Locals
<1>t. /\ now \in Nat /\ account \in Nat /\ account <= MaxAccount /\ last \in Nat /\ last <= MaxRows
      /\ DOMAIN rows = 1..last /\ \A i \in 1..last : rows[i] \in Points!Row
      /\ proc \in [Points!Procs -> Points!Locals]
      /\ kept \subseteq Nat /\ orders \subseteq Points!Ids \X Nat
  BY DEF PointsInv, Points!TypeOK
<1>w. \A p \in Points!Procs : Working(p, proc[p])
  BY DEF PointsInv, WorkingInv
<1>e. Evaluation \in Points!Procs
  BY DEF Points!Procs
<1>d. Points!Idle.pc # "kept" /\ \A p \in Points!Procs : Working(p, Points!Idle)
  BY <1>i, <1>t DEF Working
<1>1. ASSUME NEW p \in Points!Procs, Points!Read(p)
      PROVE  PointsInv' /\ Points!PinnedIsKept
  <2> DEFINE l == [Points!Idle EXCEPT !.pc = "read", !.reading = account]
  <2>1. proc' = [proc EXCEPT ![p] = l] /\ UNCHANGED <<now, account, rows, last, kept, orders>>
    BY <1>1 DEF Points!Read, Points!history
  <2>2. l \in Points!Locals /\ l.pc = "read" /\ l.reading = account /\ l.row = None
    BY <1>t DEF Points!Idle, Points!Locals
  <2> HIDE DEF l
  <2>3. Working(p, l)
    BY <1>t, <2>2 DEF Working
  <2> QED
    BY <2>1, <2>2, <2>3, OnlyAProcessMoves
<1>2. ASSUME NEW p \in Points!Procs, Points!Pick(p)
      PROVE  PointsInv' /\ Points!PinnedIsKept
  <2>1. PICK i \in 1..last \cup {None} :
          proc' = [proc EXCEPT ![p] = [proc[p] EXCEPT !.pc = "picked", !.as_of = now, !.row = i,
                     !.value = IF i = None THEN None ELSE rows[i]]]
    BY <1>2 DEF Points!Pick
  <2> DEFINE v == IF i = None THEN None ELSE rows[i]
             l == [proc[p] EXCEPT !.pc = "picked", !.as_of = now, !.row = i, !.value = v]
  <2>2. proc' = [proc EXCEPT ![p] = l] /\ UNCHANGED <<now, account, rows, last, kept, orders>>
    BY <1>2, <2>1 DEF Points!Pick, Points!history
  <2>3. v \in Points!Row \cup {None} /\ i \in Points!Ids \cup {None}
    BY <1>t DEF Points!Ids
  <2> HIDE DEF v
  <2>4. /\ l \in Points!Locals /\ l.pc = "picked" /\ l.reading = proc[p].reading /\ l.row = i
    BY <1>t, <2>3 DEF Points!Locals
  <2> HIDE DEF l
  <2>5. Working(p, l)
    BY <1>w, <2>4 DEF Working
  <2> QED
    BY <2>2, <2>4, <2>5, OnlyAProcessMoves
\* Kept: the process that kept row i of now, with the rows as they are by then.
<1>k. ASSUME NEW p \in Points!Procs, NEW i \in 1..last', Points!Kept(p, i),
             last' \in 0..MaxRows, last <= last', Points!PinnedIsKept,
             rows'[i].as_of = proc[p].as_of,
             DOMAIN rows' = 1..last', \A j \in 1..last' : rows'[j] \in Points!Row,
             \A j \in 1..last : Points!_day(rows'[j].as_of) = Points!_day(rows[j].as_of),
             \A j \in 1..last' : rows'[j].reading <= account
      PROVE  PointsInv'
  <2> DEFINE kl == [proc[p] EXCEPT !.pc = "kept", !.row = i]
             l == IF p = Evaluation THEN kl ELSE Points!Idle
  <2>1. /\ kept' = kept \cup {Points!_day(proc[p].as_of)} /\ proc' = [proc EXCEPT ![p] = l]
        /\ UNCHANGED <<now, account, orders>>
    BY <1>k DEF Points!Kept
  <2>2. i \in Points!Ids
    BY <1>k DEF Points!Ids
  <2>3. kl \in Points!Locals /\ kl.row = i /\ kl.pc = "kept" /\ kl.reading = proc[p].reading
    BY <1>t, <2>2 DEF Points!Locals
  <2>4. proc[p].reading <= account /\ proc[p].as_of \in Nat /\ last' \in Nat
    BY <1>k, <1>t, <1>w DEF Working, Points!Locals
  <2> HIDE DEF kl
  <2>5. /\ l \in Points!Locals /\ l.reading <= account'
        /\ l.row # None => l.row \in 1..last'
        /\ p = Evaluation /\ l.pc \in {"kept", "pinned", "sending"} => l.row # None
        /\ ~(p = Evaluation /\ l.pc \in {"pinned", "sending"})
    <3>1. CASE p = Evaluation
      <4>1. l = kl /\ i # None
        BY <3>1, <2>2 DEF Points!Ids
      <4> QED
        BY <2>1, <2>3, <2>4, <4>1, <1>k
    <3>2. CASE p # Evaluation
      BY <1>i, <1>t, <2>1, <3>2
    <3> QED
      BY <3>1, <3>2
  <2> HIDE DEF l
  <2>6. account' \in Nat /\ account <= account'
    BY <1>t, <2>1
  <2>7. WorkingInv' /\ proc' \in [Points!Procs -> Points!Locals]
    BY <1>k, <2>1, <2>4, <2>5, <2>6, OthersGoOn
  <2>8. \A d \in kept' \ kept : \E j \in 1..last' : Points!_day(rows'[j].as_of) = d
    BY <1>k, <2>1
  <2>9. OrdersInv' /\ Points!NoDayLost'
    BY <1>k, <1>t, <2>1, <2>4, <2>8, SeriesGoesOn
  <2>10. Points!_day(proc[p].as_of) \in Nat
    BY <2>4 DEF Points!_day
  <2>11. kept' \subseteq Nat
    BY <1>t, <2>1, <2>10
  <2>12. Points!TypeOK'
    BY <1>k, <2>1, <2>7, <2>11 DEF PointsInv, Points!TypeOK
  <2>13. TakenInv'
    BY <1>k, <2>1 DEF TakenInv
  <2> QED
    BY <2>7, <2>9, <2>12, <2>13 DEF PointsInv
<1>3. ASSUME NEW p \in Points!Procs, Points!Overwrite(p)
      PROVE  PointsInv' /\ Points!PinnedIsKept
  <2> DEFINE r == proc[p].row
             x == [rows[r] EXCEPT !.as_of = proc[p].as_of, !.reading = proc[p].reading]
  <2>1. /\ r # None /\ ~rows[r].pinned
        /\ Points!_day(rows[r].as_of) = Points!_day(proc[p].as_of)
        /\ rows' = [rows EXCEPT ![r].as_of = proc[p].as_of, ![r].reading = proc[p].reading]
        /\ Points!Kept(p, r) /\ last' = last
    BY <1>3 DEF Points!Overwrite, Points!overwrites, Points!Locked
  <2>2. r \in 1..last
    BY <1>w, <2>1 DEF Working
  <2>3. rows[r] \in Points!Row /\ proc[p].as_of \in Nat /\ proc[p].reading \in Nat
    BY <1>t, <2>2 DEF Points!Locals
  <2>4. x \in Points!Row /\ x.as_of = proc[p].as_of /\ x.reading = proc[p].reading
    BY <2>3 DEF Points!Row
  <2>5. rows' = [rows EXCEPT ![r] = x]
    BY <1>t, <2>1, <2>2
  <2> HIDE DEF x
  <2>6. /\ DOMAIN rows' = 1..last' /\ rows'[r] = x
        /\ \A j \in 1..last : j # r => rows'[j] = rows[j]
    BY <1>t, <2>1, <2>2, <2>5
  <2>7. Points!PinnedIsKept
    BY <2>1, <2>6 DEF Points!PinnedIsKept
  <2>8. \A j \in 1..last' : rows'[j] \in Points!Row /\ rows'[j].reading <= account
    <3>1. proc[p].reading <= account
      BY <1>w DEF Working
    <3>2. \A j \in 1..last : rows[j].reading <= account
      BY DEF PointsInv, TakenInv
    <3> QED
      BY <1>t, <2>1, <2>4, <2>6, <3>1, <3>2
  <2>9. \A j \in 1..last : Points!_day(rows'[j].as_of) = Points!_day(rows[j].as_of)
    BY <2>1, <2>4, <2>6
  <2>10. last' \in 0..MaxRows /\ last <= last' /\ r \in 1..last'
    BY <1>t, <2>1, <2>2
  <2> HIDE DEF r
  <2>11. PointsInv'
    BY <1>k, <2>1, <2>4, <2>6, <2>7, <2>8, <2>9, <2>10
  <2> QED
    BY <2>7, <2>11
<1>4. ASSUME NEW p \in Points!Procs, Points!record_snapshot(p)
      PROVE  PointsInv' /\ Points!PinnedIsKept
  <2> DEFINE n == last + 1
             x == Points!point(p)
  <2>1. /\ last < MaxRows /\ last' = n /\ Points!Kept(p, n)
        /\ rows' = [j \in 1..n |-> IF j = n THEN x ELSE rows[j]]
    BY <1>4 DEF Points!record_snapshot
  <2>2. proc[p].as_of \in Nat /\ proc[p].reading \in Nat
    BY <1>t DEF Points!Locals
  <2>3. x \in Points!Row /\ x.as_of = proc[p].as_of /\ x.reading = proc[p].reading
    BY <2>2 DEF Points!Row, Points!point
  <2> HIDE DEF x
  <2>4. n \in 1..last' /\ last' \in 0..MaxRows /\ last <= last'
    BY <1>t, <2>1
  <2>5. /\ DOMAIN rows' = 1..last' /\ rows'[n] = x
        /\ \A j \in 1..last : j \in 1..last' /\ rows'[j] = rows[j]
        /\ \A j \in 1..last' : j = n \/ j \in 1..last
    BY <1>t, <2>1, <2>4
  <2>6. Points!PinnedIsKept
    BY <2>5 DEF Points!PinnedIsKept
  <2>7. \A j \in 1..last' : rows'[j] \in Points!Row /\ rows'[j].reading <= account
    <3>1. proc[p].reading <= account
      BY <1>w DEF Working
    <3>2. \A j \in 1..last : rows[j].reading <= account
      BY DEF PointsInv, TakenInv
    <3> QED
      BY <1>t, <2>3, <2>5, <3>1, <3>2
  <2>8. \A j \in 1..last : Points!_day(rows'[j].as_of) = Points!_day(rows[j].as_of)
    BY <2>5
  <2> HIDE DEF n
  <2>9. PointsInv'
    BY <1>k, <2>1, <2>3, <2>4, <2>5, <2>6, <2>7, <2>8
  <2> QED
    BY <2>6, <2>9
<1>5. ASSUME NEW p \in Points!Procs,
             Points!End(p) \/ (p = Evaluation /\ Points!TurnDown)
      PROVE  PointsInv' /\ Points!PinnedIsKept
  <2>1. /\ proc' = [proc EXCEPT ![p] = Points!Idle]
        /\ UNCHANGED <<now, account, rows, last, kept, orders>>
    BY <1>5 DEF Points!End, Points!TurnDown, Points!history
  <2> QED
    BY <1>d, <1>i, <2>1, OnlyAProcessMoves
<1>6. ASSUME Points!Pin
      PROVE  PointsInv' /\ Points!PinnedIsKept
  <2> DEFINE r == proc[Evaluation].row
             x == [rows[r] EXCEPT !.pinned = TRUE]
             l == [proc[Evaluation] EXCEPT !.pc = "pinned"]
  <2>1. /\ proc[Evaluation].pc = "kept" /\ rows' = [rows EXCEPT ![r] = x]
        /\ proc' = [proc EXCEPT ![Evaluation] = l]
        /\ UNCHANGED <<now, account, last, kept, orders>>
    BY <1>6 DEF Points!Pin
  <2>2. r # None /\ r \in 1..last /\ proc[Evaluation].reading <= account
    BY <1>e, <1>w, <2>1 DEF Working
  <2>3. rows[r] \in Points!Row /\ proc[Evaluation] \in Points!Locals
    BY <1>e, <1>t, <2>2
  <2>4. /\ x \in Points!Row /\ x.as_of = rows[r].as_of /\ x.reading = rows[r].reading
        /\ x.pinned = TRUE /\ (rows[r].pinned => x = rows[r])
    BY <2>3 DEF Points!Row
  <2>5. l \in Points!Locals /\ l.row = r /\ l.pc = "pinned" /\ l.reading = proc[Evaluation].reading
    BY <2>3 DEF Points!Locals
  <2> HIDE DEF x, l
  <2>6. /\ DOMAIN rows' = 1..last' /\ rows'[r] = x
        /\ \A j \in 1..last : j # r => rows'[j] = rows[j]
    BY <1>t, <2>1, <2>2
  <2>7. Points!PinnedIsKept
    BY <2>4, <2>6 DEF Points!PinnedIsKept
  <2>8. /\ last' \in Nat /\ last <= last' /\ account' \in Nat /\ account <= account'
        /\ r \in 1..last' /\ l.reading <= account' /\ rows'[r].pinned
    BY <1>t, <2>1, <2>2, <2>4, <2>5, <2>6
  <2>9. WorkingInv' /\ proc' \in [Points!Procs -> Points!Locals]
    BY <1>e, <2>1, <2>2, <2>5, <2>7, <2>8, OthersGoOn
  <2>10. \A j \in 1..last : /\ rows'[j] \in Points!Row /\ rows'[j].reading = rows[j].reading
                            /\ rows'[j].as_of = rows[j].as_of
    BY <1>t, <2>4, <2>6
  <2>11. \A j \in 1..last : Points!_day(rows'[j].as_of) = Points!_day(rows[j].as_of)
    BY <2>10
  <2>12. kept' \ kept = {} /\ orders' \ orders = {}
    BY <2>1
  <2>13. OrdersInv' /\ Points!NoDayLost'
    BY <1>t, <2>7, <2>8, <2>11, <2>12, SeriesGoesOn
  <2>14. Points!TypeOK'
    BY <2>1, <2>6, <2>9, <2>10 DEF PointsInv, Points!TypeOK
  <2>15. TakenInv'
    BY <2>1, <2>10 DEF PointsInv, TakenInv
  <2> QED
    BY <2>7, <2>9, <2>13, <2>14, <2>15 DEF PointsInv
<1>7. ASSUME Points!Send
      PROVE  PointsInv' /\ Points!PinnedIsKept
  <2> DEFINE r == proc[Evaluation].row
             l == [proc[Evaluation] EXCEPT !.pc = "sending"]
  <2>1. /\ proc[Evaluation].pc \in {"pinned", "sending"} /\ account < MaxAccount
        /\ account' = account + 1
        /\ orders' = IF proc[Evaluation].pc = "sending" THEN orders
                     ELSE orders \cup {<<r, account>>}
        /\ proc' = [proc EXCEPT ![Evaluation] = l]
        /\ UNCHANGED <<now, rows, last, kept>>
    BY <1>7 DEF Points!Send, Points!ReadyToSend
  <2>2. r # None /\ r \in 1..last /\ proc[Evaluation].reading <= account /\ rows[r].pinned
    BY <1>e, <1>w, <2>1 DEF Working
  <2>3. proc[Evaluation] \in Points!Locals /\ proc[Evaluation].reading \in Nat
    BY <1>e, <1>t DEF Points!Locals
  <2>4. l \in Points!Locals /\ l.row = r /\ l.pc = "sending" /\ l.reading = proc[Evaluation].reading
    BY <2>3 DEF Points!Locals
  <2> HIDE DEF l
  <2>5. Points!PinnedIsKept
    BY <2>1 DEF Points!PinnedIsKept
  <2>6. /\ last' \in Nat /\ last <= last' /\ account' \in Nat /\ account <= account'
        /\ account' \in 0..MaxAccount
        /\ r \in 1..last' /\ l.reading <= account' /\ rows'[r].pinned
    BY <1>t, <2>1, <2>2, <2>3, <2>4
  <2>7. WorkingInv' /\ proc' \in [Points!Procs -> Points!Locals]
    BY <1>e, <2>1, <2>2, <2>4, <2>5, <2>6, OthersGoOn
  <2>8. rows[r].reading <= account
    BY <2>2 DEF PointsInv, TakenInv
  <2>9. \A o \in orders' \ orders :
          o[1] \in 1..last' /\ rows'[o[1]].pinned /\ rows'[o[1]].reading <= o[2]
    <3>1. \A o \in orders' \ orders : o = <<r, account>>
      BY <2>1
    <3> QED
      BY <2>1, <2>2, <2>8, <3>1
  <2>10. kept' \ kept = {} /\ \A j \in 1..last : rows'[j] = rows[j]
    BY <2>1
  <2>11. \A j \in 1..last : Points!_day(rows'[j].as_of) = Points!_day(rows[j].as_of)
    BY <2>10
  <2>12. OrdersInv' /\ Points!NoDayLost'
    BY <1>t, <2>5, <2>6, <2>9, <2>10, <2>11, SeriesGoesOn
  <2>13. r \in Points!Ids
    BY <1>t, <2>2 DEF Points!Ids
  <2>14. orders' \subseteq Points!Ids \X Nat
    BY <1>t, <2>1, <2>13
  <2>15. Points!TypeOK'
    BY <2>1, <2>6, <2>7, <2>14 DEF PointsInv, Points!TypeOK
  <2>16. TakenInv'
    <3>1. \A j \in 1..last : rows[j].reading \in Nat /\ rows[j].reading <= account
      BY <1>t DEF PointsInv, TakenInv, Points!Row
    <3> QED
      BY <1>t, <2>1, <3>1 DEF TakenInv
  <2> QED
    BY <2>5, <2>7, <2>12, <2>15, <2>16 DEF PointsInv
<1>8. CASE Points!Change \/ Points!Clock \/ UNCHANGED Points!vars
  <2>1. /\ UNCHANGED <<rows, last, proc, kept, orders>>
        /\ now' \in 0..MaxTime /\ account' \in 0..MaxAccount /\ account <= account'
    BY <1>8, <1>t DEF Points!Change, Points!Clock, Points!vars, Points!history,
       PointsInv, Points!TypeOK
  <2>2. Points!TypeOK' /\ Points!PinnedIsKept
    BY <2>1 DEF PointsInv, Points!TypeOK, Points!PinnedIsKept
  <2>3. TakenInv'
    <3>1. \A j \in 1..last : rows[j].reading \in Nat /\ rows[j].reading <= account
      BY <1>t DEF PointsInv, TakenInv, Points!Row
    <3> QED
      BY <1>t, <2>1, <3>1 DEF TakenInv
  <2>4. WorkingInv'
    <3> SUFFICES ASSUME NEW p \in Points!Procs
                 PROVE  Working(p, proc[p])'
      BY DEF WorkingInv
    <3>1. Working(p, proc[p]) /\ proc[p].reading \in Nat
      BY <1>t, <1>w DEF Points!Locals
    <3> QED
      BY <1>t, <2>1, <3>1 DEF Working
  <2>5. OrdersInv' /\ Points!NoDayLost'
    BY <2>1 DEF PointsInv, OrdersInv, Points!NoDayLost
  <2> QED
    BY <2>2, <2>3, <2>4, <2>5 DEF PointsInv
<1> QED
  BY <1>e, <1>1, <1>2, <1>3, <1>4, <1>5, <1>6, <1>7, <1>8 DEF Points!Next

\* The invariant holds in every state that refreshes and evaluations reach.
LEMMA PointsInvariant == Spec => [](part = "points" => PointsInv)
<1>1. Init => (part = "points" => PointsInv)
  BY TablesConstants, PointsInit DEF Init
<1>2. (part = "points" => PointsInv) /\ [Next]_vars => (part = "points" => PointsInv)'
  <2> SUFFICES ASSUME PointsInv, part = "points", [Next]_vars PROVE PointsInv'
    BY DEF Next, vars
  <2>1. [Points!Next]_(Points!vars)
    BY DEF Next, vars, points, Points!vars, Points!history
  <2> QED
    BY <2>1, TablesConstants, PointsStep
<1> QED
  BY <1>1, <1>2, PTL DEF Spec

\* keep_snapshot, pin_snapshot: however many refreshes race the evaluation, no
\* step of anyone changes a row that is pinned.
THEOREM PinnedStays == Spec => PinnedIsKept
<1>1. (part = "points" => PointsInv) /\ [Next]_vars => [part = "points" => Points!PinnedIsKept]_vars
  <2> SUFFICES ASSUME PointsInv, part = "points", [Next]_vars PROVE Points!PinnedIsKept
    OBVIOUS
  <2>1. [Points!Next]_(Points!vars)
    BY DEF Next, vars, points, Points!vars, Points!history
  <2> QED
    BY <2>1, TablesConstants, PointsStep
<1> QED
  BY <1>1, PointsInvariant, PTL DEF PinnedIsKept, Spec

\* _Pin: the point of an evaluation that sent orders shows the account before them.
THEOREM PointPrecedesOrders == Spec => []PointIsBeforeTheOrders
<1>1. (part = "points" => PointsInv) => PointIsBeforeTheOrders
  BY DEF PointsInv, OrdersInv, Points!PointIsBeforeTheOrders, PointIsBeforeTheOrders
<1> QED
  BY <1>1, PointsInvariant, PTL

\* keep_snapshot: overwriting, by any number of refreshes at once, empties no day.
THEOREM DaysStay == Spec => []NoDayLost
<1>1. (part = "points" => PointsInv) => NoDayLost
  BY DEF PointsInv, Points!NoDayLost, NoDayLost
<1> QED
  BY <1>1, PointsInvariant, PTL
-----------------------------------------------------------------------------
(***************************************************************************)
(* The targets.                                                            *)
(***************************************************************************)
\* The sum of the weights w of a set, as a function of w.
WeightOf(w, set) == SumFunctionOnSet([b \in Assets |-> Targets!Value(w[b])], set)

\* A request past its reading: it holds an asset, a weight and the user's fiat;
\* with the settings row locked, its weight fits beside the others of now.
Putting(t) ==
  /\ t.pc \in {"asks", "writes"} =>
       t.asset \in Assets /\ t.pct \in Targets!Percents /\ fiat # None /\ t.fiat = fiat
  /\ t.pc = "creates" => t.fiat \in Fiats
  /\ t.pc = "writes" => WeightOf(weights, Assets \ {t.asset}) + t.pct <= HUNDRED
PuttingInv == \A r \in Requests : Putting(req[r])

\* The settings row has one lock.
LockInv ==
  \A q, r \in Requests : req[q].pc = "writes" /\ req[r].pc = "writes" => q = r

SumInv == WeightOf(weights, Assets) <= HUNDRED
PairInv == \A a \in Assets : weights[a] # None => fiat # None /\ pairs[a] = fiat

TargetsInv == Targets!TypeOK /\ PuttingInv /\ LockInv /\ SumInv /\ PairInv

LEMMA TargetsCount ==
  /\ \A f, S : Targets!SumFunctionOnSet(f, S) = SumFunctionOnSet(f, S)
  /\ \A S : Targets!IsFiniteSet(S) <=> IsFiniteSet(S)
<1>1. ASSUME NEW f, NEW S
      PROVE  Targets!SumFunctionOnSet(f, S) = SumFunctionOnSet(f, S)
  BY DEF Targets!SumFunctionOnSet, Targets!FoldFunctionOnSet, Targets!MapThenFoldSet,
     SumFunctionOnSet, FoldFunctionOnSet, MapThenFoldSet
<1>2. ASSUME NEW S
      PROVE  Targets!IsFiniteSet(S) <=> IsFiniteSet(S)
  BY DEF Targets!IsFiniteSet, IsFiniteSet
<1> QED
  BY <1>1, <1>2

LEMMA ValueIsNatural ==
  ASSUME Targets!WeightsConstants, NEW c \in Targets!Columns
  PROVE  Targets!Value(c) \in 0..HUNDRED
BY DEF Targets!WeightsConstants, Targets!Columns, Targets!Percents, Targets!Value

\* The weights sum to a natural number, of which any one may be set apart.
LEMMA WeightsSum ==
  ASSUME Targets!WeightsConstants, NEW w \in [Assets -> Targets!Columns], NEW a \in Assets
  PROVE  /\ WeightOf(w, Assets) \in Nat /\ WeightOf(w, Assets \ {a}) \in Nat
         /\ WeightOf(w, Assets) = Targets!Value(w[a]) + WeightOf(w, Assets \ {a})
<1> DEFINE f == [b \in Assets |-> Targets!Value(w[b])]
<1>1. \A b \in Assets : f[b] \in Nat /\ f[b] \in Int
  BY ValueIsNatural DEF Targets!WeightsConstants
<1>2. f[a] = Targets!Value(w[a])
  OBVIOUS
<1>3. IsFiniteSet(Assets)
  BY TargetsCount DEF Targets!WeightsConstants
<1>4. IsFiniteSet(Assets \ {a})
  BY <1>3, FS_RemoveElement
<1> HIDE DEF f
<1>5. SumFunctionOnSet(f, Assets) \in Nat /\ SumFunctionOnSet(f, Assets \ {a}) \in Nat
  BY <1>1, <1>3, <1>4, SumIsAnInteger
<1>6. SumFunctionOnSet(f, Assets) = f[a] + SumFunctionOnSet(f, Assets \ {a})
  BY <1>1, <1>3, SumOfOne
<1> QED
  BY <1>2, <1>5, <1>6 DEF WeightOf, f

\* No weight of a set has grown: neither has their sum.
LEMMA WeightsShrink ==
  ASSUME Targets!WeightsConstants, NEW S \in SUBSET Assets,
         NEW w \in [Assets -> Targets!Columns], NEW v \in [Assets -> Targets!Columns],
         \A b \in S : Targets!Value(v[b]) <= Targets!Value(w[b])
  PROVE  WeightOf(v, S) <= WeightOf(w, S)
<1> DEFINE f == [b \in Assets |-> Targets!Value(v[b])]
           g == [b \in Assets |-> Targets!Value(w[b])]
<1>1. \A b \in S : f[b] \in Int /\ g[b] \in Int /\ f[b] <= g[b]
  BY ValueIsNatural DEF Targets!WeightsConstants
<1>2. IsFiniteSet(S)
  BY TargetsCount, FS_Subset DEF Targets!WeightsConstants
<1> HIDE DEF f, g
<1>3. SumFunctionOnSet(f, S) <= SumFunctionOnSet(g, S)
  BY <1>1, <1>2, SumIsMonotone
<1> QED
  BY <1>3 DEF WeightOf, f, g

LEMMA TargetsInit ==
  ASSUME Targets!WeightsConstants, Targets!Init
  PROVE  TargetsInv
<1> USE DEF Targets!WeightsConstants, Targets!Init
<1>1. Targets!Idle \in Targets!Transactions /\ Targets!Idle.pc = "idle"
  BY DEF Targets!Idle, Targets!Transactions, Targets!Columns
<1>2. Targets!TypeOK
  BY <1>1 DEF Targets!TypeOK, Targets!Columns
<1>3. PuttingInv /\ LockInv
  BY <1>1 DEF PuttingInv, Putting, LockInv
<1>4. PairInv
  BY DEF PairInv
<1>5. SumInv
  <2> DEFINE f == [b \in Assets |-> Targets!Value(weights[b])]
             P == {T \in SUBSET Assets : SumFunctionOnSet(f, T) = 0}
  <2>1. IsFiniteSet(Assets)
    BY TargetsCount
  <2>2. \A b \in Assets : f[b] = 0
    BY DEF Targets!Value
  <2>3. ASSUME NEW T \in SUBSET Assets, \A x \in T : T \ {x} \in P
        PROVE  T \in P
    <3> HIDE DEF f
    <3>1. CASE T = {}
      BY <3>1, SumOfNone
    <3>2. CASE T # {}
      <4>1. Pick(T) \in T /\ IsFiniteSet(T)
        BY <2>1, <3>2, PickIsIn, FS_Subset
      <4>2. SumFunctionOnSet(f, T) = f[Pick(T)] + SumFunctionOnSet(f, T \ {Pick(T)})
        BY <3>2, <4>1, SumOfPick
      <4> QED
        BY <2>2, <2>3, <4>1, <4>2
    <3> QED
      BY <3>1, <3>2
  <2> HIDE DEF P
  <2>4. \A T \in SUBSET Assets : T \in P
    BY <2>1, <2>3, SubsetInduction
  <2>5. SumFunctionOnSet(f, Assets) = 0
    BY <2>4 DEF P
  <2> QED
    BY <2>5 DEF SumInv, WeightOf
<1> QED
  BY <1>2, <1>3, <1>4, <1>5 DEF TargetsInv

\* A request goes on with t, and the rows stay.
LEMMA OnlyARequestMoves ==
  ASSUME TargetsInv, NEW r \in Requests, NEW t \in Targets!Transactions,
         req' = [req EXCEPT ![r] = t], UNCHANGED <<fiat, weights, pairs>>,
         Putting(t), t.pc = "writes" => Targets!Free
  PROVE  TargetsInv'
<1>1. /\ req' \in [Requests -> Targets!Transactions] /\ req'[r] = t
      /\ \A q \in Requests : q # r => req'[q] = req[q]
  BY DEF TargetsInv, Targets!TypeOK
<1>2. Targets!TypeOK'
  BY <1>1 DEF TargetsInv, Targets!TypeOK
<1>3. PuttingInv'
  <2> SUFFICES ASSUME NEW q \in Requests
               PROVE  Putting(req[q])'
    BY DEF PuttingInv
  <2>1. Putting(req'[q])
    BY <1>1 DEF TargetsInv, PuttingInv
  <2> QED
    BY <2>1 DEF Putting, WeightOf
<1>4. LockInv'
  BY <1>1 DEF TargetsInv, LockInv, Targets!Free
<1>5. SumInv' /\ PairInv'
  BY DEF TargetsInv, SumInv, PairInv, WeightOf
<1> QED
  BY <1>2, <1>3, <1>4, <1>5 DEF TargetsInv

\* upsert_asset: the weight was checked against the others under the lock, and
\* nobody else writes one meanwhile.
LEMMA UpsertStep ==
  ASSUME Targets!WeightsConstants, TargetsInv, NEW r \in Requests, Targets!upsert_asset(r)
  PROVE  TargetsInv'
<1> USE DEF Targets!WeightsConstants
<1> DEFINE t == req[r]
           a == t.asset
           fails == t.read # None /\ weights[a] = None
<1>1. /\ t.pc = "writes"
      /\ weights' = IF fails THEN weights ELSE [weights EXCEPT ![a] = t.pct]
      /\ pairs' = IF fails THEN pairs ELSE [pairs EXCEPT ![a] = t.fiat]
      /\ req' = [req EXCEPT ![r] = Targets!Idle] /\ fiat' = fiat
  BY DEF Targets!upsert_asset, Targets!written
<1>2. Targets!Idle \in Targets!Transactions /\ Targets!Idle.pc = "idle"
  BY DEF Targets!Idle, Targets!Transactions, Targets!Columns
<1>3. Putting(Targets!Idle)
  BY <1>2 DEF Putting
<1>4. CASE fails
  <2>1. UNCHANGED <<fiat, weights, pairs>>
    BY <1>1, <1>4
  <2> QED
    BY <1>1, <1>2, <1>3, <2>1, OnlyARequestMoves
<1>5. CASE ~fails
  <2> HIDE DEF fails
  <2>1. weights' = [weights EXCEPT ![a] = t.pct] /\ pairs' = [pairs EXCEPT ![a] = t.fiat]
    BY <1>1, <1>5
  <2>2. /\ weights \in [Assets -> Targets!Columns] /\ pairs \in [Assets -> Fiats \cup {None}]
        /\ req \in [Requests -> Targets!Transactions] /\ fiat \in Fiats \cup {None}
    BY DEF TargetsInv, Targets!TypeOK
  <2>3. /\ a \in Assets /\ t.pct \in Targets!Percents /\ t.fiat = fiat /\ fiat # None
        /\ WeightOf(weights, Assets \ {a}) + t.pct <= HUNDRED
    BY <1>1 DEF TargetsInv, PuttingInv, Putting
  <2> HIDE DEF t, a
  <2>4. /\ weights' \in [Assets -> Targets!Columns] /\ weights'[a] = t.pct
        /\ \A b \in Assets \ {a} : weights'[b] = weights[b]
    BY <2>1, <2>2, <2>3 DEF Targets!Columns
  <2>5. /\ pairs' \in [Assets -> Fiats \cup {None}] /\ pairs'[a] = fiat
        /\ \A b \in Assets \ {a} : pairs'[b] = pairs[b]
    BY <2>1, <2>2, <2>3
  <2>6. /\ req' \in [Requests -> Targets!Transactions]
        /\ \A q \in Requests : req'[q] = IF q = r THEN Targets!Idle ELSE req[q]
    BY <1>1, <1>2, <2>2
  <2>7. Targets!TypeOK'
    BY <1>1, <2>2, <2>4, <2>5, <2>6 DEF Targets!TypeOK
  <2>8. \A q \in Requests : req'[q].pc # "writes"
    BY <1>1, <1>2, <2>6 DEF TargetsInv, LockInv, t
  <2>9. LockInv'
    BY <2>8 DEF LockInv
  <2>10. PuttingInv'
    <3> SUFFICES ASSUME NEW q \in Requests
                 PROVE  Putting(req[q])'
      BY DEF PuttingInv
    <3>1. Putting(req'[q]) /\ req'[q].pc # "writes"
      BY <1>3, <2>6, <2>8 DEF TargetsInv, PuttingInv
    <3> QED
      BY <1>1, <3>1 DEF Putting
  <2>11. \A b \in Assets \ {a} : Targets!Value(weights'[b]) <= Targets!Value(weights[b])
    <3>1. \A b \in Assets : Targets!Value(weights[b]) \in 0..HUNDRED
      BY <2>2, ValueIsNatural
    <3> QED
      BY <2>4, <3>1
  <2>12. WeightOf(weights', Assets \ {a}) <= WeightOf(weights, Assets \ {a})
    BY <2>2, <2>4, <2>11, WeightsShrink
  <2>13. /\ WeightOf(weights', Assets) = Targets!Value(weights'[a]) + WeightOf(weights', Assets \ {a})
         /\ WeightOf(weights', Assets \ {a}) \in Nat /\ WeightOf(weights, Assets \ {a}) \in Nat
    BY <2>2, <2>3, <2>4, WeightsSum
  <2>14. Targets!Value(weights'[a]) = t.pct /\ t.pct \in Nat
    BY <2>3, <2>4 DEF Targets!Value, Targets!Percents
  <2>15. WeightOf(weights', Assets) <= HUNDRED
    BY <2>3, <2>12, <2>13, <2>14
  <2>16. SumInv'
    BY <2>15 DEF SumInv, WeightOf
  <2>17. PairInv'
    BY <1>1, <2>3, <2>4, <2>5 DEF TargetsInv, PairInv
  <2> QED
    BY <2>7, <2>9, <2>10, <2>16, <2>17 DEF TargetsInv
<1> QED
  BY <1>4, <1>5

\* delete_asset takes no lock: it only makes a sum smaller that somebody checked.
LEMMA DeleteStep ==
  ASSUME Targets!WeightsConstants, TargetsInv, NEW a \in Assets, Targets!delete_asset(a)
  PROVE  TargetsInv'
<1> USE DEF Targets!WeightsConstants
<1>1. /\ weights' = [weights EXCEPT ![a] = None] /\ pairs' = [pairs EXCEPT ![a] = None]
      /\ UNCHANGED <<fiat, req>>
  BY DEF Targets!delete_asset
<1>2. /\ weights \in [Assets -> Targets!Columns] /\ pairs \in [Assets -> Fiats \cup {None}]
  BY DEF TargetsInv, Targets!TypeOK
<1>3. /\ weights' \in [Assets -> Targets!Columns] /\ weights'[a] = None
      /\ \A b \in Assets : b # a => weights'[b] = weights[b]
  BY <1>1, <1>2 DEF Targets!Columns
<1>4. /\ pairs' \in [Assets -> Fiats \cup {None}]
      /\ \A b \in Assets : b # a => pairs'[b] = pairs[b]
  BY <1>1, <1>2
<1>5. Targets!TypeOK'
  BY <1>1, <1>3, <1>4 DEF TargetsInv, Targets!TypeOK
<1>6. \A b \in Assets : Targets!Value(weights'[b]) <= Targets!Value(weights[b])
  <2>1. \A b \in Assets : Targets!Value(weights[b]) \in 0..HUNDRED
    BY <1>2, ValueIsNatural
  <2>2. Targets!Value(weights'[a]) = 0
    BY <1>3 DEF Targets!Value
  <2> QED
    BY <1>3, <2>1, <2>2
<1>7. \A b \in Assets :
        /\ WeightOf(weights', Assets \ {b}) <= WeightOf(weights, Assets \ {b})
        /\ WeightOf(weights', Assets \ {b}) \in Nat /\ WeightOf(weights, Assets \ {b}) \in Nat
  BY <1>2, <1>3, <1>6, WeightsShrink, WeightsSum
<1>8. /\ WeightOf(weights', Assets) <= WeightOf(weights, Assets)
      /\ WeightOf(weights', Assets) \in Nat /\ WeightOf(weights, Assets) \in Nat
  BY <1>2, <1>3, <1>6, WeightsShrink, WeightsSum
<1>9. SumInv'
  <2>1. WeightOf(weights', Assets) <= HUNDRED
    BY <1>8 DEF TargetsInv, SumInv
  <2> QED
    BY <2>1 DEF SumInv, WeightOf
<1>10. PuttingInv'
  <2> SUFFICES ASSUME NEW q \in Requests
               PROVE  Putting(req[q])'
    BY DEF PuttingInv
  <2>1. Putting(req[q]) /\ req'[q] = req[q]
    BY <1>1 DEF TargetsInv, PuttingInv
  <2>2. ASSUME req[q].pc = "writes"
        PROVE  WeightOf(weights', Assets \ {req[q].asset}) + req[q].pct <= HUNDRED
    <3>1. req[q].asset \in Assets /\ req[q].pct \in Nat
      BY <2>1, <2>2 DEF Putting, Targets!Percents
    <3> QED
      BY <1>7, <2>1, <2>2, <3>1 DEF Putting
  <2> QED
    BY <1>1, <2>1, <2>2 DEF Putting, WeightOf
<1>11. PairInv' /\ LockInv'
  BY <1>1, <1>3, <1>4 DEF TargetsInv, PairInv, LockInv
<1> QED
  BY <1>5, <1>9, <1>10, <1>11 DEF TargetsInv

LEMMA TargetsStep ==
  ASSUME Targets!WeightsConstants, TargetsInv, [Targets!Next]_(Targets!vars)
  PROVE  TargetsInv'
<1> USE DEF Targets!WeightsConstants
<1>i. Targets!Idle \in Targets!Transactions /\ Targets!Idle.pc = "idle"
  BY DEF Targets!Idle, Targets!Transactions, Targets!Columns
<1>p. Putting(Targets!Idle)
  BY <1>i DEF Putting
<1>t. /\ weights \in [Assets -> Targets!Columns] /\ fiat \in Fiats \cup {None}
      /\ req \in [Requests -> Targets!Transactions]
  BY DEF TargetsInv, Targets!TypeOK
<1>1. ASSUME NEW r \in Requests, Targets!PatchFirst(r)
      PROVE  TargetsInv'
  <2>1. PICK f \in Fiats :
          req' = [req EXCEPT ![r] = [Targets!Idle EXCEPT !.pc = "creates", !.fiat = f]]
    BY <1>1 DEF Targets!PatchFirst
  <2> DEFINE t == [Targets!Idle EXCEPT !.pc = "creates", !.fiat = f]
  <2>2. req' = [req EXCEPT ![r] = t] /\ UNCHANGED <<fiat, weights, pairs>>
    BY <1>1, <2>1 DEF Targets!PatchFirst
  <2>3. t \in Targets!Transactions /\ t.pc = "creates" /\ t.fiat = f
    BY DEF Targets!Idle, Targets!Transactions, Targets!Columns
  <2> HIDE DEF t
  <2>4. Putting(t)
    BY <2>3 DEF Putting
  <2> QED
    BY <2>2, <2>3, <2>4, OnlyARequestMoves
<1>2. ASSUME NEW r \in Requests, Targets!Create(r)
      PROVE  TargetsInv'
  <2>1. /\ req[r].pc = "creates" /\ fiat' = IF fiat = None THEN req[r].fiat ELSE fiat
        /\ req' = [req EXCEPT ![r] = Targets!Idle] /\ UNCHANGED <<weights, pairs>>
    BY <1>2 DEF Targets!Create, Targets!created
  <2>2. CASE fiat # None
    BY <1>i, <1>p, <2>1, <2>2, OnlyARequestMoves
  \* The first settings row: no target can be stored, and none be under way.
  <2>3. CASE fiat = None
    <3>1. fiat' \in Fiats
      BY <2>1, <2>3 DEF TargetsInv, PuttingInv, Putting
    <3>2. /\ req' \in [Requests -> Targets!Transactions]
          /\ \A q \in Requests : req'[q] = IF q = r THEN Targets!Idle ELSE req[q]
      BY <1>i, <1>t, <2>1
    <3>3. \A q \in Requests : req'[q].pc \notin {"asks", "writes"}
      BY <1>i, <2>3, <3>2 DEF TargetsInv, PuttingInv, Putting
    <3>4. Targets!TypeOK'
      BY <2>1, <3>1, <3>2 DEF TargetsInv, Targets!TypeOK
    <3>5. PuttingInv' /\ LockInv'
      <4>1. \A q \in Requests : req'[q].pc = "creates" => req'[q].fiat \in Fiats
        BY <1>i, <3>2 DEF TargetsInv, PuttingInv, Putting
      <4> QED
        BY <3>3, <4>1 DEF PuttingInv, Putting, LockInv
    <3>6. SumInv'
      BY <2>1 DEF TargetsInv, SumInv, WeightOf
    <3>7. \A a \in Assets : weights[a] = None
      BY <2>3 DEF TargetsInv, PairInv
    <3>8. PairInv'
      BY <2>1, <3>7 DEF PairInv
    <3> QED
      BY <3>4, <3>5, <3>6, <3>8 DEF TargetsInv
  <2> QED
    BY <2>2, <2>3
<1>3. ASSUME NEW r \in Requests, Targets!Put(r)
      PROVE  TargetsInv'
  <2>1. PICK a \in Assets, p \in Targets!Percents :
          req' = [req EXCEPT ![r] =
                    [Targets!Idle EXCEPT !.pc = "asks", !.asset = a, !.pct = p, !.fiat = fiat]]
    BY <1>3 DEF Targets!Put
  <2> DEFINE t == [Targets!Idle EXCEPT !.pc = "asks", !.asset = a, !.pct = p, !.fiat = fiat]
  <2>2. /\ req' = [req EXCEPT ![r] = t] /\ UNCHANGED <<fiat, weights, pairs>> /\ fiat # None
    BY <1>3, <2>1 DEF Targets!Put
  <2>3. /\ t \in Targets!Transactions /\ t.pc = "asks" /\ t.fiat = fiat
        /\ t.asset = a /\ t.pct = p
    BY <1>t DEF Targets!Idle, Targets!Transactions, Targets!Columns
  <2> HIDE DEF t
  <2>4. Putting(t)
    BY <2>2, <2>3 DEF Putting
  <2> QED
    BY <2>2, <2>3, <2>4, OnlyARequestMoves
<1>4. ASSUME NEW r \in Requests, Targets!PutRefused(r) \/ Targets!RollBack(r)
      PROVE  TargetsInv'
  <2>1. req' = [req EXCEPT ![r] = Targets!Idle] /\ UNCHANGED <<fiat, weights, pairs>>
    BY <1>4 DEF Targets!PutRefused, Targets!RollBack
  <2> QED
    BY <1>i, <1>p, <2>1, OnlyARequestMoves
<1>5. ASSUME NEW r \in Requests, Targets!PutChecks(r)
      PROVE  TargetsInv'
  <2> DEFINE a == req[r].asset
             w == [req[r] EXCEPT !.pc = "writes", !.read = weights[a]]
             over == Targets!others(a) + req[r].pct > HUNDRED
             t == IF over THEN Targets!Idle ELSE w
  <2>1. /\ req[r].pc = "asks" /\ Targets!Free /\ req' = [req EXCEPT ![r] = t]
        /\ UNCHANGED <<fiat, weights, pairs>>
    BY <1>5 DEF Targets!PutChecks
  <2>2. a \in Assets /\ req[r].pct \in Targets!Percents /\ fiat # None /\ req[r].fiat = fiat
    BY <2>1 DEF TargetsInv, PuttingInv, Putting
  <2>3. Targets!others(a) = WeightOf(weights, Assets \ {a})
    BY TargetsCount DEF Targets!others, Targets!SumOfWeights, WeightOf
  <2>4. weights[a] \in Targets!Columns /\ req[r] \in Targets!Transactions
    BY <1>t, <2>2
  <2>5. /\ w \in Targets!Transactions /\ w.pc = "writes" /\ w.asset = a
        /\ w.pct = req[r].pct /\ w.fiat = req[r].fiat
    BY <2>4 DEF Targets!Transactions
  <2> HIDE DEF w, a
  <2>6. CASE over
    BY <1>i, <1>p, <2>1, <2>6, OnlyARequestMoves
  <2>7. CASE ~over
    <3>1. req' = [req EXCEPT ![r] = w]
      BY <2>1, <2>7
    <3>2. WeightOf(weights, Assets \ {a}) + req[r].pct <= HUNDRED
      <4>1. WeightOf(weights, Assets \ {a}) \in Nat /\ req[r].pct \in Nat
        BY <1>t, <2>2, WeightsSum DEF Targets!Percents
      <4> QED
        BY <2>3, <2>7, <4>1
    <3>3. Putting(w)
      BY <2>2, <2>5, <3>2 DEF Putting
    <3> QED
      BY <2>1, <2>5, <3>1, <3>3, OnlyARequestMoves
  <2> QED
    BY <2>6, <2>7
<1>6. CASE UNCHANGED Targets!vars
  BY <1>6 DEF Targets!vars, TargetsInv, Targets!TypeOK, PuttingInv, Putting, LockInv, SumInv,
     PairInv, WeightOf
<1> QED
  BY <1>1, <1>2, <1>3, <1>4, <1>5, <1>6, UpsertStep, DeleteStep DEF Targets!Next

\* The invariant holds in every state that settings reach.
LEMMA TargetsInvariant == Spec => [](part = "targets" => TargetsInv)
<1>1. Init => (part = "targets" => TargetsInv)
  BY TablesConstants, TargetsInit DEF Init
<1>2. (part = "targets" => TargetsInv) /\ [Next]_vars => (part = "targets" => TargetsInv)'
  <2> SUFFICES ASSUME TargetsInv, part = "targets", [Next]_vars PROVE TargetsInv'
    BY DEF Next, vars
  <2>1. [Targets!Next]_(Targets!vars)
    BY DEF Next, vars, targets, Targets!vars
  <2> QED
    BY <2>1, TablesConstants, TargetsStep
<1> QED
  BY <1>1, <1>2, PTL DEF Spec

\* put_asset, lock_settings: for any number of assets and of requests at once, the
\* weights never sum to more than the whole, and every pair is of the user's fiat.
THEOREM TargetsStayConsistent == Spec => []TargetsAreConsistent
<1>1. TargetsInv => Targets!TargetsAreConsistent
  <2>1. Targets!SumOfWeights(Assets) = WeightOf(weights, Assets)
    BY TargetsCount DEF Targets!SumOfWeights, WeightOf
  <2> QED
    BY <2>1 DEF TargetsInv, SumInv, PairInv, Targets!TargetsAreConsistent
<1>2. (part = "targets" => TargetsInv) => TargetsAreConsistent
  BY <1>1 DEF TargetsAreConsistent
<1> QED
  BY <1>2, TargetsInvariant, PTL
-----------------------------------------------------------------------------
\* The tables keep their types: every row is complete, and a transaction works
\* on rows that there are (models.py).
THEOREM TablesTypes == Spec => []TypeOK
<1> DEFINE Picked == part \in {"sessions", "keys", "targets", "points", "past"}
<1>1. Init => Picked
  BY DEF Init
<1>2. Picked /\ [Next]_vars => Picked'
  BY DEF Next, vars
<1>3. /\ Picked
      /\ part = "sessions" => SessionsInv
      /\ part = "keys" => KeysInv
      /\ part = "targets" => TargetsInv
      /\ part = "points" => PointsInv
      /\ part = "past" => PastInv
      => TypeOK
  BY DEF TypeOK, SessionsInv, KeysInv, TargetsInv, PointsInv, PastInv
<1> HIDE DEF Picked
<1> QED
  BY <1>1, <1>2, <1>3, SessionsInvariant, KeysInvariant, TargetsInvariant, PointsInvariant,
     PastInvariant, PTL DEF Spec
=============================================================================
