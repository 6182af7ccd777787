---------------------------- MODULE AccessProofs ----------------------------
(***************************************************************************)
(* The safety properties of sign-ins and of the sealed credentials, for    *)
(* any number of users, requests, tokens, credentials and master keys, and *)
(* any lifetime of a sign-in.                                              *)
(***************************************************************************)
EXTENDS Tables, FiniteSetTheorems, TLAPS

(***************************************************************************)
(* Sign-ins.                                                               *)
(***************************************************************************)
\* Every row is a row of a family that has begun, and ends with it.
RowInv ==
  /\ tokens \in [DOMAIN tokens -> Sessions!Rows]
  /\ \A t \in DOMAIN tokens :
       tokens[t].family <= lastToken /\ tokens[t].expires = ends[tokens[t].family]

\* At most one row of a family is live.
UniqueLive ==
  \A s, t \in DOMAIN tokens :
    tokens[s].family = tokens[t].family /\ Sessions!live(tokens[s]) /\ Sessions!live(tokens[t]) => s = t

Holding(x) == x.pc \in {"rotate", "revoke", "apply"}

\* The row lock: a transaction past `get_refresh_token_for_update` has its row,
\* and nobody else has it.
HoldInv ==
  /\ \A r \in Requests : Holding(tokenReq[r]) => tokenReq[r].token \in DOMAIN tokens
  /\ \A q, r \in Requests : Holding(tokenReq[q]) /\ Holding(tokenReq[r]) /\ tokenReq[q].token = tokenReq[r].token => q = r

\* What a transaction has found out about its row still holds when it writes.
Found(x) ==
  /\ x.pc \in {"refresh", "rotate"} => ~x.live
  /\ x.pc = "rotate" => Sessions!live(tokens[x.token]) /\ x.at < tokens[x.token].expires
  /\ x.pc \in {"revoke", "apply"} /\ x.live => Sessions!live(tokens[x.token])
  /\ x.pc = "apply" /\ x.live => x.token \in x.sees

FoundInv == \A r \in Requests : Found(tokenReq[r])

\* The history is of families that have begun.
HistoryInv ==
  /\ \A g \in granted : g[1] <= lastToken
  /\ \A e \in endings : e[1] <= lastToken

SessionsInv == Sessions!TypeOK /\ RowInv /\ UniqueLive /\ HoldInv /\ FoundInv /\ HistoryInv /\ Sessions!SignInEnds
-----------------------------------------------------------------------------
\* A request that is idle is a transaction that holds nothing.
LEMMA IdleType == Sessions!Idle \in Sessions!Transactions /\ Sessions!Idle.pc = "idle"
BY DEF Sessions!Idle, Sessions!Transactions

\* A step of one request that writes no row keeps the invariant, if what it
\* holds and has found is true of the rows.
LEMMA RequestMove ==
  ASSUME SessionsInv, NEW r \in Requests, NEW x \in Sessions!Transactions,
         tokenReq' = [tokenReq EXCEPT ![r] = x],
         Holding(x) => x.token \in DOMAIN tokens,
         Holding(x) => \A q \in Requests \ {r} : ~(Holding(tokenReq[q]) /\ tokenReq[q].token = x.token),
         Found(x),
         UNCHANGED <<now, status, tokens, lastToken, Sessions!history>>
  PROVE  SessionsInv'
<1> USE DEF SessionsInv
<1>0. UNCHANGED <<ends, granted, endings>>
  BY DEF Sessions!history
<1>1. /\ tokenReq' \in [Requests -> Sessions!Transactions] /\ tokenReq'[r] = x
      /\ \A q \in Requests : q # r => tokenReq'[q] = tokenReq[q]
  BY DEF Sessions!TypeOK
<1>2. Sessions!TypeOK'
  BY <1>0, <1>1 DEF Sessions!TypeOK
<1>3. RowInv' /\ UniqueLive'
  BY <1>0 DEF RowInv, UniqueLive
<1>4. HoldInv'
  BY <1>1 DEF HoldInv
<1>5. FoundInv'
  BY <1>1 DEF FoundInv, Found
<1>6. HistoryInv' /\ Sessions!SignInEnds'
  BY <1>0 DEF HistoryInv, Sessions!SignInEnds, Sessions!Live
<1> QED
  BY <1>2, <1>3, <1>4, <1>5, <1>6

\* `_issue` adds one row to the table.
LEMMA IssueRow ==
  ASSUME NEW n \in Nat, n < MaxTokens, Sessions!SignInConstants,
         NEW table, table \in [DOMAIN table -> Sessions!Rows], DOMAIN table \subseteq 1..n,
         NEW u \in TokenUsers, NEW f \in Sessions!Ids, NEW e \in Nat
  PROVE  LET rs == Sessions!_issue(table, n + 1, u, f, e)
         IN  /\ DOMAIN rs = DOMAIN table \cup {n + 1}
             /\ rs \in [DOMAIN rs -> Sessions!Rows]
             /\ rs[n + 1] = [user |-> u, family |-> f, expires |-> e, used |-> FALSE, revoked |-> FALSE]
             /\ \A t \in DOMAIN table : t # n + 1 /\ rs[t] = table[t]
             /\ DOMAIN rs \subseteq 1..(n + 1)
<1> DEFINE new == [user |-> u, family |-> f, expires |-> e, used |-> FALSE, revoked |-> FALSE]
<1>1. new \in Sessions!Rows
  BY DEF Sessions!Rows
<1>2. Sessions!_issue(table, n + 1, u, f, e) = [t \in DOMAIN table \cup {n + 1} |-> IF t = n + 1 THEN new ELSE table[t]]
  BY DEF Sessions!_issue
<1> HIDE DEF new
<1>3. \A t \in DOMAIN table : t # n + 1 /\ table[t] \in Sessions!Rows
  OBVIOUS
<1> DEFINE rs == [t \in DOMAIN table \cup {n + 1} |-> IF t = n + 1 THEN new ELSE table[t]]
<1>4. /\ DOMAIN rs = DOMAIN table \cup {n + 1} /\ rs \in [DOMAIN rs -> Sessions!Rows]
      /\ rs[n + 1] = new /\ \A t \in DOMAIN table : t # n + 1 /\ rs[t] = table[t]
  BY <1>1, <1>3
<1>5. DOMAIN rs \subseteq 1..(n + 1)
  BY <1>4
<1> HIDE DEF rs
<1>6. Sessions!_issue(table, n + 1, u, f, e) = rs
  BY <1>2 DEF rs
<1> QED
  BY <1>4, <1>5, <1>6 DEF new

\* The row that a rotation leaves used, and the one that it adds.
LEMMA SuccessorRows ==
  ASSUME Sessions!SignInConstants, SessionsInv, NEW r \in Requests, Holding(tokenReq[r]), lastToken < MaxTokens
  PROVE  LET t == tokenReq[r].token
             rs == Sessions!Successor(r)
         IN  /\ DOMAIN rs = DOMAIN tokens \cup {lastToken + 1}
             /\ rs \in [DOMAIN rs -> Sessions!Rows]
             /\ DOMAIN rs \subseteq 1..(lastToken + 1)
             /\ rs[t].family = tokens[t].family /\ rs[t].expires = tokens[t].expires /\ rs[t].used
             /\ rs[lastToken + 1].family = tokens[t].family
             /\ rs[lastToken + 1].expires = tokens[t].expires
             /\ \A s \in DOMAIN tokens : s # lastToken + 1 /\ (s # t => rs[s] = tokens[s])
<1> DEFINE t == tokenReq[r].token
           row == tokens[t]
           marked == Sessions!mark_used(tokens, t)
<1>1. /\ t \in DOMAIN tokens /\ tokens \in [DOMAIN tokens -> Sessions!Rows] /\ row \in Sessions!Rows
      /\ lastToken \in Nat /\ DOMAIN tokens \subseteq 1..lastToken
  BY DEF SessionsInv, HoldInv, RowInv, Sessions!TypeOK
<1>2. row.user \in TokenUsers /\ row.family \in Sessions!Ids /\ row.expires \in Nat
  BY <1>1 DEF Sessions!Rows
<1> DEFINE row2 == [row EXCEPT !.used = TRUE]
<1>3. row2 \in Sessions!Rows /\ row2.family = row.family /\ row2.expires = row.expires /\ row2.used
  BY <1>1 DEF Sessions!Rows
<1>4. marked = [tokens EXCEPT ![t] = row2]
  BY <1>1 DEF Sessions!mark_used
<1> HIDE DEF row2
<1>5. /\ DOMAIN marked = DOMAIN tokens /\ marked \in [DOMAIN marked -> Sessions!Rows]
      /\ marked[t] = row2 /\ \A s \in DOMAIN tokens : s # t => marked[s] = tokens[s]
  BY <1>1, <1>3, <1>4
<1>6. Sessions!Successor(r) = Sessions!_issue(marked, lastToken + 1, row.user, row.family, row.expires)
  BY DEF Sessions!Successor, Sessions!Lifetime
<1> HIDE DEF marked, row
<1> DEFINE rs == Sessions!_issue(marked, lastToken + 1, row.user, row.family, row.expires)
           new == [user |-> row.user, family |-> row.family, expires |-> row.expires,
                   used |-> FALSE, revoked |-> FALSE]
<1>7. /\ DOMAIN rs = DOMAIN marked \cup {lastToken + 1}
      /\ rs \in [DOMAIN rs -> Sessions!Rows]
      /\ rs[lastToken + 1] = new
      /\ \A s \in DOMAIN marked : s # lastToken + 1 /\ rs[s] = marked[s]
      /\ DOMAIN rs \subseteq 1..(lastToken + 1)
  BY <1>1, <1>2, <1>5, IssueRow
<1>8. new.family = row.family /\ new.expires = row.expires
  OBVIOUS
<1>9. Sessions!Successor(r) = rs
  BY <1>6
<1> HIDE DEF rs, new
<1>10. row = tokens[t]
  BY DEF row
<1>11. rs[t] = row2 /\ rs[t].family = tokens[t].family /\ rs[t].expires = tokens[t].expires /\ rs[t].used
  BY <1>1, <1>3, <1>5, <1>7, <1>10
<1>12. \A s \in DOMAIN tokens : s # lastToken + 1 /\ (s # t => rs[s] = tokens[s])
  BY <1>5, <1>7
<1> QED
  BY <1>1, <1>5, <1>7, <1>8, <1>9, <1>10, <1>11, <1>12

\* The initial state satisfies the invariant: no row, no request.
LEMMA SessionsInit == ASSUME Sessions!SignInConstants, Sessions!Init PROVE SessionsInv
<1>1. Sessions!TypeOK
  BY IdleType DEF Sessions!SignInConstants, Sessions!Init, Sessions!TypeOK, Sessions!Ids
<1>2. DOMAIN tokens = {}
  BY DEF Sessions!Init
<1>3. RowInv /\ UniqueLive
  BY <1>2 DEF Sessions!Init, RowInv, UniqueLive
<1>4. HoldInv /\ FoundInv
  BY IdleType DEF Sessions!Init, HoldInv, FoundInv, Holding, Found
<1>5. HistoryInv /\ Sessions!SignInEnds
  BY <1>2 DEF Sessions!Init, HistoryInv, Sessions!SignInEnds
<1> QED
  BY <1>1, <1>3, <1>4, <1>5 DEF SessionsInv

\* A login starts a family that no row and no history knows.
LEMMA StartStep ==
  ASSUME Sessions!SignInConstants, SessionsInv, NEW u \in TokenUsers, Sessions!start_family(u)
  PROVE  SessionsInv'
<1> USE DEF SessionsInv
<1>1. /\ lastToken \in Nat /\ lastToken < MaxTokens /\ MaxTokens \in Nat /\ now \in Nat /\ RefreshTTL \in Nat
      /\ lastToken + 1 \in Sessions!Ids /\ DOMAIN tokens \subseteq 1..lastToken /\ tokens \in [DOMAIN tokens -> Sessions!Rows]
  BY DEF Sessions!SignInConstants, Sessions!TypeOK, RowInv, Sessions!start_family, Sessions!Ids
<1> DEFINE id == lastToken + 1
           end == now + RefreshTTL
           rs == Sessions!_issue(tokens, lastToken + 1, u, id, end)
           new == [user |-> u, family |-> id, expires |-> end, used |-> FALSE, revoked |-> FALSE]
<1>2. /\ DOMAIN rs = DOMAIN tokens \cup {lastToken + 1}
      /\ rs \in [DOMAIN rs -> Sessions!Rows]
      /\ rs[lastToken + 1] = new
      /\ \A t \in DOMAIN tokens : t # lastToken + 1 /\ rs[t] = tokens[t]
      /\ DOMAIN rs \subseteq 1..(lastToken + 1)
  <2>1. id \in Sessions!Ids /\ end \in Nat
    BY <1>1
  <2> HIDE DEF id, end
  <2> QED
    BY <1>1, <2>1, IssueRow
<1>3. /\ tokens' = rs /\ lastToken' = id /\ ends' = [ends EXCEPT ![id] = end]
      /\ status' \in [TokenUsers -> {"none", "ACTIVE", "DISABLED"}]
      /\ UNCHANGED <<now, tokenReq, granted, endings>>
  BY DEF Sessions!start_family, Sessions!TypeOK
<1>4. new.family = id /\ new.expires = end
  OBVIOUS
<1> HIDE DEF rs, new
<1>5. /\ ends' \in [Sessions!Ids -> Nat] /\ ends'[id] = end
      /\ \A f \in Sessions!Ids : f # id => ends'[f] = ends[f]
  BY <1>1, <1>3 DEF Sessions!TypeOK
<1>6. ASSUME NEW t \in DOMAIN tokens
      PROVE  tokens[t].family \in Sessions!Ids /\ tokens[t].family <= lastToken /\ tokens[t].family # id
  BY <1>1 DEF RowInv, Sessions!Rows, Sessions!Ids
<1>7. Sessions!TypeOK'
  <2>1. lastToken' \in 0..MaxTokens /\ DOMAIN tokens' \subseteq 1..lastToken'
    BY <1>1, <1>2, <1>3
  <2>2. \A t \in DOMAIN tokens' : tokens'[t] \in Sessions!Rows
    BY <1>2, <1>3
  <2>3. ends' \in [Sessions!Ids -> Nat]
    BY <1>5
  <2> HIDE DEF id, end
  <2> QED
    BY <1>3, <2>1, <2>2, <2>3 DEF Sessions!TypeOK
<1>8. RowInv'
  <2>1. ASSUME NEW t \in DOMAIN tokens'
        PROVE  tokens'[t].family <= lastToken' /\ tokens'[t].expires = ends'[tokens'[t].family]
    <3>1. CASE t = id
      BY <1>1, <1>2, <1>3, <1>4, <1>5, <3>1
    <3>2. CASE t \in DOMAIN tokens
      <4>1. tokens'[t] = tokens[t] /\ ends'[tokens[t].family] = ends[tokens[t].family]
        BY <1>2, <1>3, <1>5, <1>6, <3>2
      <4> QED
        BY <1>1, <1>3, <1>6, <3>2, <4>1 DEF RowInv, Sessions!Ids
    <3> QED
      BY <1>2, <1>3, <3>1, <3>2
  <2> QED
    BY <1>2, <1>3, <2>1 DEF RowInv
<1>9. UniqueLive'
  BY <1>2, <1>3, <1>4, <1>6 DEF UniqueLive
<1>10. HoldInv' /\ FoundInv'
  BY <1>2, <1>3 DEF HoldInv, FoundInv, Found, Holding
<1>11. HistoryInv'
  BY <1>1, <1>3 DEF HistoryInv, Sessions!TypeOK, Sessions!Ids
<1>12. Sessions!SignInEnds'
  <2>1. ASSUME NEW g \in granted PROVE g[2] < ends'[g[1]]
    <3>1. g[1] \in Sessions!Ids /\ g[1] # id
      BY <1>1 DEF HistoryInv, Sessions!TypeOK, Sessions!Ids
    <3> QED
      BY <1>5, <3>1 DEF Sessions!SignInEnds
  <2>2. ASSUME NEW f \in Sessions!Ids, <<f, TRUE>> \in endings PROVE Sessions!Live(f)' = {}
    <3>1. f <= lastToken
      BY <2>2 DEF HistoryInv
    <3>2. f # id
      BY <1>1, <3>1 DEF Sessions!Ids
    <3>3. Sessions!Live(f)' = Sessions!Live(f)
      BY <1>2, <1>3, <1>4, <3>2 DEF Sessions!Live
    <3> QED
      BY <2>2, <3>3 DEF Sessions!SignInEnds
  <2> QED
    BY <1>3, <2>1, <2>2 DEF Sessions!SignInEnds
<1> QED
  BY <1>7, <1>8, <1>9, <1>10, <1>11, <1>12

\* A request ends and writes nothing.
LEMMA FinishMove ==
  ASSUME SessionsInv, NEW r \in Requests, Sessions!Finish(r), UNCHANGED <<now, status, tokens, lastToken, Sessions!history>>
  PROVE  SessionsInv'
<1>1. ~Holding(Sessions!Idle) /\ Found(Sessions!Idle)
  BY IdleType DEF Holding, Found
<1> QED
  BY <1>1, IdleType, RequestMove DEF Sessions!Finish

\* A request arrives, with a token and nothing found yet.
LEMMA ArriveStep ==
  ASSUME Sessions!SignInConstants, SessionsInv, NEW r \in Requests, Sessions!Arrive(r)
  PROVE  SessionsInv'
<1>1. PICK t \in 1..lastToken, kind \in {"refresh", "logout"} :
        tokenReq' = [tokenReq EXCEPT ![r] = [Sessions!Idle EXCEPT !.pc = kind, !.token = t, !.at = now]]
  BY DEF Sessions!Arrive
<1> DEFINE x == [Sessions!Idle EXCEPT !.pc = kind, !.token = t, !.at = now]
<1>2. t \in Sessions!Ids /\ now \in Nat
  BY DEF SessionsInv, Sessions!TypeOK, Sessions!Ids, Sessions!SignInConstants
<1>3. x \in Sessions!Transactions /\ x.pc = kind /\ x.live = FALSE
  BY <1>2 DEF Sessions!Idle, Sessions!Transactions
<1>4. tokenReq' = [tokenReq EXCEPT ![r] = x] /\ UNCHANGED <<now, status, tokens, lastToken, Sessions!history>>
  BY <1>1 DEF Sessions!Arrive
<1> HIDE DEF x
<1>5. ~Holding(x) /\ Found(x)
  BY <1>3 DEF Holding, Found
<1> QED
  BY <1>3, <1>4, <1>5, RequestMove

\* rotate, up to its verdict: the row is locked and what is found is true of it.
LEMMA PresentStep ==
  ASSUME SessionsInv, NEW r \in Requests, Sessions!Present(r)
  PROVE  SessionsInv'
<1> DEFINE old == tokenReq[r]
           t == old.token
<1>1. /\ old \in Sessions!Transactions /\ Found(old) /\ old.pc = "refresh" /\ t \in DOMAIN tokens
      /\ UNCHANGED <<now, status, tokens, lastToken, Sessions!history>>
      /\ \A q \in Requests \ {r} : ~(Holding(tokenReq[q]) /\ tokenReq[q].token = t)
  BY DEF SessionsInv, Sessions!TypeOK, FoundInv, Sessions!Present, Sessions!Locks,
       Sessions!Held, Sessions!Holds, Holding
<1>2. CASE Sessions!Unusable(tokens[t], old.at)
  <2>1. Sessions!Finish(r)
    BY <1>2 DEF Sessions!Present, Sessions!Finish
  <2> QED
    BY <1>1, <2>1, FinishMove
<1>3. CASE ~Sessions!Unusable(tokens[t], old.at)
  <2> DEFINE kind == IF tokens[t].used THEN "revoke" ELSE "rotate"
             x == [old EXCEPT !.pc = kind]
  <2>1. tokenReq' = [tokenReq EXCEPT ![r] = x]
    BY <1>3 DEF Sessions!Present, SessionsInv, Sessions!TypeOK
  <2>2. kind \in {"revoke", "rotate"}
    OBVIOUS
  <2>3. kind = "rotate" => Sessions!live(tokens[t]) /\ old.at < tokens[t].expires
    <3>1. tokens[t] \in Sessions!Rows
      BY <1>1 DEF SessionsInv, RowInv
    <3>2. tokens[t].expires \in Nat /\ old.at \in Nat
      BY <1>1, <3>1 DEF Sessions!Rows, Sessions!Transactions
    <3> QED
      BY <1>3, <3>2 DEF Sessions!Unusable, Sessions!live
  <2> HIDE DEF kind
  <2>4. x \in Sessions!Transactions /\ x.pc = kind /\ x.token = t /\ x.live = old.live /\ x.at = old.at
    BY <1>1, <2>2 DEF Sessions!Transactions
  <2> HIDE DEF x
  <2>5. Found(x)
    BY <1>1, <2>2, <2>3, <2>4 DEF Found
  <2>6. /\ Holding(x) => x.token \in DOMAIN tokens
        /\ Holding(x) => \A q \in Requests \ {r} : ~(Holding(tokenReq[q]) /\ tokenReq[q].token = x.token)
    BY <1>1, <2>4
  <2> QED
    BY <1>1, <2>1, <2>4, <2>5, <2>6, RequestMove
<1> QED
  BY <1>2, <1>3

\* logout locks the row and finds whether it is live.
LEMMA LogoutStep ==
  ASSUME SessionsInv, NEW r \in Requests, Sessions!Logout(r)
  PROVE  SessionsInv'
<1> DEFINE old == tokenReq[r]
           t == old.token
           l == Sessions!live(tokens[t])
           x == [old EXCEPT !.pc = "revoke", !.live = l]
<1>1. /\ old \in Sessions!Transactions /\ t \in DOMAIN tokens
      /\ UNCHANGED <<now, status, tokens, lastToken, Sessions!history>>
      /\ \A q \in Requests \ {r} : ~(Holding(tokenReq[q]) /\ tokenReq[q].token = t)
  BY DEF SessionsInv, Sessions!TypeOK, Sessions!Logout, Sessions!Locks, Sessions!Held,
       Sessions!Holds, Holding
<1>2. tokenReq' = [tokenReq EXCEPT ![r] = x]
  BY DEF Sessions!Logout, SessionsInv, Sessions!TypeOK
<1>3. l \in BOOLEAN
  BY DEF Sessions!live
<1> HIDE DEF l
<1>4. x \in Sessions!Transactions /\ x.pc = "revoke" /\ x.token = t /\ x.live = l
  BY <1>1, <1>3 DEF Sessions!Transactions
<1> HIDE DEF x
<1>5. Found(x)
  BY <1>4 DEF Found, l
<1>6. /\ Holding(x) => x.token \in DOMAIN tokens
      /\ Holding(x) => \A q \in Requests \ {r} : ~(Holding(tokenReq[q]) /\ tokenReq[q].token = x.token)
  BY <1>1, <1>4
<1> QED
  BY <1>1, <1>2, <1>4, <1>5, <1>6, RequestMove

\* The steps towards a revocation of a transaction that has its row already.
LEMMA RevokingSteps ==
  ASSUME Sessions!SignInConstants, SessionsInv, NEW r \in Requests, Sessions!RotateDisabled(r) \/ Sessions!RevokeBegins(r)
  PROVE  SessionsInv'
<1> DEFINE old == tokenReq[r]
           t == old.token
<1>1. /\ old \in Sessions!Transactions /\ Found(old) /\ Holding(old) /\ t \in DOMAIN tokens
      /\ UNCHANGED <<now, status, tokens, lastToken, Sessions!history>>
      /\ \A q \in Requests \ {r} : ~(Holding(tokenReq[q]) /\ tokenReq[q].token = t)
  BY DEF SessionsInv, Sessions!TypeOK, FoundInv, HoldInv, Holding, Sessions!RotateDisabled,
       Sessions!RevokeBegins
<1>2. CASE Sessions!RotateDisabled(r)
  <2> DEFINE x == [old EXCEPT !.pc = "revoke", !.live = TRUE, !.rotated = TRUE]
  <2>1. tokenReq' = [tokenReq EXCEPT ![r] = x] /\ old.pc = "rotate"
    BY <1>2 DEF Sessions!RotateDisabled, SessionsInv, Sessions!TypeOK
  <2>2. x \in Sessions!Transactions /\ x.pc = "revoke" /\ x.token = t
    BY <1>1 DEF Sessions!Transactions
  <2> HIDE DEF x
  <2>3. Found(x)
    BY <1>1, <2>1, <2>2 DEF Found
  <2>4. x.token \in DOMAIN tokens /\ \A q \in Requests \ {r} : ~(Holding(tokenReq[q]) /\ tokenReq[q].token = x.token)
    BY <1>1, <2>2
  <2> QED
    BY <1>1, <2>1, <2>2, <2>3, <2>4, RequestMove
<1>3. CASE Sessions!RevokeBegins(r)
  <2> DEFINE family == tokens[t].family
             sees == {s \in DOMAIN tokens : tokens[s].family = family /\ ~tokens[s].revoked}
             x == [old EXCEPT !.pc = "apply", !.sees = sees]
  <2>1. tokenReq' = [tokenReq EXCEPT ![r] = x] /\ old.pc = "revoke"
    BY <1>3 DEF Sessions!RevokeBegins, SessionsInv, Sessions!TypeOK
  <2>2. sees \in SUBSET Sessions!Ids
    BY DEF SessionsInv, Sessions!TypeOK, Sessions!Ids, Sessions!SignInConstants
  <2>3. Sessions!live(tokens[t]) => t \in sees
    BY <1>1 DEF Sessions!live
  <2> HIDE DEF sees
  <2>4. x \in Sessions!Transactions /\ x.pc = "apply" /\ x.token = t /\ x.live = old.live /\ x.sees = sees
    BY <1>1, <2>2 DEF Sessions!Transactions
  <2> HIDE DEF x
  <2>5. Found(x)
    BY <1>1, <2>1, <2>3, <2>4 DEF Found
  <2>6. x.token \in DOMAIN tokens /\ \A q \in Requests \ {r} : ~(Holding(tokenReq[q]) /\ tokenReq[q].token = x.token)
    BY <1>1, <2>4
  <2> QED
    BY <1>1, <2>1, <2>4, <2>5, <2>6, RequestMove
<1> QED
  BY <1>2, <1>3
\* What the commit of request `r` may do to the rows: those of its family keep
\* family and end, none comes to life, a new row succeeds the one presented and
\* is live only in its stead, and the rows that others hold are left alone.
Commits(r) ==
  LET t == tokenReq[r].token
  IN  /\ tokens' \in [DOMAIN tokens' -> Sessions!Rows]
      /\ DOMAIN tokens \subseteq DOMAIN tokens'
      /\ DOMAIN tokens' \subseteq DOMAIN tokens \cup {lastToken + 1}
      /\ DOMAIN tokens' \subseteq 1..lastToken'
      /\ lastToken' \in lastToken..MaxTokens
      /\ \A s \in DOMAIN tokens :
           /\ tokens'[s].family = tokens[s].family /\ tokens'[s].expires = tokens[s].expires
           /\ Sessions!live(tokens'[s]) => Sessions!live(tokens[s])
      /\ lastToken + 1 \in DOMAIN tokens' =>
           /\ tokens'[lastToken + 1].family = tokens[t].family
           /\ tokens'[lastToken + 1].expires = tokens[t].expires
           /\ Sessions!live(tokens'[lastToken + 1]) => Sessions!live(tokens[t]) /\ ~Sessions!live(tokens'[t])
      /\ \A q \in Requests \ {r} :
           Holding(tokenReq[q]) => tokens'[tokenReq[q].token] = tokens[tokenReq[q].token]
      /\ Sessions!Finish(r)
      /\ UNCHANGED <<now, status, ends>>

LEMMA CommitMove ==
  ASSUME Sessions!SignInConstants, SessionsInv, NEW r \in Requests, Holding(tokenReq[r]), Commits(r)
  PROVE  /\ RowInv' /\ UniqueLive' /\ HoldInv' /\ FoundInv'
         /\ \A f \in Sessions!Ids : Sessions!Live(f) = {} => Sessions!Live(f)' = {}
         /\ lastToken \in Nat /\ lastToken' \in Nat /\ lastToken <= lastToken' /\ lastToken' <= MaxTokens
         /\ tokenReq' \in [Requests -> Sessions!Transactions]
<1> USE DEF SessionsInv
<1> DEFINE t == tokenReq[r].token
           id == lastToken + 1
<1>1. /\ t \in DOMAIN tokens /\ lastToken \in Nat /\ lastToken' \in Nat /\ lastToken <= lastToken' /\ lastToken' <= MaxTokens
      /\ DOMAIN tokens \subseteq 1..lastToken /\ id \notin DOMAIN tokens /\ MaxTokens \in Nat
  BY DEF HoldInv, Sessions!TypeOK, Commits, Sessions!SignInConstants
<1>2. /\ tokenReq' \in [Requests -> Sessions!Transactions] /\ tokenReq'[r] = Sessions!Idle
      /\ \A q \in Requests : q # r => tokenReq'[q] = tokenReq[q]
  BY IdleType DEF Sessions!TypeOK, Sessions!Finish, Commits
<1>3. RowInv'
  <2>1. ASSUME NEW s \in DOMAIN tokens'
        PROVE  tokens'[s].family <= lastToken' /\ tokens'[s].expires = ends'[tokens'[s].family]
    <3>1. PICK x \in DOMAIN tokens :
            tokens'[s].family = tokens[x].family /\ tokens'[s].expires = tokens[x].expires
      BY <1>1 DEF Commits
    <3>2. tokens[x].family \in Sessions!Ids /\ tokens[x].family <= lastToken /\ tokens[x].expires = ends[tokens[x].family]
      BY DEF RowInv, Sessions!Rows
    <3> QED
      BY <1>1, <3>1, <3>2 DEF Commits, Sessions!Ids
  <2> QED
    BY <2>1 DEF RowInv, Commits
<1>4. UniqueLive'
  <2>1. ASSUME NEW x \in DOMAIN tokens', NEW y \in DOMAIN tokens', x # y,
               tokens'[x].family = tokens'[y].family, Sessions!live(tokens'[x]), Sessions!live(tokens'[y])
        PROVE  FALSE
    <3>1. CASE x \in DOMAIN tokens /\ y \in DOMAIN tokens
      BY <2>1, <3>1 DEF Commits, UniqueLive
    <3>2. CASE x = id /\ y \in DOMAIN tokens
      BY <1>1, <2>1, <3>2 DEF Commits, UniqueLive
    <3>3. CASE y = id /\ x \in DOMAIN tokens
      BY <1>1, <2>1, <3>3 DEF Commits, UniqueLive
    <3> QED
      BY <2>1, <3>1, <3>2, <3>3 DEF Commits
  <2> QED
    BY <2>1 DEF UniqueLive
<1>5. HoldInv'
  BY <1>2, IdleType DEF HoldInv, Holding, Commits
<1>6. FoundInv'
  <2>1. ASSUME NEW q \in Requests PROVE Found(tokenReq[q])'
    <3>1. CASE q = r
      BY <1>2, <3>1, IdleType DEF Found
    <3>2. CASE q # r
      <4>1. tokenReq'[q] = tokenReq[q] /\ Found(tokenReq[q])
        BY <1>2, <3>2 DEF FoundInv
      <4>2. Holding(tokenReq[q]) => tokens'[tokenReq[q].token] = tokens[tokenReq[q].token]
        BY <3>2 DEF Commits
      <4> QED
        BY <4>1, <4>2 DEF Found, Holding
    <3> QED
      BY <3>1, <3>2
  <2> QED
    BY <2>1 DEF FoundInv
<1>7. ASSUME NEW f \in Sessions!Ids, Sessions!Live(f) = {} PROVE Sessions!Live(f)' = {}
  <2>1. ASSUME NEW s \in DOMAIN tokens', tokens'[s].family = f, Sessions!live(tokens'[s]) PROVE FALSE
    <3>1. CASE s \in DOMAIN tokens
      BY <1>7, <2>1, <3>1 DEF Commits, Sessions!Live
    <3>2. CASE s = id
      BY <1>1, <1>7, <2>1, <3>2 DEF Commits, Sessions!Live
    <3> QED
      BY <3>1, <3>2 DEF Commits
  <2> QED
    BY <2>1 DEF Sessions!Live
<1> QED
  BY <1>1, <1>2, <1>3, <1>4, <1>5, <1>6, <1>7

\* The rotation commits: the token presented was live until now.
LEMMA RotateStep ==
  ASSUME Sessions!SignInConstants, SessionsInv, NEW r \in Requests, Sessions!Rotate(r)
  PROVE  SessionsInv'
<1> USE DEF SessionsInv
<1> DEFINE t == tokenReq[r].token
           family == tokens[t].family
           at == tokenReq[r].at
           rs == Sessions!Successor(r)
<1>1. /\ tokenReq[r] \in Sessions!Transactions /\ Found(tokenReq[r]) /\ tokenReq[r].pc = "rotate" /\ Holding(tokenReq[r])
      /\ t \in DOMAIN tokens /\ Sessions!live(tokens[t]) /\ at < tokens[t].expires
      /\ lastToken \in Nat /\ lastToken < MaxTokens /\ MaxTokens \in Nat
  BY DEF Sessions!TypeOK, FoundInv, HoldInv, Sessions!Rotate, Found, Holding,
       Sessions!SignInConstants
<1>2. /\ tokens[t] \in Sessions!Rows /\ family \in Sessions!Ids /\ family <= lastToken /\ at \in Nat
      /\ tokens[t].expires = ends[family]
  BY <1>1 DEF RowInv, Sessions!Rows, Sessions!Transactions
<1>3. /\ DOMAIN rs = DOMAIN tokens \cup {lastToken + 1}
      /\ rs \in [DOMAIN rs -> Sessions!Rows]
      /\ DOMAIN rs \subseteq 1..(lastToken + 1)
      /\ rs[t].family = tokens[t].family /\ rs[t].expires = tokens[t].expires /\ rs[t].used
      /\ rs[lastToken + 1].family = tokens[t].family
      /\ rs[lastToken + 1].expires = tokens[t].expires
      /\ \A s \in DOMAIN tokens : s # lastToken + 1 /\ (s # t => rs[s] = tokens[s])
  BY <1>1, SuccessorRows
<1>4. /\ tokens' = rs /\ lastToken' = lastToken + 1 /\ granted' = granted \cup {<<family, at>>}
      /\ Sessions!Finish(r) /\ UNCHANGED <<now, status, ends, endings>>
  BY DEF Sessions!Rotate
<1> HIDE DEF rs
<1>5. \A q \in Requests \ {r} : Holding(tokenReq[q]) => tokenReq[q].token \in DOMAIN tokens /\ tokenReq[q].token # t
  BY <1>1 DEF HoldInv
<1>6. ~Sessions!live(rs[t])
  BY <1>3 DEF Sessions!live
<1>7. Commits(r)
  BY <1>1, <1>3, <1>4, <1>5, <1>6 DEF Commits
<1>8. /\ RowInv' /\ UniqueLive' /\ HoldInv' /\ FoundInv'
      /\ \A f \in Sessions!Ids : Sessions!Live(f) = {} => Sessions!Live(f)' = {}
      /\ tokenReq' \in [Requests -> Sessions!Transactions]
  BY <1>1, <1>7, CommitMove
<1>9. Sessions!TypeOK'
  <2>1. \A s \in DOMAIN tokens' : tokens'[s] \in Sessions!Rows
    BY <1>8 DEF RowInv
  <2> QED
    BY <1>1, <1>2, <1>3, <1>4, <1>8, <2>1 DEF Sessions!TypeOK
<1>10. HistoryInv'
  <2>1. ASSUME NEW g \in granted' PROVE g[1] <= lastToken'
    <3>1. CASE g \in granted
      BY <1>1, <1>4, <3>1 DEF HistoryInv, Sessions!TypeOK, Sessions!Ids
    <3>2. CASE g = <<family, at>>
      BY <1>1, <1>2, <1>4, <3>2 DEF Sessions!Ids
    <3> QED
      BY <1>4, <3>1, <3>2
  <2>2. ASSUME NEW e \in endings PROVE e[1] <= lastToken'
    BY <1>1, <1>4 DEF HistoryInv, Sessions!TypeOK, Sessions!Ids
  <2> QED
    BY <1>4, <2>1, <2>2 DEF HistoryInv
<1>11. Sessions!SignInEnds'
  <2>1. ASSUME NEW g \in granted' PROVE g[2] < ends'[g[1]]
    <3>1. CASE g \in granted
      BY <1>4, <3>1 DEF Sessions!SignInEnds
    <3>2. CASE g = <<family, at>>
      BY <1>1, <1>2, <1>4, <3>2
    <3> QED
      BY <1>4, <3>1, <3>2
  <2>2. ASSUME NEW f \in Sessions!Ids, <<f, TRUE>> \in endings' PROVE Sessions!Live(f)' = {}
    BY <1>4, <1>8, <2>2 DEF Sessions!SignInEnds
  <2> QED
    BY <2>1, <2>2 DEF Sessions!SignInEnds
<1> QED
  BY <1>8, <1>9, <1>10, <1>11

\* `revoke_family` marks rows and changes nothing else of them.
LEMMA RevokedRows ==
  ASSUME NEW table, table \in [DOMAIN table -> Sessions!Rows], NEW set
  PROVE  LET rs == Sessions!revoked(table, set)
         IN  /\ DOMAIN rs = DOMAIN table /\ rs \in [DOMAIN rs -> Sessions!Rows]
             /\ \A s \in DOMAIN table :
                  /\ rs[s].family = table[s].family /\ rs[s].expires = table[s].expires
                  /\ Sessions!live(rs[s]) => Sessions!live(table[s]) /\ s \notin set
                  /\ s \notin set => rs[s] = table[s]
<1> DEFINE gone(s) == [table[s] EXCEPT !.revoked = TRUE]
           rs == [s \in DOMAIN table |-> IF s \in set THEN gone(s) ELSE table[s]]
<1>1. ASSUME NEW s \in DOMAIN table
      PROVE  /\ gone(s) \in Sessions!Rows /\ gone(s).family = table[s].family
             /\ gone(s).expires = table[s].expires /\ ~Sessions!live(gone(s))
  <2>1. table[s] \in Sessions!Rows
    OBVIOUS
  <2>2. /\ gone(s) \in Sessions!Rows /\ gone(s).family = table[s].family
        /\ gone(s).expires = table[s].expires /\ gone(s).revoked = TRUE
    BY <2>1 DEF Sessions!Rows
  <2> QED
    BY <2>2 DEF Sessions!live
<1> HIDE DEF gone
<1>2. /\ DOMAIN rs = DOMAIN table /\ rs \in [DOMAIN rs -> Sessions!Rows]
      /\ \A s \in DOMAIN table :
           /\ rs[s].family = table[s].family /\ rs[s].expires = table[s].expires
           /\ Sessions!live(rs[s]) => Sessions!live(table[s]) /\ s \notin set
           /\ s \notin set => rs[s] = table[s]
  BY <1>1
<1> HIDE DEF rs
<1>3. Sessions!revoked(table, set) = rs
  BY DEF Sessions!revoked, rs, gone
<1> QED
  BY <1>2, <1>3

\* The revocation commits.  If the token presented was live, it was the only
\* live one of its family, and the revocation reached it.
LEMMA RevokeStep ==
  ASSUME Sessions!SignInConstants, SessionsInv, NEW r \in Requests, Sessions!RevokeEnds(r)
  PROVE  SessionsInv'
<1> USE DEF SessionsInv
<1> DEFINE t == tokenReq[r].token
           family == tokens[t].family
           sees == tokenReq[r].sees
<1>1. /\ tokenReq[r] \in Sessions!Transactions /\ Found(tokenReq[r]) /\ tokenReq[r].pc = "apply" /\ Holding(tokenReq[r])
      /\ t \in DOMAIN tokens /\ lastToken \in Nat /\ lastToken <= MaxTokens /\ MaxTokens \in Nat
      /\ tokens \in [DOMAIN tokens -> Sessions!Rows] /\ DOMAIN tokens \subseteq 1..lastToken
      /\ family \in Sessions!Ids /\ family <= lastToken /\ tokenReq[r].live \in BOOLEAN /\ sees \subseteq Sessions!Ids
  BY DEF Sessions!TypeOK, FoundInv, HoldInv, RowInv, Sessions!RevokeEnds, Holding,
       Sessions!SignInConstants, Sessions!Rows, Sessions!Transactions
<1>2. /\ endings' = endings \cup {<<family, tokenReq[r].live>>}
      /\ Sessions!Finish(r) /\ UNCHANGED <<now, status, ends, granted>>
  BY DEF Sessions!RevokeEnds
<1>3. \A q \in Requests \ {r} : Holding(tokenReq[q]) =>
        tokenReq[q].token \in DOMAIN tokens /\ tokenReq[q].token # t /\ tokenReq[q].token \notin sees
  BY <1>1 DEF HoldInv, Sessions!RevokeEnds, Sessions!Held, Sessions!Holds, Holding
<1>4. /\ Commits(r)
      /\ \A s \in sees : s \in DOMAIN tokens => ~Sessions!live(tokens'[s])
      /\ lastToken + 1 \in DOMAIN tokens' => ~Sessions!live(tokens'[lastToken + 1])
  <2>1. CASE tokenReq[r].rotated
    <3> DEFINE rs == Sessions!Successor(r)
               set == sees \cup {lastToken + 1}
    <3>1. tokens' = Sessions!revoked(rs, set) /\ lastToken' = lastToken + 1 /\ lastToken < MaxTokens
      BY <2>1 DEF Sessions!RevokeEnds
    <3>2. /\ DOMAIN rs = DOMAIN tokens \cup {lastToken + 1}
          /\ rs \in [DOMAIN rs -> Sessions!Rows]
          /\ DOMAIN rs \subseteq 1..(lastToken + 1)
          /\ rs[t].family = tokens[t].family /\ rs[t].expires = tokens[t].expires /\ rs[t].used
          /\ rs[lastToken + 1].family = tokens[t].family
          /\ rs[lastToken + 1].expires = tokens[t].expires
          /\ \A s \in DOMAIN tokens : s # lastToken + 1 /\ (s # t => rs[s] = tokens[s])
      BY <1>1, <3>1, SuccessorRows
    <3> HIDE DEF rs
    <3>3. /\ DOMAIN tokens' = DOMAIN rs /\ tokens' \in [DOMAIN tokens' -> Sessions!Rows]
          /\ \A s \in DOMAIN rs :
               /\ tokens'[s].family = rs[s].family /\ tokens'[s].expires = rs[s].expires
               /\ Sessions!live(tokens'[s]) => Sessions!live(rs[s]) /\ s \notin set
               /\ s \notin set => tokens'[s] = rs[s]
      BY <3>1, <3>2, RevokedRows
    <3>4. ~Sessions!live(rs[t])
      BY <3>2 DEF Sessions!live
    <3>5. ASSUME NEW s \in DOMAIN tokens
          PROVE  /\ tokens'[s].family = tokens[s].family /\ tokens'[s].expires = tokens[s].expires
                 /\ Sessions!live(tokens'[s]) => Sessions!live(tokens[s]) /\ s \notin sees
                 /\ s \notin sees /\ s # t => tokens'[s] = tokens[s]
      BY <3>2, <3>3, <3>4
    <3>6. /\ tokens'[lastToken + 1].family = tokens[t].family
          /\ tokens'[lastToken + 1].expires = tokens[t].expires /\ ~Sessions!live(tokens'[lastToken + 1])
      BY <3>2, <3>3
    <3>7. /\ DOMAIN tokens' = DOMAIN tokens \cup {lastToken + 1} /\ DOMAIN tokens' \subseteq 1..lastToken'
          /\ lastToken' \in lastToken..MaxTokens
      <4>1. DOMAIN tokens' = DOMAIN tokens \cup {lastToken + 1} /\ DOMAIN tokens' \subseteq 1..lastToken'
        BY <3>1, <3>2, <3>3
      <4>2. lastToken' \in lastToken..MaxTokens
        BY <1>1, <3>1
      <4> QED
        BY <4>1, <4>2
    <3> QED
      BY <1>2, <1>3, <3>3, <3>5, <3>6, <3>7 DEF Commits
  <2>2. CASE ~tokenReq[r].rotated
    <3>1. tokens' = Sessions!revoked(tokens, sees) /\ lastToken' = lastToken
      BY <2>2 DEF Sessions!RevokeEnds
    <3>2. /\ DOMAIN tokens' = DOMAIN tokens /\ tokens' \in [DOMAIN tokens' -> Sessions!Rows]
          /\ \A s \in DOMAIN tokens :
               /\ tokens'[s].family = tokens[s].family /\ tokens'[s].expires = tokens[s].expires
               /\ Sessions!live(tokens'[s]) => Sessions!live(tokens[s]) /\ s \notin sees
               /\ s \notin sees => tokens'[s] = tokens[s]
      BY <1>1, <3>1, RevokedRows
    <3>3. lastToken + 1 \notin DOMAIN tokens' /\ DOMAIN tokens' \subseteq 1..lastToken' /\ lastToken' \in lastToken..MaxTokens
      BY <1>1, <3>1, <3>2
    <3> QED
      BY <1>2, <1>3, <3>2, <3>3 DEF Commits
  <2> QED
    BY <2>1, <2>2
<1>5. /\ RowInv' /\ UniqueLive' /\ HoldInv' /\ FoundInv'
      /\ \A f \in Sessions!Ids : Sessions!Live(f) = {} => Sessions!Live(f)' = {}
      /\ lastToken' \in Nat /\ lastToken <= lastToken' /\ lastToken' <= MaxTokens
      /\ tokenReq' \in [Requests -> Sessions!Transactions]
  BY <1>1, <1>4, CommitMove
<1>6. Sessions!TypeOK'
  <2>1. \A s \in DOMAIN tokens' : tokens'[s] \in Sessions!Rows
    BY <1>5 DEF RowInv
  <2>2. DOMAIN tokens' \subseteq 1..lastToken'
    BY <1>4 DEF Commits
  <2> QED
    BY <1>1, <1>2, <1>5, <2>1, <2>2 DEF Sessions!TypeOK
<1>7. HistoryInv'
  <2>1. ASSUME NEW e \in endings' PROVE e[1] <= lastToken'
    <3>1. e[1] \in Sessions!Ids /\ e[1] <= lastToken
      <4>1. CASE e \in endings
        BY <4>1 DEF HistoryInv, Sessions!TypeOK
      <4>2. CASE e = <<family, tokenReq[r].live>>
        BY <1>1, <4>2
      <4> QED
        BY <1>2, <4>1, <4>2
    <3> QED
      BY <1>1, <1>5, <3>1 DEF Sessions!Ids
  <2>2. ASSUME NEW g \in granted PROVE g[1] <= lastToken'
    BY <1>1, <1>5 DEF HistoryInv, Sessions!TypeOK, Sessions!Ids
  <2> QED
    BY <1>2, <2>1, <2>2 DEF HistoryInv
<1>8. Sessions!SignInEnds'
  <2>1. ASSUME NEW f \in Sessions!Ids, <<f, TRUE>> \in endings' PROVE Sessions!Live(f)' = {}
    <3>1. CASE <<f, TRUE>> \in endings
      BY <1>5, <3>1 DEF Sessions!SignInEnds
    <3>2. CASE f = family /\ tokenReq[r].live = TRUE
      <4>1. t \in sees /\ Sessions!live(tokens[t])
        BY <1>1, <3>2 DEF Found
      <4>2. ~Sessions!live(tokens'[t])
        BY <1>1, <1>4, <4>1
      <4>3. ASSUME NEW s \in DOMAIN tokens', tokens'[s].family = family, Sessions!live(tokens'[s]) PROVE FALSE
        <5>1. CASE s \in DOMAIN tokens
          <6>1. tokens[s].family = family /\ Sessions!live(tokens[s])
            BY <1>4, <4>3, <5>1 DEF Commits
          <6>2. s = t
            BY <1>1, <4>1, <5>1, <6>1 DEF UniqueLive
          <6> QED
            BY <4>2, <4>3, <6>2
        <5>2. CASE s \notin DOMAIN tokens
          BY <1>4, <4>3, <5>2 DEF Commits
        <5> QED
          BY <5>1, <5>2
      <4> QED
        BY <3>2, <4>3 DEF Sessions!Live
    <3> QED
      BY <1>1, <1>2, <2>1, <3>1, <3>2
  <2> QED
    BY <1>2, <2>1 DEF Sessions!SignInEnds
<1> QED
  BY <1>5, <1>6, <1>7, <1>8

\* The retention deletes rows whose sign-in is over and that nobody holds.
LEMMA SweepStep ==
  ASSUME SessionsInv, Sessions!Sweep
  PROVE  SessionsInv'
<1> USE DEF SessionsInv
<1> DEFINE gone == {t \in DOMAIN tokens : tokens[t].expires < now}
           left == DOMAIN tokens \ gone
<1>1. /\ \A t \in gone, r \in Requests : ~(Holding(tokenReq[r]) /\ tokenReq[r].token = t)
      /\ tokens' = [t \in left |-> tokens[t]]
      /\ UNCHANGED <<now, status, lastToken, tokenReq, ends, granted, endings>>
  BY DEF Sessions!Sweep, Sessions!Holds, Holding, Sessions!history
<1>2. DOMAIN tokens' = left /\ left \subseteq DOMAIN tokens /\ \A t \in left : tokens'[t] = tokens[t]
  BY <1>1
<1>3. \A r \in Requests : Holding(tokenReq[r]) => tokenReq[r].token \in left
  BY <1>1 DEF HoldInv
<1> HIDE DEF left, gone
<1>4. tokens' \in [DOMAIN tokens' -> Sessions!Rows]
  BY <1>1, <1>2 DEF RowInv
<1>5. Sessions!TypeOK'
  BY <1>1, <1>2 DEF Sessions!TypeOK
<1>6. RowInv' /\ UniqueLive'
  BY <1>1, <1>2, <1>4 DEF RowInv, UniqueLive
<1>7. HoldInv' /\ FoundInv'
  BY <1>1, <1>2, <1>3 DEF HoldInv, FoundInv, Found, Holding
<1>8. HistoryInv'
  BY <1>1 DEF HistoryInv
<1>9. Sessions!SignInEnds'
  BY <1>1, <1>2 DEF Sessions!SignInEnds, Sessions!Live
<1> QED
  BY <1>5, <1>6, <1>7, <1>8, <1>9

\* Every step keeps the invariant.
LEMMA SessionsStep == ASSUME Sessions!SignInConstants, SessionsInv, [Sessions!Next]_(Sessions!vars) PROVE SessionsInv'
<1>1. CASE \E u \in TokenUsers : Sessions!start_family(u)
  BY <1>1, StartStep
<1>2. ASSUME \/ \E u \in TokenUsers : Sessions!SetStatus(u)
             \/ Sessions!Clock
             \/ UNCHANGED Sessions!vars
      PROVE  SessionsInv'
  <2>1. /\ UNCHANGED <<tokens, lastToken, tokenReq, ends, granted, endings>>
        /\ status' \in [TokenUsers -> {"none", "ACTIVE", "DISABLED"}] /\ now' \in 0..MaxTime
    BY <1>2 DEF Sessions!SetStatus, Sessions!Clock, Sessions!vars, Sessions!history,
         SessionsInv, Sessions!TypeOK, Sessions!SignInConstants
  <2>2. Sessions!TypeOK'
    BY <2>1 DEF SessionsInv, Sessions!TypeOK
  <2>3. RowInv' /\ UniqueLive' /\ HoldInv' /\ FoundInv'
    BY <2>1 DEF SessionsInv, RowInv, UniqueLive, HoldInv, FoundInv, Found, Holding
  <2>4. HistoryInv' /\ Sessions!SignInEnds'
    BY <2>1 DEF SessionsInv, HistoryInv, Sessions!SignInEnds, Sessions!Live
  <2> QED
    BY <2>2, <2>3, <2>4 DEF SessionsInv
<1>3. ASSUME NEW r \in Requests, Sessions!Unknown(r) \/ Sessions!RollBack(r) PROVE SessionsInv'
  BY <1>3, FinishMove DEF Sessions!Unknown, Sessions!RollBack
<1>4. CASE Sessions!Sweep
  BY <1>4, SweepStep
<1> QED
  BY <1>1, <1>2, <1>3, <1>4, ArriveStep, PresentStep, RotateStep, LogoutStep, RevokingSteps,
       RevokeStep
     DEF Sessions!Next

\* SignIn counts as FiniteSets does.
LEMMA SessionsCount == \A S : Sessions!Cardinality(S) = Cardinality(S)
BY DEF Sessions!Cardinality, Cardinality

\* The invariant holds in every state that sign-ins reach.
LEMMA SessionsInvariant == Spec => [](part = "sessions" => SessionsInv)
<1>1. Init => (part = "sessions" => SessionsInv)
  BY TablesConstants, SessionsInit DEF Init
<1>2. (part = "sessions" => SessionsInv) /\ [Next]_vars => (part = "sessions" => SessionsInv)'
  <2> SUFFICES ASSUME SessionsInv, part = "sessions", [Next]_vars PROVE SessionsInv'
    BY DEF Next, vars
  <2>1. [Sessions!Next]_(Sessions!vars)
    BY DEF Next, vars, sessions, Sessions!vars, Sessions!history
  <2> QED
    BY <2>1, TablesConstants, SessionsStep
<1> QED
  BY <1>1, <1>2, PTL DEF Spec

\* However many requests present the tokens of a sign-in at once, it has one
\* live token at most (`rotate`, `get_refresh_token_for_update`).
THEOREM LiveTokenIsUnique == Spec => []OneLiveToken
<1>1. SessionsInv => Sessions!OneLiveToken
  <2> SUFFICES ASSUME SessionsInv, NEW f \in Sessions!Ids PROVE Cardinality(Sessions!Live(f)) <= 1
    BY SessionsCount DEF Sessions!OneLiveToken
  <2>1. \A s, t \in Sessions!Live(f) : s = t
    BY DEF SessionsInv, UniqueLive, Sessions!Live
  <2>2. CASE Sessions!Live(f) = {}
    BY <2>2, FS_EmptySet
  <2>3. CASE Sessions!Live(f) # {}
    <3>1. PICK t : Sessions!Live(f) = {t}
      BY <2>1, <2>3
    <3>2. Cardinality({t}) = 1
      BY FS_Singleton
    <3> QED
      BY <3>1, <3>2
  <2> QED
    BY <2>2, <2>3
<1>2. (part = "sessions" => SessionsInv) => OneLiveToken
  BY <1>1 DEF OneLiveToken
<1> QED
  BY <1>2, SessionsInvariant, PTL

\* No request that arrives after the end of a sign-in is given a new pair, and
\* a logout with its live token, or the refresh of a disabled account, leaves
\* no live token for good (`rotate`, `revoke_family`).
THEOREM SignInIsOver == Spec => []SignInEnds
<1>1. (part = "sessions" => SessionsInv) => SignInEnds
  BY DEF SessionsInv, SignInEnds
<1> QED
  BY <1>1, SessionsInvariant, PTL
-----------------------------------------------------------------------------
(***************************************************************************)
(* The sealed credentials.                                                 *)
(***************************************************************************)
\* The active key is one of the keys, and the check stands for every record.
CipherInv ==
  /\ cipher.active \in cipher.keys
  /\ checked => \A u \in Users : keyRecords[u] # Keys!NoRecord => keyRecords[u].key_version = cipher.active

\* A registration under way was sealed under the key that is still active.  If
\* the row it read was at that key, whatever row stands there now is too, so
\* that the column it leaves alone is right.
Sound(x) ==
  x # Keys!Idle =>
    /\ x.sealed.under = cipher.active
    /\ x.read # Keys!NoRecord /\ x.read.key_version = cipher.active /\ keyRecords[x.user] # Keys!NoRecord =>
         keyRecords[x.user].key_version = cipher.active

RequestInv == \A r \in Requests : Sound(keyReq[r])

\* The row that the script has locked is the row that it read.
ScriptInv ==
  script.locked # None =>
    script.locked \in Users /\ script.read # Keys!NoRecord /\ script.read = keyRecords[script.locked]

KeysInv ==
  /\ Keys!TypeOK /\ CipherInv /\ RequestInv /\ ScriptInv
  /\ Keys!EveryRecordOpens /\ Keys!LastRegistrationStands
-----------------------------------------------------------------------------
\* The initial state satisfies the invariant: no record, one key.
LEMMA KeysInit == ASSUME Keys!KeyRotationConstants, Keys!Init PROVE KeysInv
<1>1. Keys!TypeOK
  <2>1. cipher \in [keys : SUBSET Keys!Versions, active : Keys!Versions]
    BY DEF Keys!KeyRotationConstants, Keys!Init, Keys!Versions
  <2>2. script \in Keys!Script
    BY DEF Keys!Init, Keys!Script, Keys!NoScript
  <2> QED
    BY <2>1, <2>2 DEF Keys!Init, Keys!TypeOK
<1>2. CipherInv /\ RequestInv /\ ScriptInv
  BY DEF Keys!Init, CipherInv, RequestInv, Sound, ScriptInv, Keys!NoScript
<1>3. Keys!EveryRecordOpens /\ Keys!LastRegistrationStands
  BY DEF Keys!Init, Keys!EveryRecordOpens, Keys!LastRegistrationStands
<1> QED
  BY <1>1, <1>2, <1>3 DEF KeysInv

\* Writing, for a user whose row nobody has locked, a record that is sealed
\* under the active key keeps what is said of records.
LEMMA RecordMove ==
  ASSUME Keys!KeyRotationConstants, KeysInv, NEW u \in Users, NEW x \in Keys!Records,
         keyRecords' = [keyRecords EXCEPT ![u] = x],
         x.key_version = cipher.active, x.sealed.under = cipher.active,
         registered' \in [Users -> Credentials \cup {None}],
         registered'[u] = x.sealed.credentials,
         \A v \in Users : v # u => registered'[v] = registered[v],
         UNCHANGED <<cipher, checked>>
  PROVE  /\ keyRecords' \in [Users -> Keys!Records \cup {Keys!NoRecord}]
         /\ CipherInv' /\ Keys!EveryRecordOpens' /\ Keys!LastRegistrationStands'
         /\ \A y \in Keys!Registrations \cup {Keys!Idle} : Sound(y) => Sound(y)'
<1> USE DEF KeysInv
<1>1. /\ keyRecords' \in [Users -> Keys!Records \cup {Keys!NoRecord}] /\ keyRecords'[u] = x /\ x # Keys!NoRecord
      /\ \A v \in Users : v # u => keyRecords'[v] = keyRecords[v]
  BY DEF Keys!TypeOK, Keys!KeyRotationConstants, Keys!NoRecord
<1>2. CipherInv'
  BY <1>1 DEF CipherInv
<1>3. Keys!EveryRecordOpens'
  BY <1>1 DEF Keys!EveryRecordOpens, Keys!unseals, CipherInv
<1>4. Keys!LastRegistrationStands'
  BY <1>1 DEF Keys!LastRegistrationStands
<1>5. ASSUME NEW y \in Keys!Registrations \cup {Keys!Idle}, Sound(y) PROVE Sound(y)'
  BY <1>1, <1>5 DEF Sound, Keys!Registrations
<1> QED
  BY <1>1, <1>2, <1>3, <1>4, <1>5

\* A registration is sealed under the active key, beside the row as it is.
LEMMA RegisterStep ==
  ASSUME Keys!KeyRotationConstants, KeysInv, NEW r \in Requests, Keys!Register(r)
  PROVE  KeysInv'
<1> USE DEF KeysInv
<1>1. PICK u \in Users, c \in Credentials :
        keyReq' = [keyReq EXCEPT ![r] = [user |-> u, sealed |-> Keys!seal(c), read |-> keyRecords[u]]]
  BY DEF Keys!Register
<1>2. UNCHANGED <<keyRecords, cipher, script, checked, registered>>
  BY DEF Keys!Register
<1> DEFINE x == [user |-> u, sealed |-> Keys!seal(c), read |-> keyRecords[u]]
<1>3. Keys!seal(c) \in Keys!Sealed /\ Keys!seal(c).under = cipher.active
  BY DEF Keys!seal, Keys!Sealed, Keys!TypeOK
<1>4. x \in Keys!Registrations /\ x.user = u /\ x.sealed.under = cipher.active /\ x.read = keyRecords[u]
  BY <1>3 DEF Keys!Registrations, Keys!TypeOK
<1> HIDE DEF x
<1>5. /\ keyReq' \in [Requests -> Keys!Registrations \cup {Keys!Idle}] /\ keyReq'[r] = x
      /\ \A q \in Requests : q # r => keyReq'[q] = keyReq[q]
  BY <1>1, <1>4 DEF Keys!TypeOK, x
<1>6. Keys!TypeOK'
  BY <1>2, <1>5 DEF Keys!TypeOK
<1>7. RequestInv'
  BY <1>2, <1>4, <1>5 DEF RequestInv, Sound
<1>8. CipherInv' /\ ScriptInv' /\ Keys!EveryRecordOpens' /\ Keys!LastRegistrationStands'
  BY <1>2 DEF CipherInv, ScriptInv, Keys!EveryRecordOpens, Keys!unseals,
       Keys!LastRegistrationStands
<1> QED
  BY <1>6, <1>7, <1>8

\* save_credentials: the row as written is sealed under the active key and says
\* so, whether or not the column was written.
LEMMA SaveStep ==
  ASSUME Keys!KeyRotationConstants, KeysInv, NEW r \in Requests, Keys!Save(r)
  PROVE  KeysInv'
<1> USE DEF KeysInv
<1> DEFINE old == keyReq[r]
           u == old.user
<1>1. /\ old \in Keys!Registrations /\ Sound(old) /\ old # Keys!Idle /\ u \in Users
      /\ old.sealed \in Keys!Sealed /\ old.read \in Keys!Records \cup {Keys!NoRecord} /\ script.locked # u
  BY DEF Keys!TypeOK, Keys!Save, Keys!Locked, RequestInv, Keys!Registrations
<1>2. /\ keyReq' = [keyReq EXCEPT ![r] = Keys!Idle] /\ UNCHANGED <<cipher, script, checked>>
      /\ keyReq' \in [Requests -> Keys!Registrations \cup {Keys!Idle}]
      /\ \A q \in Requests : keyReq'[q] = IF q = r THEN Keys!Idle ELSE keyReq[q]
  BY DEF Keys!Save, Keys!TypeOK
<1>3. CASE (old.read = Keys!NoRecord) = (keyRecords[u] = Keys!NoRecord)
  <2> DEFINE x == Keys!Written(keyRecords[u], old.read, old.sealed)
  <2>1. /\ keyRecords' = [keyRecords EXCEPT ![u] = x]
        /\ registered' = [registered EXCEPT ![u] = old.sealed.credentials]
    BY <1>3 DEF Keys!Save, Keys!TypeOK
  <2>2. x.sealed = old.sealed /\ x.key_version = cipher.active
    BY <1>1, <1>3 DEF Keys!Written, Sound
  <2>3. x \in Keys!Records
    <3>1. x.key_version \in Keys!Versions
      BY <2>2 DEF Keys!TypeOK
    <3> QED
      BY <1>1, <3>1 DEF Keys!Written, Keys!Records
  <2>4. /\ x.sealed.under = cipher.active /\ old.sealed.credentials \in Credentials
        /\ registered' \in [Users -> Credentials \cup {None}]
        /\ registered'[u] = x.sealed.credentials
        /\ \A v \in Users : v # u => registered'[v] = registered[v]
    BY <1>1, <2>1, <2>2 DEF Sound, Keys!TypeOK, Keys!Sealed
  <2> HIDE DEF x
  <2>5. /\ keyRecords' \in [Users -> Keys!Records \cup {Keys!NoRecord}]
        /\ CipherInv' /\ Keys!EveryRecordOpens' /\ Keys!LastRegistrationStands'
        /\ \A y \in Keys!Registrations \cup {Keys!Idle} : Sound(y) => Sound(y)'
    BY <1>1, <1>2, <2>1, <2>2, <2>3, <2>4, RecordMove
  <2>6. Keys!TypeOK'
    BY <1>2, <2>4, <2>5 DEF Keys!TypeOK
  <2>7. RequestInv'
    <3>1. ASSUME NEW q \in Requests PROVE Sound(keyReq[q])'
      <4>1. CASE q = r
        BY <1>2, <4>1 DEF Sound
      <4>2. CASE q # r
        BY <1>2, <2>5, <4>2 DEF RequestInv, Keys!TypeOK, Sound
      <4> QED
        BY <4>1, <4>2
    <3> QED
      BY <3>1 DEF RequestInv
  <2>8. ScriptInv'
    BY <1>1, <1>2, <2>1 DEF ScriptInv, Keys!TypeOK
  <2> QED
    BY <2>5, <2>6, <2>7, <2>8
<1>4. CASE ~((old.read = Keys!NoRecord) = (keyRecords[u] = Keys!NoRecord))
  <2>1. UNCHANGED <<keyRecords, registered>>
    BY <1>4 DEF Keys!Save
  <2>2. Keys!TypeOK' /\ RequestInv'
    BY <1>2, <2>1 DEF Keys!TypeOK, RequestInv, Sound
  <2>3. CipherInv' /\ ScriptInv' /\ Keys!EveryRecordOpens' /\ Keys!LastRegistrationStands'
    BY <1>2, <2>1 DEF CipherInv, ScriptInv, Keys!EveryRecordOpens, Keys!unseals,
         Keys!LastRegistrationStands
  <2> QED
    BY <2>2, <2>3
<1> QED
  BY <1>3, <1>4

\* remove: the row and the registration are gone together.
LEMMA RemoveStep ==
  ASSUME Keys!KeyRotationConstants, KeysInv, NEW u \in Users, Keys!Remove(u)
  PROVE  KeysInv'
<1> USE DEF KeysInv
<1>1. /\ keyRecords' = [keyRecords EXCEPT ![u] = Keys!NoRecord] /\ registered' = [registered EXCEPT ![u] = None]
      /\ script.locked # u /\ UNCHANGED <<cipher, keyReq, script, checked>>
  BY DEF Keys!Remove, Keys!Locked
<1>2. Keys!TypeOK'
  BY <1>1 DEF Keys!TypeOK
<1>3. /\ \A v \in Users : keyRecords'[v] = IF v = u THEN Keys!NoRecord ELSE keyRecords[v]
      /\ \A v \in Users : registered'[v] = IF v = u THEN None ELSE registered[v]
  BY <1>1 DEF Keys!TypeOK
<1>4. CipherInv' /\ Keys!EveryRecordOpens' /\ Keys!LastRegistrationStands'
  BY <1>1, <1>3 DEF CipherInv, Keys!EveryRecordOpens, Keys!unseals, Keys!LastRegistrationStands
<1>5. ScriptInv'
  BY <1>1, <1>3 DEF ScriptInv
<1>6. RequestInv'
  <2>1. \A r \in Requests : keyReq[r] # Keys!Idle => keyReq[r].user \in Users
    BY DEF Keys!TypeOK, Keys!Registrations
  <2> QED
    BY <1>1, <1>3, <2>1 DEF RequestInv, Sound
<1> QED
  BY <1>2, <1>4, <1>5, <1>6

\* reseal: what was read under the row's lock is sealed again.
LEMMA ResealStep ==
  ASSUME Keys!KeyRotationConstants, KeysInv, Keys!ResealEnds
  PROVE  KeysInv'
<1> USE DEF KeysInv
<1> DEFINE u == script.locked
           c == script.read.sealed.credentials
           x == [sealed |-> Keys!seal(c), key_version |-> cipher.active]
<1>1. /\ u \in Users /\ keyRecords[u] # Keys!NoRecord /\ script.read = keyRecords[u] /\ script \in Keys!Script
      /\ keyRecords[u] \in Keys!Records /\ cipher.active \in Keys!Versions
  BY DEF Keys!ResealEnds, ScriptInv, Keys!TypeOK
<1>2. /\ keyRecords' = [keyRecords EXCEPT ![u] = x]
      /\ script' = [script EXCEPT !.locked = None, !.read = Keys!NoRecord]
      /\ UNCHANGED <<cipher, keyReq, checked, registered>>
  BY DEF Keys!ResealEnds
<1>3. c \in Credentials /\ c = registered[u]
  BY <1>1 DEF Keys!LastRegistrationStands, Keys!Records, Keys!Sealed
<1>4. Keys!seal(c) \in Keys!Sealed /\ Keys!seal(c).under = cipher.active /\ Keys!seal(c).credentials = c
  BY <1>1, <1>3 DEF Keys!seal, Keys!Sealed
<1>5. x \in Keys!Records /\ x.key_version = cipher.active /\ x.sealed = Keys!seal(c)
  BY <1>1, <1>4 DEF Keys!Records
<1> HIDE DEF x
<1>6. /\ keyRecords' \in [Users -> Keys!Records \cup {Keys!NoRecord}]
      /\ CipherInv' /\ Keys!EveryRecordOpens' /\ Keys!LastRegistrationStands'
      /\ \A y \in Keys!Registrations \cup {Keys!Idle} : Sound(y) => Sound(y)'
  <2>1. registered' \in [Users -> Credentials \cup {None}] /\ registered'[u] = x.sealed.credentials
    BY <1>2, <1>3, <1>4, <1>5 DEF Keys!TypeOK
  <2>2. x.sealed.under = cipher.active /\ \A v \in Users : v # u => registered'[v] = registered[v]
    BY <1>2, <1>4, <1>5
  <2> HIDE DEF u
  <2>3. u \in Users
    BY <1>1
  <2> QED
    BY <1>2, <1>5, <2>1, <2>2, <2>3, RecordMove
<1>7. script' \in Keys!Script /\ script'.locked = None
  BY <1>1, <1>2 DEF Keys!Script
<1>8. Keys!TypeOK' /\ ScriptInv'
  BY <1>2, <1>6, <1>7 DEF Keys!TypeOK, ScriptInv
<1>9. RequestInv'
  BY <1>2, <1>6 DEF RequestInv, Keys!TypeOK, Sound
<1> QED
  BY <1>6, <1>8, <1>9

\* The steps of the script that write no record.
LEMMA ScriptSteps ==
  ASSUME Keys!KeyRotationConstants, KeysInv,
         \/ Keys!RotateBegins \/ Keys!ScriptDies
         \/ \E u \in Users : Keys!ResealBegins(u) \/ Keys!ResealSkips(u)
  PROVE  KeysInv'
<1> USE DEF KeysInv
<1>1. UNCHANGED <<keyRecords, cipher, keyReq, checked, registered>>
  BY DEF Keys!RotateBegins, Keys!ScriptDies, Keys!ResealBegins, Keys!ResealSkips
<1>2. script' \in Keys!Script /\ ScriptInv'
  <2>0. script \in Keys!Script /\ keyRecords \in [Users -> Keys!Records \cup {Keys!NoRecord}]
    BY DEF Keys!TypeOK
  <2>1. CASE Keys!RotateBegins
    <3> DEFINE owners == Keys!credential_owners_not_at(cipher.active)
    <3>1. owners \in SUBSET Users /\ script' = [script EXCEPT !.left = owners]
      BY <2>1 DEF Keys!RotateBegins, Keys!credential_owners_not_at
    <3> HIDE DEF owners
    <3>2. script' \in Keys!Script /\ script'.locked = script.locked /\ script'.read = script.read
      BY <2>0, <3>1 DEF Keys!Script
    <3> QED
      BY <1>1, <3>2 DEF ScriptInv
  <2>2. CASE Keys!ScriptDies
    BY <2>2 DEF Keys!ScriptDies, Keys!NoScript, Keys!Script, ScriptInv
  <2>3. ASSUME NEW u \in Users, Keys!ResealBegins(u) PROVE script' \in Keys!Script /\ ScriptInv'
    <3>1. script' = [left |-> script.left \ {u}, locked |-> u, read |-> keyRecords[u]] /\ keyRecords[u] # Keys!NoRecord
      BY <2>3 DEF Keys!ResealBegins, Keys!Stale
    <3>2. script.left \ {u} \in SUBSET Users /\ keyRecords[u] \in Keys!Records \cup {Keys!NoRecord}
      BY <2>0 DEF Keys!Script
    <3>3. script' \in Keys!Script /\ script'.locked = u /\ script'.read = keyRecords[u]
      BY <3>1, <3>2 DEF Keys!Script
    <3> QED
      BY <1>1, <3>1, <3>3 DEF ScriptInv
  <2>4. ASSUME NEW u \in Users, Keys!ResealSkips(u) PROVE script' \in Keys!Script /\ ScriptInv'
    <3> DEFINE left == script.left \ {u}
    <3>1. script' = [script EXCEPT !.left = left] /\ left \in SUBSET Users
      BY <2>0, <2>4 DEF Keys!ResealSkips, Keys!Script
    <3> HIDE DEF left
    <3>2. script' \in Keys!Script /\ script'.locked = script.locked /\ script'.read = script.read
      BY <2>0, <3>1 DEF Keys!Script
    <3> QED
      BY <1>1, <3>2 DEF ScriptInv
  <2> QED
    BY <2>1, <2>2, <2>3, <2>4
<1>3. Keys!TypeOK' /\ RequestInv'
  BY <1>1, <1>2 DEF Keys!TypeOK, RequestInv, Sound
<1>4. CipherInv' /\ Keys!EveryRecordOpens' /\ Keys!LastRegistrationStands'
  BY <1>1 DEF CipherInv, Keys!EveryRecordOpens, Keys!unseals, Keys!LastRegistrationStands
<1> QED
  BY <1>2, <1>3, <1>4

\* The steps of the runbook: a key is added, checked, removed.  A restart
\* leaves no registration sealed under the key that was active before.
LEMMA RunbookSteps ==
  ASSUME Keys!KeyRotationConstants, KeysInv, Keys!AddKey \/ Keys!Check \/ Keys!RemoveKey
  PROVE  KeysInv'
<1> USE DEF KeysInv
<1>0. /\ cipher \in [keys : SUBSET Keys!Versions, active : Keys!Versions]
      /\ cipher.keys \subseteq Keys!Versions /\ cipher.active \in Keys!Versions /\ MaxVersion \in Nat
  BY DEF Keys!TypeOK, Keys!KeyRotationConstants
<1>1. CASE Keys!Check
  <2>1. /\ UNCHANGED <<keyRecords, cipher, keyReq, script, registered>> /\ checked' = TRUE
        /\ \A u \in Users : keyRecords[u] # Keys!NoRecord => keyRecords[u].key_version = cipher.active
    BY <1>1 DEF Keys!Check, Keys!credential_owners_not_at
  <2>2. Keys!TypeOK' /\ CipherInv' /\ RequestInv' /\ ScriptInv'
    BY <2>1 DEF Keys!TypeOK, CipherInv, RequestInv, Sound, ScriptInv
  <2>3. Keys!EveryRecordOpens' /\ Keys!LastRegistrationStands'
    BY <2>1 DEF Keys!EveryRecordOpens, Keys!unseals, Keys!LastRegistrationStands
  <2> QED
    BY <2>2, <2>3
<1>2. ASSUME Keys!AddKey \/ Keys!RemoveKey PROVE KeysInv'
  <2>1. /\ UNCHANGED <<keyRecords, script, registered>> /\ checked' = FALSE
        /\ keyReq' \in [Requests -> Keys!Registrations \cup {Keys!Idle}] /\ \A r \in Requests : keyReq'[r] = Keys!Idle
    BY <1>2 DEF Keys!AddKey, Keys!RemoveKey, Keys!InFlight
  <2>2. /\ cipher' \in [keys : SUBSET Keys!Versions, active : Keys!Versions]
        /\ cipher'.active \in cipher'.keys
        /\ \A u \in Users : keyRecords[u] # Keys!NoRecord => keyRecords[u].key_version \in cipher'.keys
    <3>1. CASE Keys!AddKey
      <4> DEFINE a == cipher.active + 1
                 ks == cipher.keys \cup {a}
      <4>1. cipher' = [keys |-> ks, active |-> a] /\ a \in Keys!Versions /\ ks \in SUBSET Keys!Versions
        BY <1>0, <3>1 DEF Keys!AddKey, Keys!Versions
      <4>2. cipher'.keys = ks /\ cipher'.active = a
        BY <4>1
      <4> QED
        BY <4>1, <4>2 DEF Keys!EveryRecordOpens, Keys!unseals
    <3>2. CASE Keys!RemoveKey
      <4> DEFINE ks == {cipher.active}
      <4>1. cipher' = [cipher EXCEPT !.keys = ks] /\ ks \in SUBSET Keys!Versions /\ checked
        BY <1>0, <3>2 DEF Keys!RemoveKey
      <4>2. /\ cipher' \in [keys : SUBSET Keys!Versions, active : Keys!Versions]
            /\ cipher'.keys = ks /\ cipher'.active = cipher.active
        BY <1>0, <4>1
      <4> QED
        BY <4>1, <4>2 DEF CipherInv
    <3> QED
      BY <1>2, <3>1, <3>2
  <2>3. Keys!TypeOK' /\ CipherInv' /\ RequestInv' /\ ScriptInv'
    BY <2>1, <2>2 DEF Keys!TypeOK, CipherInv, RequestInv, Sound, ScriptInv
  <2>4. Keys!EveryRecordOpens' /\ Keys!LastRegistrationStands'
    BY <2>1, <2>2 DEF Keys!EveryRecordOpens, Keys!unseals, Keys!LastRegistrationStands
  <2> QED
    BY <2>3, <2>4
<1> QED
  BY <1>1, <1>2

\* Every step keeps the invariant.
LEMMA KeysStep == ASSUME Keys!KeyRotationConstants, KeysInv, [Keys!Next]_(Keys!vars) PROVE KeysInv'
<1>1. CASE UNCHANGED Keys!vars
  BY <1>1 DEF Keys!vars, KeysInv, Keys!TypeOK, CipherInv, RequestInv, Sound, ScriptInv,
       Keys!EveryRecordOpens, Keys!unseals,
              Keys!LastRegistrationStands
<1> QED
  BY <1>1, RegisterStep, SaveStep, RemoveStep, ResealStep, ScriptSteps, RunbookSteps DEF Keys!Next

\* The invariant holds in every state that registrations and rotations reach.
LEMMA KeysInvariant == Spec => [](part = "keys" => KeysInv)
<1>1. Init => (part = "keys" => KeysInv)
  BY TablesConstants, KeysInit DEF Init
<1>2. (part = "keys" => KeysInv) /\ [Next]_vars => (part = "keys" => KeysInv)'
  <2> SUFFICES ASSUME KeysInv, part = "keys", [Next]_vars PROVE KeysInv'
    BY DEF Next, vars
  <2>1. [Keys!Next]_(Keys!vars)
    BY DEF Next, vars, keys, Keys!vars
  <2> QED
    BY <2>1, TablesConstants, KeysStep
<1> QED
  BY <1>1, <1>2, PTL DEF Spec

\* The platform's keys open every record, through additions, resealing, races
\* with registrations and the removal of the old key (rotation.py).
THEOREM RecordsOpen == Spec => []EveryRecordOpens
<1>1. (part = "keys" => KeysInv) => EveryRecordOpens
  BY DEF KeysInv, EveryRecordOpens
<1> QED
  BY <1>1, KeysInvariant, PTL

\* The rotation neither loses nor overwrites a registration: a record holds
\* the last one that succeeded (save_credentials, reseal).
THEOREM RegistrationStands == Spec => []LastRegistrationStands
<1>1. (part = "keys" => KeysInv) => LastRegistrationStands
  BY DEF KeysInv, LastRegistrationStands
<1> QED
  BY <1>1, KeysInvariant, PTL
=============================================================================
