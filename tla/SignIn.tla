------------------------------- MODULE SignIn -------------------------------
(***************************************************************************)
(* A sign-in and its refresh tokens: core/refresh.py, core/db/refresh_     *)
(* tokens.py, the routes of api/routes/auth.py and the retention of the    *)
(* scheduler.                                                              *)
(*                                                                         *)
(* A request is one READ COMMITTED transaction.  It locks the row of the   *)
(* token it presents; what it writes is visible when it commits, so the    *)
(* writes are in its last step.  The UPDATE that revokes a family works on *)
(* the rows that were committed when it began: it waits for those that     *)
(* others hold, and does not see the ones inserted meanwhile.              *)
(***************************************************************************)
EXTENDS Naturals, FiniteSets

CONSTANTS
  Users, Requests,
  None,        \* no token at hand
  RefreshTTL,  \* length of a sign-in
  MaxTokens,   \* bound: refresh tokens issued
  MaxTime      \* bound: the clock

SignInConstants ==
  /\ RefreshTTL \in Nat \ {0} /\ MaxTokens \in Nat /\ MaxTime \in Nat
  /\ None \notin Nat

VARIABLES
  now,      \* the clock
  status,   \* of each user
  tokens,   \* rows of refresh_tokens, by id
  last,     \* the last id issued
  req,      \* each request's transaction
  ends,     \* history: when the sign-in of each family ends
  granted,  \* history: <<family, arrival>> of the requests given a new pair
  endings   \* history: <<family, whether the token presented was live>> of revocations

history == <<ends, granted, endings>>
vars == <<now, status, tokens, last, req, history>>

Ids == 1..MaxTokens

\* A row.  A family is named by the id of its first token.
Rows == [user : Users, family : Ids, expires : Nat, used : BOOLEAN, revoked : BOOLEAN]

\* A request: the token it presents, when it arrived, the rows its UPDATE found,
\* and whether it rotated the token before it came to revoke the family.
Transactions ==
  [pc : {"idle", "refresh", "logout", "rotate", "revoke", "apply"}, token : Ids \cup {None},
   at : Nat, sees : SUBSET Ids, live : BOOLEAN, rotated : BOOLEAN]
Idle == [pc |-> "idle", token |-> None, at |-> 0, sees |-> {}, live |-> FALSE, rotated |-> FALSE]

TypeOK ==
  /\ now \in 0..MaxTime
  /\ status \in [Users -> {"none", "ACTIVE", "DISABLED"}]
  /\ last \in 0..MaxTokens
  /\ DOMAIN tokens \subseteq 1..last
  /\ \A t \in DOMAIN tokens : tokens[t] \in Rows
  /\ req \in [Requests -> Transactions]
  /\ ends \in [Ids -> Nat]
  /\ granted \subseteq Ids \X Nat
  /\ endings \subseteq Ids \X BOOLEAN

Init ==
  /\ now = 0
  /\ status = [u \in Users |-> "none"]
  /\ tokens = [t \in {} |-> None] /\ last = 0
  /\ req = [r \in Requests |-> Idle]
  /\ ends = [t \in Ids |-> 0] /\ granted = {} /\ endings = {}
-----------------------------------------------------------------------------
\* Mutant of _issue: the flags are left unset.
IssueUnset(rows, id, user, family, expires) ==
  [t \in DOMAIN rows \cup {id} |->
     IF t = id THEN [user |-> user, family |-> family, expires |-> expires] ELSE rows[t]]

\* _issue: a new row, on top of the rows given.
_issue(rows, id, user, family, expires) ==
  [t \in DOMAIN rows \cup {id} |->
     IF t = id THEN [user |-> user, family |-> family, expires |-> expires,
                     used |-> FALSE, revoked |-> FALSE]
     ELSE rows[t]]

mark_used(rows, t) == [rows EXCEPT ![t].used = TRUE]

revoked(rows, set) == [t \in DOMAIN rows |->
  IF t \in set THEN [rows[t] EXCEPT !.revoked = TRUE] ELSE rows[t]]

\* callback: the user is found or created, and a family begins.  Two callbacks
\* that create one user: the unique key rolls the second back.
start_family(u) ==
  /\ status[u] # "DISABLED" /\ last < MaxTokens
  /\ status' = [status EXCEPT ![u] = "ACTIVE"]
  /\ last' = last + 1
  /\ tokens' = _issue(tokens, last + 1, u, last + 1, now + RefreshTTL)
  /\ ends' = [ends EXCEPT ![last + 1] = now + RefreshTTL]
  /\ UNCHANGED <<now, req, granted, endings>>

\* A request arrives with some token that was handed out, however old.
Arrive(r) ==
  /\ req[r] = Idle
  /\ \E t \in 1..last, kind \in {"refresh", "logout"} :
       req' = [req EXCEPT ![r] = [Idle EXCEPT !.pc = kind, !.token = t, !.at = now]]
  /\ UNCHANGED <<now, status, tokens, last, history>>

Waiting(r) == req[r].pc \in {"refresh", "logout"}

\* The row of t is locked by request q, or by one other than r.
Holds(q, t) == req[q].pc \in {"rotate", "revoke", "apply"} /\ req[q].token = t
Held(r, t) == \E q \in Requests \ {r} : Holds(q, t)

\* Mutant of Locks: a SELECT without FOR UPDATE.
LocksNothing(r, t) == TRUE

\* get_refresh_token_for_update waits for the row.
Locks(r, t) == ~Held(r, t)

Finish(r) == req' = [req EXCEPT ![r] = Idle]

\* The token is unknown: 401, or a logout with nothing to do.
Unknown(r) ==
  /\ Waiting(r) /\ req[r].token \notin DOMAIN tokens
  /\ Finish(r)
  /\ UNCHANGED <<now, status, tokens, last, history>>

\* Mutant of Unusable: a revocation is not looked at.
UnusableIfExpired(row, at) == ~row.used /\ row.expires <= at

\* Answers that change nothing: revoked, or expired.
Unusable(row, at) == row.revoked \/ (~row.used /\ row.expires <= at)

live(row) == ~row.used /\ ~row.revoked

\* rotate, up to its verdict, with the row locked.
Present(r) ==
  LET t == req[r].token
  IN  /\ req[r].pc = "refresh" /\ t \in DOMAIN tokens /\ Locks(r, t)
      /\ req' = [req EXCEPT ![r] =
           IF Unusable(tokens[t], req[r].at) THEN Idle
           ELSE [@ EXCEPT !.pc = IF tokens[t].used THEN "revoke" ELSE "rotate"]]
      /\ UNCHANGED <<now, status, tokens, last, history>>

\* The expiry is inherited, never recomputed.
Lifetime(row, at) == row.expires

Successor(r) ==
  LET t == req[r].token
  IN  _issue(mark_used(tokens, t), last + 1, tokens[t].user, tokens[t].family,
             Lifetime(tokens[t], req[r].at))

\* The token is used up, and the caller is given the next pair.
Rotate(r) ==
  LET row == tokens[req[r].token]
  IN  /\ req[r].pc = "rotate" /\ last < MaxTokens
      /\ status[row.user] = "ACTIVE"
      /\ tokens' = Successor(r)
      /\ last' = last + 1
      /\ granted' = granted \cup {<<row.family, req[r].at>>}
      /\ Finish(r)
      /\ UNCHANGED <<now, status, ends, endings>>

\* The account is disabled: the rotation stands, and the family is revoked.
RotateDisabled(r) ==
  /\ req[r].pc = "rotate" /\ last < MaxTokens
  /\ status[tokens[req[r].token].user] # "ACTIVE"
  /\ req' = [req EXCEPT ![r] = [@ EXCEPT !.pc = "revoke", !.live = TRUE, !.rotated = TRUE]]
  /\ UNCHANGED <<now, status, tokens, last, history>>

\* logout: the row is locked, whatever its state.
Logout(r) ==
  LET t == req[r].token
  IN  /\ req[r].pc = "logout" /\ t \in DOMAIN tokens /\ Locks(r, t)
      /\ req' = [req EXCEPT ![r] = [@ EXCEPT !.pc = "revoke", !.live = live(tokens[t])]]
      /\ UNCHANGED <<now, status, tokens, last, history>>

\* revoke_family begins: the rows that are committed now.
RevokeBegins(r) ==
  LET family == tokens[req[r].token].family
  IN  /\ req[r].pc = "revoke"
      /\ req' = [req EXCEPT ![r] = [@ EXCEPT !.pc = "apply",
           !.sees = {t \in DOMAIN tokens : tokens[t].family = family /\ ~tokens[t].revoked}]]
      /\ UNCHANGED <<now, status, tokens, last, history>>

\* ... and ends when nobody holds one of them, its own new row included.
RevokeEnds(r) ==
  LET t == req[r].token
  IN  /\ req[r].pc = "apply"
      /\ \A x \in req[r].sees : ~Held(r, x)
      /\ req[r].rotated => last < MaxTokens
      /\ tokens' = IF req[r].rotated THEN revoked(Successor(r), req[r].sees \cup {last + 1})
                   ELSE revoked(tokens, req[r].sees)
      /\ last' = IF req[r].rotated THEN last + 1 ELSE last
      /\ endings' = endings \cup {<<tokens[t].family, req[r].live>>}
      /\ Finish(r)
      /\ UNCHANGED <<now, status, ends, granted>>

\* A request ends without committing: its process dies, or PostgreSQL breaks a
\* deadlock between two revocations.
RollBack(r) ==
  /\ req[r] # Idle
  /\ Finish(r)
  /\ UNCHANGED <<now, status, tokens, last, history>>

\* delete_expired_refresh_tokens.
Sweep ==
  LET gone == {t \in DOMAIN tokens : tokens[t].expires < now}
  IN  /\ gone # {} /\ \A t \in gone, r \in Requests : ~Holds(r, t)
      /\ tokens' = [t \in DOMAIN tokens \ gone |-> tokens[t]]
      /\ UNCHANGED <<now, status, last, req, history>>

\* set_user_status.
SetStatus(u) ==
  /\ status[u] # "none"
  /\ \E s \in {"ACTIVE", "DISABLED"} \ {status[u]} : status' = [status EXCEPT ![u] = s]
  /\ UNCHANGED <<now, tokens, last, req, history>>

Clock ==
  /\ now < MaxTime /\ now' = now + 1
  /\ UNCHANGED <<status, tokens, last, req, history>>

Next ==
  \/ \E u \in Users : start_family(u) \/ SetStatus(u)
  \/ \E r \in Requests :
       \/ Arrive(r) \/ Unknown(r) \/ Present(r) \/ Rotate(r) \/ RotateDisabled(r)
       \/ Logout(r) \/ RevokeBegins(r) \/ RevokeEnds(r) \/ RollBack(r)
  \/ Sweep \/ Clock

Spec == Init /\ [][Next]_vars
-----------------------------------------------------------------------------
Live(family) == {t \in DOMAIN tokens : tokens[t].family = family /\ live(tokens[t])}

\* A token is good for one use (refresh.py): however many requests present the
\* same or an older token at once, a sign-in has one live token at most.
OneLiveToken == \A f \in Ids : Cardinality(Live(f)) <= 1

\* A sign-in lasts a fixed time from the Google login (refresh.py): no request
\* that arrives after its end is given a new pair, however often it was rotated.
\* And a logout with the sign-in's current token, or the refresh of a disabled
\* account, ends it at once: no live token is left and none appears later, since
\* the rotations that wait find their token revoked.
SignInEnds ==
  /\ \A g \in granted : g[2] < ends[g[1]]
  /\ \A f \in Ids : <<f, TRUE>> \in endings => Live(f) = {}

\* auth.py, logout: "Ends this sign-in: its refresh tokens are revoked", stated
\* for every revocation of a family, with whichever of its tokens.
RevocationIsFinal == \A f \in Ids, b \in BOOLEAN : <<f, b>> \in endings => Live(f) = {}
=============================================================================
