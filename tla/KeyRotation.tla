----------------------------- MODULE KeyRotation -----------------------------
(***************************************************************************)
(* A user's Kraken credentials, sealed under a master key, and the         *)
(* rotation of that key: core/rotation.py, core/crypto.py, core/db/users   *)
(* .py, api/routes/credentials.py, scripts/rotate_master_key.py, in the    *)
(* order of the runbook (docs/operations.md, 7).                           *)
(*                                                                         *)
(* A registration reads the record without a lock and writes it at the end *)
(* of its transaction; the ORM writes the columns whose value differs from *)
(* the one it read.  The script locks each record that it seals again.  A  *)
(* restart of the platform rolls back the requests under way.              *)
(***************************************************************************)
EXTENDS Naturals

CONSTANTS
  Users, Requests,
  Credentials,  \* pairs of API key and secret that a user may register
  None,         \* no record
  MaxVersion    \* bound: master keys

VARIABLES
  records,    \* user_credentials: each user's record, or None
  cipher,     \* CREDENTIAL_KEYS and CREDENTIAL_KEY_VERSION of the platform
  req,        \* a registration under way in each request, or None
  script,     \* the rotation script: owners left, the record locked and read
  checked,    \* `--check` has said that nothing is left under another key
  registered  \* history: each user's last registration that committed

vars == <<records, cipher, req, script, checked, registered>>

Versions == 1..MaxVersion

\* Ciphertext and nonce are one value: what was sealed, and under which key.
Sealed == [credentials : Credentials, under : Versions]
Records == [sealed : Sealed, key_version : Versions]
NoRecord == None
Idle == None
Registrations == [user : Users, sealed : Sealed, read : Records \cup {NoRecord}]
Script == [left : SUBSET Users, locked : Users \cup {None}, read : Records \cup {NoRecord}]
NoScript == [left |-> {}, locked |-> None, read |-> NoRecord]

KeyRotationConstants ==
  MaxVersion \in Nat \ {0} /\ None \notin Users \cup Records \cup Registrations

TypeOK ==
  /\ records \in [Users -> Records \cup {NoRecord}]
  /\ cipher \in [keys : SUBSET Versions, active : Versions]
  /\ req \in [Requests -> Registrations \cup {Idle}]
  /\ script \in Script
  /\ checked \in BOOLEAN
  /\ registered \in [Users -> Credentials \cup {None}]

Init ==
  /\ records = [u \in Users |-> NoRecord]
  /\ cipher = [keys |-> {1}, active |-> 1]
  /\ req = [r \in Requests |-> Idle]
  /\ script = NoScript
  /\ checked = FALSE
  /\ registered = [u \in Users |-> None]
-----------------------------------------------------------------------------
seal(credentials) == [credentials |-> credentials, under |-> cipher.active]

\* The record opens: its version is one of the keys, and the one it was sealed with.
unseals(record) == record.key_version \in cipher.keys /\ record.key_version = record.sealed.under

\* Mutant of Locked: the script reads the row without FOR UPDATE.
LockedNever(u) == FALSE

\* The row is locked by the script's transaction.
Locked(u) == script.locked = u

\* register: the key was validated and sealed, and the record is read.  A key
\* that validate_key refuses is not stored.
Register(r) ==
  /\ req[r] = Idle
  /\ \E u \in Users, c \in Credentials :
       req' = [req EXCEPT ![r] = [user |-> u, sealed |-> seal(c), read |-> records[u]]]
  /\ UNCHANGED <<records, cipher, script, checked, registered>>

\* What save_credentials writes over the row: the columns that it changed.
Written(row, read, sealed) ==
  [sealed |-> sealed,
   key_version |-> IF read # NoRecord /\ read.key_version = sealed.under THEN row.key_version
                   ELSE sealed.under]

\* save_credentials commits.  An insert of a row that exists by now, or an
\* update of one that is gone, fails and the request with it.
Save(r) ==
  LET u == req[r].user
  IN  /\ req[r] # Idle /\ ~Locked(u)
      /\ req' = [req EXCEPT ![r] = Idle]
      /\ IF (req[r].read = NoRecord) = (records[u] = NoRecord)
         THEN /\ records' = [records EXCEPT ![u] = Written(@, req[r].read, req[r].sealed)]
              /\ registered' = [registered EXCEPT ![u] = req[r].sealed.credentials]
         ELSE UNCHANGED <<records, registered>>
      /\ UNCHANGED <<cipher, script, checked>>

\* remove.
Remove(u) ==
  /\ records[u] # NoRecord /\ ~Locked(u)
  /\ records' = [records EXCEPT ![u] = NoRecord]
  /\ registered' = [registered EXCEPT ![u] = None]
  /\ UNCHANGED <<cipher, req, script, checked>>
-----------------------------------------------------------------------------
credential_owners_not_at(version) ==
  {u \in Users : records[u] # NoRecord /\ records[u].key_version # version}

\* rotate: the owners are listed, then handled one by one.
RotateBegins ==
  /\ script = NoScript
  /\ credential_owners_not_at(cipher.active) # {}
  /\ script' = [script EXCEPT !.left = credential_owners_not_at(cipher.active)]
  /\ UNCHANGED <<records, cipher, req, checked, registered>>

\* reseal finds the record sealed under an older key, and locks it.
Stale(record) ==
  record # NoRecord /\ record.key_version # cipher.active /\ unseals(record)

ResealBegins(u) ==
  /\ u \in script.left /\ script.locked = None
  /\ Stale(records[u])
  /\ script' = [left |-> script.left \ {u}, locked |-> u, read |-> records[u]]
  /\ UNCHANGED <<records, cipher, req, checked, registered>>

\* GONE, CURRENT or UNREADABLE: the record is left exactly as it was.
ResealSkips(u) ==
  /\ u \in script.left /\ script.locked = None
  /\ ~Stale(records[u])
  /\ script' = [script EXCEPT !.left = @ \ {u}]
  /\ UNCHANGED <<records, cipher, req, checked, registered>>

\* RESEALED: the credentials that were read, under the active key.
ResealEnds ==
  /\ script.locked # None
  /\ records' = [records EXCEPT ![script.locked] =
       [sealed |-> seal(script.read.sealed.credentials), key_version |-> cipher.active]]
  /\ script' = [script EXCEPT !.locked = None, !.read = NoRecord]
  /\ UNCHANGED <<cipher, req, checked, registered>>

\* The script dies; the record it had locked is as it was.
ScriptDies ==
  /\ script # NoScript
  /\ script' = NoScript
  /\ UNCHANGED <<records, cipher, req, checked, registered>>

\* `--check`.
Check ==
  /\ ~checked
  /\ credential_owners_not_at(cipher.active) = {}
  /\ checked' = TRUE
  /\ UNCHANGED <<records, cipher, req, script, registered>>

\* Mutant of InFlight: requests of the old platform go on.
InFlightGoesOn == req

\* A restart ends the requests of the old platform.
InFlight == [r \in Requests |-> Idle]

\* Runbook, steps 2 and 3: a new key is added and made active.
AddKey ==
  /\ cipher.keys = {cipher.active} /\ cipher.active < MaxVersion /\ script = NoScript
  /\ cipher' = [keys |-> cipher.keys \cup {cipher.active + 1}, active |-> cipher.active + 1]
  /\ req' = InFlight
  /\ checked' = FALSE
  /\ UNCHANGED <<records, script, registered>>

\* Runbook, step 6: after the check the old key is removed.
RemoveKey ==
  /\ checked /\ cipher.keys # {cipher.active}
  /\ script = NoScript
  /\ cipher' = [cipher EXCEPT !.keys = {cipher.active}]
  /\ req' = InFlight
  /\ checked' = FALSE
  /\ UNCHANGED <<records, script, registered>>

Next ==
  \/ \E r \in Requests : Register(r) \/ Save(r)
  \/ \E u \in Users : Remove(u) \/ ResealBegins(u) \/ ResealSkips(u)
  \/ RotateBegins \/ ResealEnds \/ ScriptDies \/ Check \/ AddKey \/ RemoveKey

Spec == Init /\ [][Next]_vars
-----------------------------------------------------------------------------
\* rotation.py: every record opens with the keys the platform holds, while keys
\* are added, records sealed again, and old keys removed after the check.
EveryRecordOpens == \A u \in Users : records[u] # NoRecord => unseals(records[u])

\* rotation.py: a user who registers a key meanwhile is neither lost nor
\* overwritten: what a record holds is the last registration that succeeded.
LastRegistrationStands ==
  \A u \in Users :
    IF records[u] = NoRecord THEN registered[u] = None
    ELSE records[u].sealed.credentials = registered[u]
=============================================================================
