------------------------------ MODULE Accounts ------------------------------
(***************************************************************************)
(* The accounts of the admin panel: their rows (server/db.py,              *)
(* server/db/schema.sql), the first admin's set-up, log-ins and the        *)
(* requests that save and delete accounts (server/admin_api.py,            *)
(* server/web_auth.py), and server/create_admin.py on the command line.    *)
(* A row that was deleted stays, without password, for the log of sessions.*)
(***************************************************************************)
EXTENDS Naturals

CONSTANTS
    Logins,   \* user names
    Browsers, \* what requests come from, one at a time
    NoName,
    MaxAsked  \* bounds the requests

ASSUME AccountsAssumption == NoName \notin Logins /\ MaxAsked \in Nat

Grantable == {"radio", "amplifier", "switch"}   \* user_radio_access, ...

VARIABLES
    adminHabits, \* "overlap": requests do not wait for each other; "stale": an
                 \* account that was deleted is saved again by an older page
    hash,        \* password_hash is set
    isAdmin, grants,
    cookie,      \* of each browser: the user and the rights at the log-in
    pending,     \* what each browser's request has still to do
    subject,     \* the account that request is about
    wish,        \* what the last request wanted of each account
    askedCount

accountRows == <<hash, isAdmin, grants>>
accountVars == <<adminHabits, accountRows, cookie, pending, subject, wish, askedCount>>

Row == [hash : BOOLEAN, admin : BOOLEAN, grants : SUBSET Grantable]
Gone == [hash |-> FALSE, admin |-> FALSE, grants |-> {}]

AccountsTypeOK ==
    /\ adminHabits \subseteq {"overlap", "stale"}
    /\ {hash, isAdmin} \subseteq [Logins -> BOOLEAN]
    /\ grants \in [Logins -> SUBSET Grantable]
    /\ cookie \in [Browsers -> [user : Logins \cup {NoName}, admin : BOOLEAN]]
    /\ pending \in [Browsers -> {"none", "setup", "clear", "radio", "amplifier", "switch"}]
    /\ subject \in [Browsers -> Logins \cup {NoName}]
    /\ wish \in [Logins -> Row]
    /\ askedCount \in 0..MaxAsked

NoCookie == [user |-> NoName, admin |-> FALSE]

AccountsInit ==
    /\ adminHabits \in SUBSET {"overlap", "stale"}
    /\ hash = [u \in Logins |-> FALSE] /\ isAdmin = [u \in Logins |-> FALSE]
    /\ grants = [u \in Logins |-> {}]
    /\ cookie = [b \in Browsers |-> NoCookie]
    /\ pending = [b \in Browsers |-> "none"] /\ subject = [b \in Browsers |-> NoName]
    /\ wish = [u \in Logins |-> Gone]
    /\ askedCount = 0

Ask(b) ==
    /\ pending[b] = "none"
    /\ "overlap" \in adminHabits \/ \A c \in Browsers : pending[c] = "none"
    /\ askedCount < MaxAsked /\ askedCount' = askedCount + 1

\* require_admin asks the cookie, not the row.
AsAdmin(b) == cookie[b].admin

HasAnyAdmin == \E u \in Logins : isAdmin[u]

-----------------------------------------------------------------------------
(* The first admin *)

\* setup, until has_any_admin has answered: where requests overlap two of them
\* may pass.
Setup(b, u) ==
    /\ Ask(b)
    /\ ~HasAnyAdmin
    /\ pending' = [pending EXCEPT ![b] = "setup"]
    /\ subject' = [subject EXCEPT ![b] = u]
    /\ UNCHANGED <<adminHabits, accountRows, cookie, wish>>

\* PostgresDb.create_user: grants are left alone.
CreateUser(u) ==
    /\ hash' = [hash EXCEPT ![u] = TRUE]
    /\ isAdmin' = [isAdmin EXCEPT ![u] = TRUE]
    /\ wish' = [wish EXCEPT ![u] = [hash |-> TRUE, admin |-> TRUE, grants |-> grants[u]]]
    /\ UNCHANGED grants

SetupCreates(b) ==
    /\ pending[b] = "setup"
    /\ CreateUser(subject[b])
    /\ pending' = [pending EXCEPT ![b] = "none"]
    /\ subject' = [subject EXCEPT ![b] = NoName]
    /\ UNCHANGED <<adminHabits, cookie, askedCount>>

\* create_admin.py
CreateAdmin(u) ==
    /\ "overlap" \in adminHabits \/ \A c \in Browsers : pending[c] = "none"
    /\ askedCount < MaxAsked /\ askedCount' = askedCount + 1
    /\ CreateUser(u)
    /\ UNCHANGED <<adminHabits, cookie, pending, subject>>

-----------------------------------------------------------------------------
(* Log-in *)

\* authenticate and create_session_cookie; nobody logs in without a password.
LogIn(b, u) ==
    /\ Ask(b)
    /\ hash[u]
    /\ cookie' = [cookie EXCEPT ![b] = [user |-> u, admin |-> isAdmin[u]]]
    /\ UNCHANGED <<adminHabits, accountRows, pending, subject, wish>>

\* logout, the end of the cookie's eight hours, or a restart of the server.
LogOff(b) ==
    /\ cookie[b] # NoCookie
    /\ cookie' = [cookie EXCEPT ![b] = NoCookie]
    /\ UNCHANGED <<adminHabits, accountRows, pending, subject, wish, askedCount>>

-----------------------------------------------------------------------------
(* Saving and deleting *)

\* Mutant: a save without password writes an empty one.
SaveUser_DropPassword(b, u, password, admin, given) ==
    /\ AsAdmin(b) /\ Ask(b)
    /\ password \/ hash[u] \/ "stale" \in adminHabits
    /\ hash' = [hash EXCEPT ![u] = password]
    /\ isAdmin' = [isAdmin EXCEPT ![u] = admin]
    /\ grants' = [grants EXCEPT ![u] = given]
    /\ wish' = [wish EXCEPT ![u] =
          [hash |-> password \/ hash[u], admin |-> admin, grants |-> given]]
    /\ UNCHANGED <<adminHabits, cookie, pending, subject>>

\* create_user and update_user: upsert_user is one transaction.  A PUT without
\* password keeps the password; it does not ask whether the account is there.
SaveUser(b, u, password, admin, given) ==
    /\ AsAdmin(b) /\ Ask(b)
    /\ password \/ hash[u] \/ "stale" \in adminHabits
    /\ hash' = [hash EXCEPT ![u] = password \/ @]
    /\ isAdmin' = [isAdmin EXCEPT ![u] = admin]
    /\ grants' = [grants EXCEPT ![u] = given]
    /\ wish' = [wish EXCEPT ![u] = [hash |-> hash'[u], admin |-> admin, grants |-> given]]
    /\ UNCHANGED <<adminHabits, cookie, pending, subject>>

\* delete_user: the row is looked up, ...
DeleteUser(b, u) ==
    /\ AsAdmin(b) /\ Ask(b)
    /\ wish' = [wish EXCEPT ![u] = Gone]
    /\ pending' = [pending EXCEPT ![b] = "clear"]
    /\ subject' = [subject EXCEPT ![b] = u]
    /\ UNCHANGED <<adminHabits, accountRows, cookie>>

\* Mutant: the rights stay.
Clear_PasswordOnly(b) ==
    /\ pending[b] = "clear"
    /\ hash' = [hash EXCEPT ![subject[b]] = FALSE]
    /\ pending' = [pending EXCEPT ![b] = "radio"]
    /\ UNCHANGED <<adminHabits, isAdmin, grants, cookie, subject, wish, askedCount>>

\* ... its password and rights are cleared, ...
Clear(b) ==
    /\ pending[b] = "clear"
    /\ hash' = [hash EXCEPT ![subject[b]] = FALSE]
    /\ isAdmin' = [isAdmin EXCEPT ![subject[b]] = FALSE]
    /\ pending' = [pending EXCEPT ![b] = "radio"]
    /\ UNCHANGED <<adminHabits, grants, cookie, subject, wish, askedCount>>

NextDelete == [radio |-> "amplifier", amplifier |-> "switch", switch |-> "none"]

\* Mutant: the antenna switches were added later, and forgotten here.
Revoke_NoSwitch(b) ==
    /\ pending[b] \in Grantable
    /\ grants' = [grants EXCEPT ![subject[b]] = @ \ ({pending[b]} \ {"switch"})]
    /\ pending' = [pending EXCEPT ![b] = NextDelete[@]]
    /\ subject' = [subject EXCEPT ![b] = IF pending'[b] = "none" THEN NoName ELSE @]
    /\ UNCHANGED <<adminHabits, hash, isAdmin, cookie, wish, askedCount>>

\* Mutant: the account is forgotten after the first table.
Revoke_Forget(b) ==
    /\ pending[b] \in Grantable
    /\ grants' = [grants EXCEPT ![subject[b]] = @ \ {pending[b]}]
    /\ pending' = [pending EXCEPT ![b] = "done"]
    /\ subject' = [subject EXCEPT ![b] = NoName]
    /\ UNCHANGED <<adminHabits, hash, isAdmin, cookie, wish, askedCount>>

\* ... and its grants are deleted, table by table; each statement commits.
Revoke(b) ==
    /\ pending[b] \in Grantable
    /\ grants' = [grants EXCEPT ![subject[b]] = @ \ {pending[b]}]
    /\ pending' = [pending EXCEPT ![b] = NextDelete[@]]
    /\ subject' = [subject EXCEPT ![b] = IF pending'[b] = "none" THEN NoName ELSE @]
    /\ UNCHANGED <<adminHabits, hash, isAdmin, cookie, wish, askedCount>>

AccountsNext ==
    \/ \E b \in Browsers :
        \/ SetupCreates(b) \/ LogOff(b) \/ Clear(b) \/ Revoke(b)
        \/ \E u \in Logins : Setup(b, u) \/ LogIn(b, u) \/ DeleteUser(b, u)
        \/ \E u \in Logins, password, admin \in BOOLEAN, given \in {{}, Grantable} :
              SaveUser(b, u, password, admin, given)
    \/ \E u \in Logins : CreateAdmin(u)

AccountsSpec == AccountsInit /\ [][AccountsNext]_accountVars

-----------------------------------------------------------------------------
(* Properties *)

\* An admin in the table is one who can log in, so needs_setup never hides the
\* set-up page from an installation nobody can get into: deleting clears both
\* in one statement, and only an older page saves an account without password.
AdminsCanLogIn ==
    "stale" \notin adminHabits => \A u \in Logins : isAdmin[u] => hash[u]

\* A deleted account keeps no grants, although they are deleted one table at a
\* time while other requests go on: an account made again starts from nothing.
DeletedHasNothing ==
    "stale" \notin adminHabits =>
        \A u \in Logins : hash[u] \/ grants[u] = {} \/ \E b \in Browsers : subject[b] = u

\* When requests take turns an account is as the last of them wanted it; the
\* deletes of an overlapping request may take grants that were just given.
LastWishHolds ==
    "overlap" \notin adminHabits =>
        \A u \in Logins :
            (\A b \in Browsers : pending[b] = "none") =>
                [hash |-> hash[u], admin |-> isAdmin[u], grants |-> grants[u]] = wish[u]

\* The rows are what the admins asked for, none of them half an account.
AccountsInOrder == AdminsCanLogIn /\ DeletedHasNothing /\ LastWishHolds
=============================================================================
