---------------------------- MODULE AdminProofs -----------------------------
(***************************************************************************)
(* Proofs about accounts, the port plan and the serial sniffer, for any    *)
(* accounts, browsers, radios, ranges and programs.                        *)
(***************************************************************************)
EXTENDS Accounts, PortPlan, Sniffer, SequenceLemmas

-----------------------------------------------------------------------------
(* Types *)

\* Every account, cookie and request is of its type; a request that is under
\* way is about some account.
Listed ==
    /\ AccountsTypeOK
    /\ \A b \in Browsers : pending[b] # "none" => subject[b] \in Logins

LEMMA ListedStep == Listed /\ [AccountsNext]_accountVars => Listed'
<1> SUFFICES ASSUME Listed, [AccountsNext]_accountVars
             PROVE  Listed'
  OBVIOUS
<1>. USE AccountsAssumption
     DEF Listed, AccountsTypeOK, accountRows, Ask
<1>0. /\ NoCookie \in [user : Logins \cup {NoName}, admin : BOOLEAN]
      /\ Gone \in Row
      /\ \A u \in Logins, admin \in BOOLEAN :
            [user |-> u, admin |-> admin] \in [user : Logins \cup {NoName}, admin : BOOLEAN]
      /\ \A password, admin \in BOOLEAN, given \in SUBSET Grantable :
            [hash |-> password, admin |-> admin, grants |-> given] \in Row
  BY DEF NoCookie, Gone, Row
<1>1. ASSUME NEW b \in Browsers, LogOff(b) \/ Clear(b)
      PROVE  Listed'
  <2>1. CASE LogOff(b)
    <3>1. cookie' \in [Browsers -> [user : Logins \cup {NoName}, admin : BOOLEAN]]
      BY <1>0, <2>1 DEF LogOff
    <3>. QED  BY <2>1, <3>1 DEF LogOff
  <2>2. CASE Clear(b)
    BY <2>2 DEF Clear
  <2>. QED  BY <1>1, <2>1, <2>2
<1>2. ASSUME NEW b \in Browsers, SetupCreates(b)
      PROVE  Listed'
  <2>. DEFINE u == subject[b]
  <2>1. u \in Logins
    BY <1>2 DEF SetupCreates
  <2>2. /\ hash' = [hash EXCEPT ![u] = TRUE] /\ isAdmin' = [isAdmin EXCEPT ![u] = TRUE]
        /\ wish' = [wish EXCEPT ![u] = [hash |-> TRUE, admin |-> TRUE, grants |-> grants[u]]]
        /\ UNCHANGED grants
    BY <1>2 DEF SetupCreates, CreateUser
  <2>3. [hash |-> TRUE, admin |-> TRUE, grants |-> grants[u]] \in Row
    BY <1>0, <2>1
  <2>4. wish' \in [Logins -> Row]
    BY <2>1, <2>2, <2>3
  <2>. QED  BY <1>2, <2>1, <2>2, <2>4 DEF SetupCreates
<1>3. ASSUME NEW b \in Browsers, Revoke(b)
      PROVE  Listed'
  <2>1. pending[b] \in Grantable /\ NextDelete[pending[b]] \in {"amplifier", "switch", "none"}
    BY <1>3 DEF Revoke, Grantable, NextDelete
  <2>2. /\ pending' = [pending EXCEPT ![b] = NextDelete[pending[b]]]
        /\ pending'[b] = NextDelete[pending[b]]
        /\ subject' = [subject EXCEPT ![b] = IF pending'[b] = "none" THEN NoName ELSE subject[b]]
    BY <1>3 DEF Revoke
  <2>3. grants' \in [Logins -> SUBSET Grantable] /\ subject[b] \in Logins
    <3>1. subject[b] \in Logins
      BY <2>1 DEF Grantable
    <3>. QED  BY <1>3, <3>1 DEF Revoke
  <2>4. UNCHANGED <<adminHabits, hash, isAdmin, cookie, wish, askedCount>>
    BY <1>3 DEF Revoke
  <2>5. /\ pending' \in [Browsers -> {"none", "setup", "clear", "radio", "amplifier", "switch"}]
        /\ subject' \in [Browsers -> Logins \cup {NoName}]
    BY <2>1, <2>2, <2>3
  <2>6. ASSUME NEW c \in Browsers, pending'[c] # "none"
        PROVE  subject'[c] \in Logins
    BY <2>2, <2>3, <2>6
  <2>. QED  BY <2>3, <2>4, <2>5, <2>6
<1>4. ASSUME NEW b \in Browsers, NEW u \in Logins, Setup(b, u) \/ LogIn(b, u)
      PROVE  Listed'
  <2>1. CASE Setup(b, u)
    BY <2>1 DEF Setup
  <2>2. CASE LogIn(b, u)
    <3>1. isAdmin[u] \in BOOLEAN
      OBVIOUS
    <3>. QED  BY <1>0, <2>2, <3>1 DEF LogIn
  <2>. QED  BY <1>4, <2>1, <2>2
<1>5. ASSUME NEW b \in Browsers, NEW u \in Logins, DeleteUser(b, u)
      PROVE  Listed'
  BY <1>0, <1>5 DEF DeleteUser
<1>6. ASSUME NEW b \in Browsers, NEW u \in Logins, NEW password \in BOOLEAN,
             NEW admin \in BOOLEAN, NEW given \in {{}, Grantable},
             SaveUser(b, u, password, admin, given)
      PROVE  Listed'
  <2>1. /\ hash' = [hash EXCEPT ![u] = password \/ hash[u]]
        /\ hash'[u] \in BOOLEAN
        /\ given \in SUBSET Grantable
        /\ wish' = [wish EXCEPT ![u] = [hash |-> hash'[u], admin |-> admin, grants |-> given]]
    BY <1>6 DEF SaveUser
  <2>2. [hash |-> hash'[u], admin |-> admin, grants |-> given] \in Row
    BY <1>0, <2>1
  <2>3. wish' \in [Logins -> Row] /\ hash' \in [Logins -> BOOLEAN]
    BY <2>1, <2>2
  <2>. QED  BY <1>6, <2>1, <2>3 DEF SaveUser
<1>7. ASSUME NEW u \in Logins, CreateAdmin(u)
      PROVE  Listed'
  <2>1. /\ hash' = [hash EXCEPT ![u] = TRUE] /\ isAdmin' = [isAdmin EXCEPT ![u] = TRUE]
        /\ wish' = [wish EXCEPT ![u] = [hash |-> TRUE, admin |-> TRUE, grants |-> grants[u]]]
        /\ UNCHANGED grants
    BY <1>7 DEF CreateAdmin, CreateUser
  <2>2. [hash |-> TRUE, admin |-> TRUE, grants |-> grants[u]] \in Row
    BY <1>0
  <2>3. wish' \in [Logins -> Row]
    BY <2>1, <2>2
  <2>. QED  BY <1>7, <2>1, <2>3 DEF CreateAdmin
<1>8. CASE UNCHANGED accountVars
  BY <1>8 DEF accountVars
<1>. QED  BY <1>1, <1>2, <1>3, <1>4, <1>5, <1>6, <1>7, <1>8 DEF AccountsNext

\* Rows, cookies and requests are always of their type.
THEOREM AccountsTypeCorrect == AccountsSpec => []AccountsTypeOK
<1>1. AccountsInit => Listed
  BY AccountsAssumption DEF AccountsInit, Listed, AccountsTypeOK, Row, Gone, NoCookie
<1>. QED  BY <1>1, ListedStep, PTL DEF AccountsSpec, Listed

LEMMA HabitsStay == [AccountsNext]_accountVars => adminHabits' = adminHabits
<1>1. ASSUME NEW b \in Browsers
      PROVE  SetupCreates(b) \/ LogOff(b) \/ Clear(b) \/ Revoke(b) => adminHabits' = adminHabits
  BY DEF SetupCreates, LogOff, Clear, Revoke
<1>2. ASSUME NEW b \in Browsers, NEW u \in Logins
      PROVE  Setup(b, u) \/ LogIn(b, u) \/ DeleteUser(b, u) => adminHabits' = adminHabits
  BY DEF Setup, LogIn, DeleteUser
<1>3. ASSUME NEW b \in Browsers, NEW u \in Logins, NEW password \in BOOLEAN,
             NEW admin \in BOOLEAN, NEW given \in {{}, Grantable}
      PROVE  SaveUser(b, u, password, admin, given) => adminHabits' = adminHabits
  BY DEF SaveUser
<1>4. ASSUME NEW u \in Logins
      PROVE  CreateAdmin(u) => adminHabits' = adminHabits
  BY DEF CreateAdmin
<1>. QED  BY <1>1, <1>2, <1>3, <1>4 DEF AccountsNext, accountVars

-----------------------------------------------------------------------------
(* Admins *)

\* An admin in the table can log in.  It is inductive: without older pages every
\* save leaves a password behind, and Clear takes password and rights together.
THEOREM AdminsCanAlwaysLogIn == AccountsSpec => []AdminsCanLogIn
<1>1. AccountsInit => AdminsCanLogIn
  BY DEF AccountsInit, AdminsCanLogIn
<1>2. Listed /\ AdminsCanLogIn /\ [AccountsNext]_accountVars => AdminsCanLogIn'
  <2> SUFFICES ASSUME Listed, AdminsCanLogIn, [AccountsNext]_accountVars
               PROVE  AdminsCanLogIn'
    OBVIOUS
  <2>. USE DEF Listed, AccountsTypeOK, AdminsCanLogIn, accountRows
  <2>1. ASSUME NEW b \in Browsers, LogOff(b) \/ Revoke(b) \/ Clear(b)
        PROVE  AdminsCanLogIn'
    BY <2>1 DEF LogOff, Revoke, Clear
  <2>2. ASSUME NEW b \in Browsers, SetupCreates(b)
        PROVE  AdminsCanLogIn'
    BY <2>2 DEF SetupCreates, CreateUser
  <2>3. ASSUME NEW b \in Browsers, NEW u \in Logins,
               Setup(b, u) \/ LogIn(b, u) \/ DeleteUser(b, u)
        PROVE  AdminsCanLogIn'
    BY <2>3 DEF Setup, LogIn, DeleteUser, Ask
  <2>4. ASSUME NEW b \in Browsers, NEW u \in Logins, NEW password \in BOOLEAN,
               NEW admin \in BOOLEAN, NEW given \in {{}, Grantable},
               SaveUser(b, u, password, admin, given)
        PROVE  AdminsCanLogIn'
    BY <2>4 DEF SaveUser
  <2>5. ASSUME NEW u \in Logins, CreateAdmin(u)
        PROVE  AdminsCanLogIn'
    BY <2>5 DEF CreateAdmin, CreateUser
  <2>6. CASE UNCHANGED accountVars
    BY <2>6 DEF accountVars
  <2>. QED  BY <2>1, <2>2, <2>3, <2>4, <2>5, <2>6 DEF AccountsNext
<1>3. AccountsInit => Listed
  BY AccountsAssumption DEF AccountsInit, Listed, AccountsTypeOK, Row, Gone, NoCookie
<1>. QED  BY <1>1, <1>2, <1>3, ListedStep, PTL DEF AccountsSpec

-----------------------------------------------------------------------------
(* Deleting table by table *)

\* The grants that a request has still to delete.
LeftToTake(stage) ==
    CASE stage \in {"clear", "radio"} -> Grantable
      [] stage = "amplifier"          -> {"amplifier", "switch"}
      [] stage = "switch"             -> {"switch"}
      [] OTHER                        -> {}

\* Whatever an account without password still has is on some delete's list.
Swept ==
    "stale" \notin adminHabits =>
        \A u \in Logins :
            hash[u] \/ grants[u] = {}
                    \/ \E b \in Browsers : subject[b] = u /\ grants[u] \subseteq LeftToTake(pending[b])

LEMMA SweptStep == Listed /\ Swept /\ [AccountsNext]_accountVars => Swept'
<1> SUFFICES ASSUME Listed, Swept, [AccountsNext]_accountVars, "stale" \notin adminHabits,
                    NEW u \in Logins, ~hash'[u], grants'[u] # {}
             PROVE  \E b \in Browsers : subject'[b] = u /\ grants'[u] \subseteq LeftToTake(pending'[b])
  BY HabitsStay DEF Swept
<1>. USE DEF Listed, AccountsTypeOK, accountRows
<1>a. ASSUME ~hash[u], grants[u] # {}
      PROVE  \E b \in Browsers : subject[b] = u /\ grants[u] \subseteq LeftToTake(pending[b])
  BY <1>a DEF Swept
<1>b. LeftToTake("none") = {} /\ LeftToTake("setup") = {}
  BY DEF LeftToTake
<1>1. ASSUME NEW b \in Browsers, LogOff(b)
      PROVE  \E c \in Browsers : subject'[c] = u /\ grants'[u] \subseteq LeftToTake(pending'[c])
  BY <1>1, <1>a DEF LogOff
<1>2. ASSUME NEW b \in Browsers, NEW v \in Logins,
             Setup(b, v) \/ LogIn(b, v) \/ DeleteUser(b, v)
      PROVE  \E c \in Browsers : subject'[c] = u /\ grants'[u] \subseteq LeftToTake(pending'[c])
  <2>1. PICK c \in Browsers : subject[c] = u /\ grants[u] \subseteq LeftToTake(pending[c])
    BY <1>2, <1>a DEF Setup, LogIn, DeleteUser
  <2>2. grants' = grants /\ pending[b] = "none"
    BY <1>2 DEF Setup, LogIn, DeleteUser, Ask
  <2>3. c # b
    BY <1>b, <2>1, <2>2
  <2>4. subject'[c] = subject[c] /\ pending'[c] = pending[c]
    BY <1>2, <2>3 DEF Setup, LogIn, DeleteUser
  <2>. QED  BY <2>1, <2>2, <2>4
<1>3. ASSUME NEW b \in Browsers, SetupCreates(b)
      PROVE  \E c \in Browsers : subject'[c] = u /\ grants'[u] \subseteq LeftToTake(pending'[c])
  <2>1. u # subject[b] /\ ~hash[u] /\ grants' = grants
    BY <1>3 DEF SetupCreates, CreateUser
  <2>2. PICK c \in Browsers : subject[c] = u /\ grants[u] \subseteq LeftToTake(pending[c])
    BY <2>1, <1>a
  <2>3. subject'[c] = subject[c] /\ pending'[c] = pending[c]
    BY <1>3, <2>1, <2>2 DEF SetupCreates
  <2>. QED  BY <2>1, <2>2, <2>3
<1>4. ASSUME NEW v \in Logins, CreateAdmin(v)
      PROVE  \E c \in Browsers : subject'[c] = u /\ grants'[u] \subseteq LeftToTake(pending'[c])
  <2>1. ~hash[u] /\ grants' = grants
    BY <1>4 DEF CreateAdmin, CreateUser
  <2>. QED  BY <1>4, <2>1, <1>a DEF CreateAdmin
<1>5. ASSUME NEW b \in Browsers, NEW v \in Logins, NEW password \in BOOLEAN,
             NEW admin \in BOOLEAN, NEW given \in {{}, Grantable},
             SaveUser(b, v, password, admin, given)
      PROVE  \E c \in Browsers : subject'[c] = u /\ grants'[u] \subseteq LeftToTake(pending'[c])
  <2>1. u # v /\ ~hash[u] /\ grants'[u] = grants[u]
    BY <1>5 DEF SaveUser
  <2>. QED  BY <1>5, <2>1, <1>a DEF SaveUser
<1>6. ASSUME NEW b \in Browsers, Clear(b)
      PROVE  \E c \in Browsers : subject'[c] = u /\ grants'[u] \subseteq LeftToTake(pending'[c])
  <2>1. grants'[u] = grants[u] /\ subject' = subject /\ pending' = [pending EXCEPT ![b] = "radio"]
    BY <1>6 DEF Clear
  <2>2. CASE subject[b] = u
    <3>1. grants[u] \subseteq LeftToTake("radio")
      BY DEF LeftToTake
    <3>. QED  BY <2>1, <2>2, <3>1
  <2>3. CASE subject[b] # u
    <3>1. ~hash[u]
      BY <1>6, <2>3 DEF Clear
    <3>. QED  BY <2>1, <2>3, <3>1, <1>a
  <2>. QED  BY <2>2, <2>3
<1>7. ASSUME NEW b \in Browsers, Revoke(b)
      PROVE  \E c \in Browsers : subject'[c] = u /\ grants'[u] \subseteq LeftToTake(pending'[c])
  <2>1. /\ pending[b] \in Grantable /\ subject[b] \in Logins /\ hash' = hash
        /\ pending' = [pending EXCEPT ![b] = NextDelete[pending[b]]]
        /\ pending'[b] = NextDelete[pending[b]]
        /\ grants' = [grants EXCEPT ![subject[b]] = grants[subject[b]] \ {pending[b]}]
        /\ subject' = [subject EXCEPT ![b] = IF pending'[b] = "none" THEN NoName ELSE subject[b]]
    BY <1>7 DEF Revoke, Grantable
  <2>2. grants'[u] \subseteq grants[u]
    BY <2>1
  <2>3. PICK c \in Browsers : subject[c] = u /\ grants[u] \subseteq LeftToTake(pending[c])
    BY <2>1, <2>2, <1>a
  <2>4. CASE c # b
    BY <2>1, <2>2, <2>3, <2>4
  <2>5. CASE c = b
    <3>1. grants'[u] \subseteq LeftToTake(pending[b]) \ {pending[b]}
      BY <2>1, <2>3, <2>5
    <3>2. LeftToTake(pending[b]) \ {pending[b]} \subseteq LeftToTake(NextDelete[pending[b]])
      BY <2>1 DEF LeftToTake, Grantable, NextDelete
    <3>3. NextDelete[pending[b]] # "none"
      BY <3>1, <3>2, <1>b
    <3>. QED  BY <2>1, <2>3, <2>5, <3>1, <3>2, <3>3
  <2>. QED  BY <2>4, <2>5
<1>8. CASE UNCHANGED accountVars
  BY <1>8, <1>a DEF accountVars
<1>. QED  BY <1>1, <1>2, <1>3, <1>4, <1>5, <1>6, <1>7, <1>8 DEF AccountsNext

\* A deleted account keeps no grants.
THEOREM DeletedAlwaysHasNothing == AccountsSpec => []DeletedHasNothing
<1>1. AccountsInit => Swept
  BY DEF AccountsInit, Swept
<1>2. AccountsInit => Listed
  BY AccountsAssumption DEF AccountsInit, Listed, AccountsTypeOK, Row, Gone, NoCookie
<1>3. Swept => DeletedHasNothing
  BY DEF Swept, DeletedHasNothing
<1>. QED  BY <1>1, <1>2, <1>3, ListedStep, SweptStep, PTL DEF AccountsSpec

-----------------------------------------------------------------------------
(* Requests that take turns *)

AsWished(u) == [hash |-> hash[u], admin |-> isAdmin[u], grants |-> grants[u]] = wish[u]

Deletes(b) == pending[b] \notin {"none", "setup"}

\* One request at a time; what a delete has still to take is all that its account
\* has left; every other account is as it was wished.
InTurn ==
    /\ \A b, c \in Browsers : pending[b] # "none" /\ pending[c] # "none" => b = c
    /\ \A b \in Browsers : Deletes(b) =>
          /\ wish[subject[b]] = Gone
          /\ pending[b] \in Grantable =>
                /\ ~hash[subject[b]] /\ ~isAdmin[subject[b]]
                /\ grants[subject[b]] \subseteq LeftToTake(pending[b])
    /\ \A u \in Logins : (\A b \in Browsers : Deletes(b) => subject[b] # u) => AsWished(u)

\* What starts a request starts it alone.
LEMMA NobodyElse ==
    ASSUME Listed, InTurn, \A c \in Browsers : pending[c] = "none"
    PROVE  \A u \in Logins : AsWished(u)
  BY DEF InTurn, Deletes

LEMMA InTurnStep ==
    Listed /\ "overlap" \notin adminHabits /\ InTurn /\ [AccountsNext]_accountVars => InTurn'
<1> SUFFICES ASSUME Listed, "overlap" \notin adminHabits, InTurn, [AccountsNext]_accountVars
             PROVE  InTurn'
  OBVIOUS
<1>. USE DEF Listed, AccountsTypeOK, accountRows
<1>1. ASSUME NEW b \in Browsers, LogOff(b)
      PROVE  InTurn'
  BY <1>1 DEF LogOff, InTurn, Deletes, AsWished
<1>2. ASSUME NEW b \in Browsers, SetupCreates(b)
      PROVE  InTurn'
  <2>. DEFINE v == subject[b]
  <2>1. /\ pending[b] = "setup" /\ v \in Logins
        /\ pending' = [pending EXCEPT ![b] = "none"]
        /\ hash' = [hash EXCEPT ![v] = TRUE] /\ isAdmin' = [isAdmin EXCEPT ![v] = TRUE]
        /\ wish' = [wish EXCEPT ![v] = [hash |-> TRUE, admin |-> TRUE, grants |-> grants[v]]]
        /\ UNCHANGED grants
    BY <1>2 DEF SetupCreates, CreateUser
  <2>2. \A c \in Browsers : pending'[c] = "none"
    BY <2>1 DEF InTurn
  <2>3. \A c \in Browsers : ~Deletes(c)
    BY <2>1 DEF InTurn, Deletes
  <2>4. \A u \in Logins : AsWished(u)
    BY <2>3 DEF InTurn
  <2>5. ASSUME NEW u \in Logins
        PROVE  AsWished(u)'
    <3>1. CASE u = v
      BY <2>1, <3>1 DEF AsWished
    <3>2. CASE u # v
      BY <2>1, <2>4, <3>2 DEF AsWished
    <3>. QED  BY <3>1, <3>2
  <2>. QED  BY <2>2, <2>5 DEF InTurn, Deletes
<1>3. ASSUME NEW v \in Logins, CreateAdmin(v)
      PROVE  InTurn'
  <2>1. /\ \A c \in Browsers : pending[c] = "none"
        /\ hash' = [hash EXCEPT ![v] = TRUE] /\ isAdmin' = [isAdmin EXCEPT ![v] = TRUE]
        /\ wish' = [wish EXCEPT ![v] = [hash |-> TRUE, admin |-> TRUE, grants |-> grants[v]]]
        /\ UNCHANGED <<grants, pending>>
    BY <1>3 DEF CreateAdmin, CreateUser
  <2>2. ASSUME NEW u \in Logins
        PROVE  AsWished(u)'
    <3>1. AsWished(u)
      BY <2>1, NobodyElse
    <3>2. CASE u = v
      BY <2>1, <3>2 DEF AsWished
    <3>3. CASE u # v
      BY <2>1, <3>1, <3>3 DEF AsWished
    <3>. QED  BY <3>2, <3>3
  <2>. QED  BY <2>1, <2>2 DEF InTurn, Deletes
<1>4. ASSUME NEW b \in Browsers, NEW v \in Logins, Setup(b, v)
      PROVE  InTurn'
  <2>1. /\ \A c \in Browsers : pending[c] = "none"
        /\ pending' = [pending EXCEPT ![b] = "setup"]
        /\ UNCHANGED <<hash, isAdmin, grants, wish>>
    BY <1>4 DEF Setup, Ask
  <2>2. \A u \in Logins : AsWished(u)'
    BY <2>1, NobodyElse DEF AsWished
  <2>. QED  BY <2>1, <2>2 DEF InTurn, Deletes
<1>5. ASSUME NEW b \in Browsers, NEW v \in Logins, LogIn(b, v)
      PROVE  InTurn'
  BY <1>5 DEF LogIn, InTurn, Deletes, AsWished
<1>6. ASSUME NEW b \in Browsers, NEW v \in Logins, DeleteUser(b, v)
      PROVE  InTurn'
  <2>1. /\ \A c \in Browsers : pending[c] = "none"
        /\ pending' = [pending EXCEPT ![b] = "clear"]
        /\ subject' = [subject EXCEPT ![b] = v]
        /\ wish' = [wish EXCEPT ![v] = Gone]
        /\ UNCHANGED <<hash, isAdmin, grants>>
    BY <1>6 DEF DeleteUser, Ask
  <2>2. ASSUME NEW u \in Logins, u # v
        PROVE  AsWished(u)'
    BY <2>1, <2>2, NobodyElse DEF AsWished
  <2>3. Deletes(b)' /\ subject'[b] = v /\ wish'[v] = Gone /\ pending'[b] \notin Grantable
    BY <2>1 DEF Deletes, Grantable
  <2>4. \A c \in Browsers : c # b => pending'[c] = "none"
    BY <2>1
  <2>. QED  BY <2>2, <2>3, <2>4 DEF InTurn, Deletes
<1>7. ASSUME NEW b \in Browsers, NEW v \in Logins, NEW password \in BOOLEAN,
             NEW admin \in BOOLEAN, NEW given \in {{}, Grantable},
             SaveUser(b, v, password, admin, given)
      PROVE  InTurn'
  <2>1. /\ \A c \in Browsers : pending[c] = "none"
        /\ hash' = [hash EXCEPT ![v] = password \/ hash[v]]
        /\ isAdmin' = [isAdmin EXCEPT ![v] = admin]
        /\ grants' = [grants EXCEPT ![v] = given]
        /\ wish' = [wish EXCEPT ![v] = [hash |-> hash'[v], admin |-> admin, grants |-> given]]
        /\ UNCHANGED <<pending, subject>>
    BY <1>7 DEF SaveUser, Ask
  <2>2. ASSUME NEW u \in Logins
        PROVE  AsWished(u)'
    <3>1. AsWished(u)
      BY <2>1, NobodyElse
    <3>2. CASE u = v
      BY <2>1, <3>2 DEF AsWished
    <3>3. CASE u # v
      BY <2>1, <3>1, <3>3 DEF AsWished
    <3>. QED  BY <3>2, <3>3
  <2>. QED  BY <2>1, <2>2 DEF InTurn, Deletes
<1>8. ASSUME NEW b \in Browsers, Clear(b)
      PROVE  InTurn'
  <2>. DEFINE v == subject[b]
  <2>1. /\ pending[b] = "clear" /\ v \in Logins
        /\ pending' = [pending EXCEPT ![b] = "radio"]
        /\ hash' = [hash EXCEPT ![v] = FALSE] /\ isAdmin' = [isAdmin EXCEPT ![v] = FALSE]
        /\ UNCHANGED <<grants, subject, wish>>
    BY <1>8 DEF Clear
  <2>2. Deletes(b) /\ Deletes(b)' /\ \A c \in Browsers : c # b => pending'[c] = "none"
    BY <2>1 DEF InTurn, Deletes
  <2>3. wish[v] = Gone /\ grants[v] \subseteq LeftToTake("radio")
    BY <2>1, <2>2 DEF InTurn, LeftToTake
  <2>4. ASSUME NEW u \in Logins, u # v
        PROVE  AsWished(u)'
    <3>1. AsWished(u)
      BY <2>1, <2>2, <2>4 DEF InTurn, Deletes
    <3>. QED  BY <2>1, <2>4, <3>1 DEF AsWished
  <2>. QED  BY <2>1, <2>2, <2>3, <2>4 DEF InTurn, Deletes
<1>9. ASSUME NEW b \in Browsers, Revoke(b)
      PROVE  InTurn'
  <2>. DEFINE v == subject[b]
  <2>1. /\ pending[b] \in Grantable /\ v \in Logins
        /\ pending' = [pending EXCEPT ![b] = NextDelete[pending[b]]]
        /\ pending'[b] = NextDelete[pending[b]]
        /\ grants' = [grants EXCEPT ![v] = grants[v] \ {pending[b]}]
        /\ subject' = [subject EXCEPT ![b] = IF pending'[b] = "none" THEN NoName ELSE v]
        /\ UNCHANGED <<hash, isAdmin, wish>>
    BY <1>9 DEF Revoke, Grantable
  <2>2. Deletes(b) /\ \A c \in Browsers : c # b => pending'[c] = "none"
    BY <2>1 DEF InTurn, Deletes, Grantable
  <2>3. wish[v] = Gone /\ ~hash[v] /\ ~isAdmin[v] /\ grants[v] \subseteq LeftToTake(pending[b])
    BY <2>1, <2>2 DEF InTurn
  <2>4. grants'[v] \subseteq LeftToTake(pending'[b])
    <3>1. LeftToTake(pending[b]) \ {pending[b]} \subseteq LeftToTake(NextDelete[pending[b]])
      BY <2>1 DEF LeftToTake, Grantable, NextDelete
    <3>. QED  BY <2>1, <2>3, <3>1
  <2>5. ASSUME NEW u \in Logins, u # v
        PROVE  AsWished(u)'
    <3>1. AsWished(u)
      BY <2>1, <2>2, <2>5 DEF InTurn, Deletes
    <3>. QED  BY <2>1, <2>5, <3>1 DEF AsWished
  <2>6. pending'[b] \in {"amplifier", "switch", "none"}
    BY <2>1 DEF Grantable, NextDelete
  <2>7. CASE pending'[b] = "none"
    <3>1. hash'[v] = FALSE /\ isAdmin'[v] = FALSE
      <4>1. hash[v] \in BOOLEAN /\ isAdmin[v] \in BOOLEAN
        BY <2>1
      <4>. QED  BY <2>1, <2>3, <4>1
    <3>0. grants'[v] = {}
      <4>1. LeftToTake("none") = {}
        BY DEF LeftToTake
      <4>. QED  BY <2>4, <2>7, <4>1
    <3>2. ASSUME NEW u \in Logins, u = v
          PROVE  AsWished(u)'
      <4>1. wish'[v] = [hash |-> FALSE, admin |-> FALSE, grants |-> {}]
        BY <2>1, <2>3 DEF Gone
      <4>. QED  BY <3>0, <3>1, <3>2, <4>1 DEF AsWished
    <3>3. \A u \in Logins : AsWished(u)'
      BY <2>5, <3>2
    <3>. QED  BY <2>2, <2>7, <3>3 DEF InTurn, Deletes
  <2>8. CASE pending'[b] # "none"
    <3>1. Deletes(b)' /\ subject'[b] = v
      BY <2>1, <2>6, <2>8 DEF Deletes
    <3>2. wish'[v] = Gone /\ ~hash'[v] /\ ~isAdmin'[v]
      BY <2>1, <2>3
    <3>. QED  BY <2>2, <2>4, <2>5, <3>1, <3>2 DEF InTurn, Deletes
  <2>. QED  BY <2>7, <2>8
<1>10. CASE UNCHANGED accountVars
  BY <1>10 DEF accountVars, InTurn, Deletes, AsWished
<1>. QED  BY <1>1, <1>2, <1>3, <1>4, <1>5, <1>6, <1>7, <1>8, <1>9, <1>10 DEF AccountsNext

AdminTurns == "overlap" \notin adminHabits => InTurn

LEMMA TurnsAlways == AccountsSpec => []AdminTurns
<1>1. AccountsInit => Listed /\ AdminTurns
  BY AccountsAssumption DEF AccountsInit, Listed, AccountsTypeOK, Row, Gone, NoCookie,
     AdminTurns, InTurn, Deletes, AsWished
<1>2. Listed /\ AdminTurns /\ [AccountsNext]_accountVars => AdminTurns'
  BY InTurnStep, HabitsStay DEF AdminTurns
<1>. QED  BY <1>1, <1>2, ListedStep, PTL DEF AccountsSpec

\* The rows are what the admins asked for: nobody is half an account.
THEOREM AccountsAlwaysInOrder == AccountsSpec => []AccountsInOrder
<1>1. AdminTurns => LastWishHolds
  <2> SUFFICES ASSUME InTurn, NEW u \in Logins, \A b \in Browsers : pending[b] = "none"
               PROVE  AsWished(u)
    BY DEF AdminTurns, LastWishHolds, AsWished
  <2>. QED  BY DEF InTurn, Deletes
<1>. QED  BY <1>1, TurnsAlways, AdminsCanAlwaysLogIn, DeletedAlwaysHasNothing, PTL
       DEF AccountsInOrder

-----------------------------------------------------------------------------
(* Types *)

LEMMA ContentTypes ==
    /\ NoPort \in NoPort..Typed
    /\ NoPlan \in Plans
    /\ Blank \in Contents
    /\ Entered \subseteq Contents
<1>1. Slots \in Nat
  BY PlanAssumption
<1>2. NoPort \in NoPort..Typed /\ 1..Typed \subseteq NoPort..Typed
  BY <1>1 DEF NoPort, Typed
<1>3. NoPlan \in Plans
  BY <1>2 DEF NoPlan, Plans
<1>4. \E n : n \in RadioNames
  BY PlanAssumption
<1>5. Blank \in Contents
  BY <1>3, <1>4 DEF Blank, Contents
<1>6. Entered \subseteq Contents
  <2>1. [Channels -> 1..Typed] \subseteq Plans
    BY <1>2 DEF Plans
  <2>. QED  BY <2>1 DEF Entered, Contents
<1>. QED  BY <1>2, <1>3, <1>5, <1>6

-----------------------------------------------------------------------------
(* The suggestion *)

\* next_free_port finds the first port of the range that no radio uses, and
\* gives up only on a range that is used up.
LEMMA NextFreeIsFree ==
    ASSUME NEW c \in Channels, NextFree(c) # NoPort
    PROVE  NextFree(c) \in 1..Slots \ Used(c)
<1>1. ~(1..Slots \subseteq Used(c))
  BY DEF NextFree
<1>. DEFINE Free == 1..Slots \ Used(c)
<1>2. Free \subseteq Nat /\ Free # {}
  BY <1>1, PlanAssumption
<1>3. PICK p \in Free : \A q \in Free : p <= q
  BY <1>2, LeastNumber
<1>4. \A q \in 1..Slots : q < p => q \in Used(c)
  <2> SUFFICES ASSUME NEW q \in 1..Slots, q < p, q \notin Used(c)
               PROVE  FALSE
    OBVIOUS
  <2>1. p <= q
    BY <1>3
  <2>2. p \in Nat /\ q \in Nat
    BY <1>2, PlanAssumption
  <2>. QED  BY <2>1, <2>2
<1>5. \E r \in 1..Slots : r \notin Used(c) /\ \A q \in 1..Slots : q < r => q \in Used(c)
  BY <1>4
<1>. QED  BY <1>1, <1>5, Zenon DEF NextFree

\* What the form suggests is in conflict with no radio, whatever its name.
LEMMA SuggestionIsFree ==
    ASSUME \A c \in Channels : NextFree(c) # NoPort
    PROVE  /\ Suggestion \in Plans
           /\ \A n \in RadioNames : ~Conflict(n, Suggestion)
<1>1. \A c \in Channels : NextFree(c) \in 1..Slots \ Used(c)
  BY NextFreeIsFree
<1>2. 1..Slots \subseteq NoPort..Typed
  BY PlanAssumption DEF NoPort, Typed
<1>3. Suggestion \in Plans
  BY <1>1, <1>2 DEF Suggestion, Plans
<1>4. \A c \in Channels, m \in RadioNames : Suggestion[c] # plan[m][c]
  BY <1>1 DEF Suggestion, Used
<1>. QED  BY <1>3, <1>4 DEF Conflict

-----------------------------------------------------------------------------
(* The check and the row *)

LEMMA PlanTypeStep == PlanTypeOK /\ [PlanNext]_planVars => PlanTypeOK'
<1> SUFFICES ASSUME PlanTypeOK, [PlanNext]_planVars
             PROVE  PlanTypeOK'
  OBVIOUS
<1>. USE DEF PlanTypeOK, Proceed, Blanked
<1>1. ASSUME NEW f \in Forms, Suggest(f)
      PROVE  PlanTypeOK'
  <2>1. \A n \in RadioNames : [name |-> n, ports |-> Suggestion] \in Contents
    BY <1>1, SuggestionIsFree DEF Suggest, Contents
  <2>. QED  BY <1>1, <2>1 DEF Suggest
<1>2. ASSUME NEW f \in Forms, Check(f)
      PROVE  PlanTypeOK'
  <2>1. ASSUME NEW content \in Contents, Answer(f, content)
        PROVE  /\ formAt' \in [Forms -> {"blank", "filled", "checked", "refused"}]
               /\ form' \in [Forms -> Contents]
    BY <2>1, ContentTypes DEF Answer
  <2>. QED  BY <1>2, <2>1, ContentTypes DEF Check
<1>3. ASSUME NEW f \in Forms, WriteRow(f)
      PROVE  PlanTypeOK'
  <2>1. form[f].name \in RadioNames /\ form[f].ports \in Plans
    BY DEF Contents
  <2>. QED  BY <1>3, <2>1, ContentTypes DEF WriteRow
<1>4. ASSUME NEW f \in Forms, Busy(f) \/ Close(f)
      PROVE  PlanTypeOK'
  BY <1>4, ContentTypes DEF Busy, Close
<1>5. ASSUME NEW n \in RadioNames, DeleteRow(n)
      PROVE  PlanTypeOK'
  BY <1>5, ContentTypes DEF DeleteRow
<1>6. CASE UNCHANGED planVars
  BY <1>6 DEF planVars
<1>. QED  BY <1>1, <1>2, <1>3, <1>4, <1>5, <1>6 DEF PlanNext

\* Every variable keeps its type, for every number of slots.
THEOREM PlanTypeCorrect == PlanSpec => []PlanTypeOK
<1>1. PlanInit => PlanTypeOK
  BY ContentTypes DEF PlanInit, PlanTypeOK
<1>. QED  BY <1>1, PlanTypeStep, PTL DEF PlanSpec

\* Without hurry one form at a time is between its check and its row, and the
\* check still holds.
Distinct ==
    \A m, n \in RadioNames, c \in Channels :
        m # n /\ plan[m] # NoPlan /\ plan[n] # NoPlan => plan[m][c] # plan[n][c]
Checked ==
    \A f \in Forms : formAt[f] = "checked" =>
        /\ \A g \in Forms : formAt[g] = "checked" => g = f
        /\ ~Conflict(form[f].name, form[f].ports)
PlanInv == ~hurried => Distinct /\ Checked

LEMMA PlanInvStep == PlanTypeOK /\ PlanInv /\ [PlanNext]_planVars => PlanInv'
<1> SUFFICES ASSUME PlanTypeOK, PlanInv, [PlanNext]_planVars, ~hurried
             PROVE  Distinct' /\ Checked'
  BY DEF PlanInv, PlanNext, planVars, Suggest, Check, WriteRow, Busy, Close, DeleteRow
<1>0. Distinct /\ Checked
  BY DEF PlanInv
<1>. USE DEF Proceed, Blanked
<1>1. ASSUME NEW f \in Forms, Suggest(f)
      PROVE  Distinct' /\ Checked'
  BY <1>0, <1>1 DEF Suggest, PlanTypeOK, Distinct, Checked, Conflict
<1>2. ASSUME NEW f \in Forms, Check(f)
      PROVE  Distinct' /\ Checked'
  <2>1. ASSUME NEW content, Answer(f, content)
        PROVE  Checked'
    <3>1. UNCHANGED plan /\ \A g \in Forms : formAt[g] # "checked"
      BY <1>2 DEF Check
    <3>. QED  BY <2>1, <3>1 DEF Answer, PlanTypeOK, Checked, Conflict
  <2>2. Distinct'
    BY <1>0, <1>2 DEF Check, Distinct
  <2>. QED  BY <1>2, <2>1, <2>2 DEF Check
<1>3. ASSUME NEW f \in Forms, WriteRow(f)
      PROVE  Distinct' /\ Checked'
  <2>. DEFINE n0 == form[f].name  ports == form[f].ports
  <2>1. n0 \in RadioNames /\ plan' = [plan EXCEPT ![n0] = ports]
    BY <1>3 DEF WriteRow, PlanTypeOK, Contents
  <2>2. ~Conflict(n0, ports)
    BY <1>0, <1>3 DEF WriteRow, Checked
  <2>3. \A m \in RadioNames \ {n0}, c \in Channels : plan[m] # NoPlan => ports[c] # plan[m][c]
    BY <2>2 DEF Conflict
  <2>4. plan'[n0] = ports /\ \A m \in RadioNames \ {n0} : plan'[m] = plan[m]
    BY <2>1 DEF PlanTypeOK
  <2>5. Distinct'
    BY <1>0, <2>3, <2>4 DEF Distinct
  <2>6. \A g \in Forms : formAt'[g] # "checked"
    BY <1>0, <1>3 DEF WriteRow, Checked, PlanTypeOK
  <2>. QED  BY <2>5, <2>6 DEF Checked
<1>4. ASSUME NEW f \in Forms, Busy(f) \/ Close(f)
      PROVE  Distinct' /\ Checked'
  BY <1>0, <1>4 DEF Busy, Close, PlanTypeOK, Distinct, Checked, Conflict
<1>5. ASSUME NEW n \in RadioNames, DeleteRow(n)
      PROVE  Distinct' /\ Checked'
  <2>1. \A m \in RadioNames : plan'[m] = NoPlan \/ plan'[m] = plan[m]
    BY <1>5 DEF DeleteRow, PlanTypeOK
  <2>2. Distinct'
    BY <1>0, <2>1 DEF Distinct
  <2>3. \A name, ports : Conflict(name, ports)' => Conflict(name, ports)
    BY <2>1 DEF Conflict
  <2>4. UNCHANGED <<form, formAt>>
    BY <1>5 DEF DeleteRow
  <2>5. Checked'
    BY <1>0, <2>3, <2>4 DEF Checked
  <2>. QED  BY <2>2, <2>5
<1>6. CASE UNCHANGED planVars
  BY <1>0, <1>6 DEF planVars, Distinct, Checked, Conflict
<1>. QED  BY <1>1, <1>2, <1>3, <1>4, <1>5, <1>6 DEF PlanNext

\* When forms are handled one at a time, no two radios ever share a port of a
\* channel.
THEOREM PortsAreAlwaysDistinct == PlanSpec => []PortsAreDistinct
<1>1. PlanInit => PlanInv
  BY DEF PlanInit, PlanInv, Distinct, Checked
<1>2. PlanInv => PortsAreDistinct
  BY DEF PlanInv, Distinct, PortsAreDistinct
<1>. QED  BY <1>1, <1>2, PlanInvStep, PlanTypeCorrect, PTL DEF PlanSpec

-----------------------------------------------------------------------------
(* The suggestion is taken *)

\* A form sent as suggested still shows the suggestion of the moment.
FreshInv ==
    \A f \in fresh :
        /\ formAt[f] \in {"filled", "checked"}
        /\ formAt[f] = "filled" => /\ form[f].ports = Suggestion
                                   /\ \A c \in Channels : NextFree(c) # NoPort

LEMMA FreshInvStep == PlanTypeOK /\ FreshInv /\ [PlanNext]_planVars => FreshInv'
<1> SUFFICES ASSUME PlanTypeOK, FreshInv, [PlanNext]_planVars
             PROVE  FreshInv'
  OBVIOUS
<1>. USE DEF Proceed, Blanked, FreshInv
<1>0. ASSUME UNCHANGED plan
      PROVE  Suggestion' = Suggestion /\ \A c : NextFree(c)' = NextFree(c)
  BY <1>0 DEF Suggestion, NextFree, Used
<1>1. ASSUME NEW f \in Forms, Suggest(f)
      PROVE  FreshInv'
  BY <1>0, <1>1 DEF Suggest, PlanTypeOK
<1>2. ASSUME NEW f \in Forms, Check(f)
      PROVE  FreshInv'
  <2>1. UNCHANGED <<plan, fresh>>
    BY <1>2 DEF Check
  <2>2. CASE f \in fresh
    <3>1. formAt[f] = "filled" /\ form[f].ports = Suggestion /\ Answer(f, form[f])
      BY <1>2, <2>2 DEF Check
    <3>2. ~Conflict(form[f].name, form[f].ports)
      BY <2>2, <3>1, SuggestionIsFree DEF PlanTypeOK, Contents
    <3>. QED  BY <1>0, <2>1, <3>1, <3>2 DEF Answer, PlanTypeOK
  <2>3. CASE f \notin fresh
    <3>1. \A g \in fresh : formAt'[g] = formAt[g] /\ form'[g] = form[g]
      BY <1>2, <2>3 DEF Check, Answer, PlanTypeOK
    <3>. QED  BY <1>0, <2>1, <3>1
  <2>. QED  BY <2>2, <2>3
<1>3. ASSUME NEW f \in Forms, WriteRow(f)
      PROVE  FreshInv'
  BY <1>3 DEF WriteRow
<1>4. ASSUME NEW f \in Forms, Busy(f) \/ Close(f)
      PROVE  FreshInv'
  BY <1>0, <1>4 DEF Busy, Close, PlanTypeOK
<1>5. ASSUME NEW n \in RadioNames, DeleteRow(n)
      PROVE  FreshInv'
  BY <1>5 DEF DeleteRow
<1>6. CASE UNCHANGED planVars
  BY <1>0, <1>6 DEF planVars
<1>. QED  BY <1>1, <1>2, <1>3, <1>4, <1>5, <1>6 DEF PlanNext

\* A form sent as suggested is not refused, if nothing was written in between.
THEOREM SuggestionAlwaysFits == PlanSpec => []SuggestionFits
<1>1. PlanInit => FreshInv
  BY DEF PlanInit, FreshInv
<1>2. FreshInv => SuggestionFits
  BY DEF FreshInv, SuggestionFits
<1>. QED  BY <1>1, <1>2, FreshInvStep, PlanTypeCorrect, PTL DEF PlanSpec

\* Every form that is accepted, and every one as suggested, has ports of its own.
THEOREM PlanAlwaysInOrder == PlanSpec => []PlanInOrder
  BY PortsAreAlwaysDistinct, SuggestionAlwaysFits, PTL DEF PlanInOrder

-----------------------------------------------------------------------------
(* Sniffer: the record *)

LEMMA UnseenTypes == Unseen \in [seen : Levels \cup {"none"}, set : Levels, failed : BOOLEAN]
  BY DEF Unseen, Levels

LEMMA EmptyTypes == Empty \in Records
  BY DEF Empty, Records

\* Writing a line or a frame only touches the counters and what is pending.
LEMMA EmitTypes ==
    ASSUME NEW s \in Starts, NEW r \in Records
    PROVE  /\ Emit(s, r) \in Records
           /\ Emit(s, r).pending = r.pending /\ Emit(s, r).timer = r.timer
           /\ Emit(s, r).losing = r.losing
           /\ Emit(s, r).ring = r.ring + 1
           /\ Emit(s, r).file = IF phase[s] \in {"running", "unplugged"} THEN r.file + 1 ELSE r.file
<1>1. r.ring \in Nat /\ r.file \in Nat
  BY DEF Records
<1> DEFINE f == IF phase[s] \in {"running", "unplugged"} THEN r.file + 1 ELSE r.file
<1>2. f \in Nat /\ r.ring + 1 \in Nat
  BY <1>1
<1>3. Emit(s, r) = [r EXCEPT !.ring = r.ring + 1, !.file = f]
  BY DEF Emit, Records
<1> HIDE DEF f
<1>4. /\ Emit(s, r) \in Records
      /\ Emit(s, r).pending = r.pending /\ Emit(s, r).timer = r.timer
      /\ Emit(s, r).losing = r.losing
      /\ Emit(s, r).ring = r.ring + 1
      /\ Emit(s, r).file = f
  BY <1>2, <1>3 DEF Records
<1> QED BY <1>4 DEF f

LEMMA FlushTypes ==
    ASSUME NEW s \in Starts, NEW r \in Records
    PROVE  /\ FlushFrame(s, r) \in Records
           /\ FlushFrame(s, r).timer = r.timer /\ FlushFrame(s, r).losing = r.losing
           /\ phase[s] \in {"running", "unplugged"} => ~FlushFrame(s, r).pending
           /\ ~r.pending => FlushFrame(s, r) = r
           /\ phase[s] \notin {"running", "unplugged"} /\ r.pending => FlushFrame(s, r).pending
           /\ phase[s] \in {"running", "unplugged"} /\ r.ring = r.file
                => FlushFrame(s, r).ring = FlushFrame(s, r).file
<1>1. CASE ~r.pending
  BY <1>1 DEF FlushFrame
<1>2. CASE r.pending
  <2> DEFINE e == Emit(s, r)
  <2>1. /\ e \in Records /\ e.timer = r.timer /\ e.losing = r.losing
        /\ e.ring = r.ring + 1
        /\ e.file = IF phase[s] \in {"running", "unplugged"} THEN r.file + 1 ELSE r.file
    BY EmitTypes
  <2>2. FlushFrame(s, r) = [e EXCEPT !.pending = phase[s] \notin {"running", "unplugged"}]
    BY <1>2 DEF FlushFrame
  <2> HIDE DEF e
  <2>3. /\ FlushFrame(s, r) \in Records
        /\ FlushFrame(s, r).timer = e.timer /\ FlushFrame(s, r).losing = e.losing
        /\ FlushFrame(s, r).ring = e.ring /\ FlushFrame(s, r).file = e.file
        /\ FlushFrame(s, r).pending = (phase[s] \notin {"running", "unplugged"})
    BY <2>1, <2>2 DEF Records
  <2> QED BY <1>2, <2>1, <2>3
<1> QED BY <1>1, <1>2 DEF Records

\* Every variable of the sniffer keeps its type.
THEOREM SnifferTypeCorrect == SnifferSpec => []SnifferTypeOK
<1>1. SnifferInit => SnifferTypeOK
  BY SnifferAssumption, EmptyTypes, UnseenTypes
  DEF SnifferInit, SnifferTypeOK, Phases
<1>2. SnifferTypeOK /\ [SnifferNext]_snifferVars => SnifferTypeOK'
  <2> SUFFICES ASSUME SnifferTypeOK, [SnifferNext]_snifferVars PROVE SnifferTypeOK'
    OBVIOUS
  <2> USE DEF SnifferTypeOK, surroundings
  <2>1. ASSUME NEW s \in Starts, BeginStart(s) PROVE SnifferTypeOK'
    BY <2>1 DEF BeginStart, Become, Phases
  <2>2. ASSUME NEW s \in Starts, Start(s) PROVE SnifferTypeOK'
    <3>1. phase' \in [Starts -> Phases]
      BY <2>2 DEF Start, OpenPorts, Become, Phases
    <3>2. sniffer' \in Starts \cup {NoOne} /\ owner' \in [ComPorts -> Starts \cup {NoOne}]
      BY <2>2 DEF Start, OpenPorts
    <3>3. between' \subseteq Starts
      BY <2>2 DEF Start
    <3> QED BY <2>2, <3>1, <3>2, <3>3 DEF Start
  <2>3. ASSUME NEW s \in Starts, DataReceived(s) PROVE SnifferTypeOK'
    <3>1. record' \in [Starts -> Records]
      BY <2>3 DEF DataReceived, Records
    <3> QED BY <2>3, <3>1 DEF DataReceived
  <2>4. ASSUME NEW s \in Starts, FrameEnds(s) PROVE SnifferTypeOK'
    <3>1. FlushFrame(s, record[s]) \in Records
      BY FlushTypes
    <3>2. [FlushFrame(s, record[s]) EXCEPT !.timer = FALSE] \in Records
      BY <3>1 DEF Records
    <3> QED BY <2>4, <3>2 DEF FrameEnds
  <2>5. ASSUME NEW s \in Starts, ConnectionLost(s) PROVE SnifferTypeOK'
    <3>1. FlushFrame(s, record[s]) \in Records
      BY FlushTypes
    <3>2. [FlushFrame(s, record[s]) EXCEPT !.losing = FALSE] \in Records
      BY <3>1 DEF Records
    <3> QED BY <2>5, <3>2 DEF ConnectionLost
  <2>6. ASSUME NEW s \in Starts, Unplugged(s) PROVE SnifferTypeOK'
    <3>1. FlushFrame(s, record[s]) \in Records
      BY FlushTypes
    <3> QED BY <2>6, <3>1 DEF Unplugged, Become, Phases
  <2>7. ASSUME NEW s \in Starts, WatchLines(s) PROVE SnifferTypeOK'
    <3>1. Emit(s, record[s]) \in Records
      BY EmitTypes
    <3>2. mirrored' \in [Starts -> [seen : Levels \cup {"none"}, set : Levels, failed : BOOLEAN]]
      BY <2>7 DEF WatchLines
    <3> QED BY <2>7, <3>1, <3>2 DEF WatchLines
  <2>8. CASE Stop
    <3>1. sniffer \in Starts
      BY <2>8, SnifferAssumption DEF Stop, Active
    <3> DEFINE lost == phase[sniffer] = "running"
    <3>2. record' \in [Starts -> Records]
      <4>1. lost \in BOOLEAN /\ record' = [record EXCEPT ![sniffer].losing = lost]
        BY <2>8 DEF Stop
      <4> HIDE DEF lost
      <4> QED BY <3>1, <4>1 DEF Records
    <3>3. mirrored' \in [Starts -> [seen : Levels \cup {"none"}, set : Levels, failed : BOOLEAN]]
      BY <2>8, <3>1, UnseenTypes DEF Stop
    <3>4. phase' \in [Starts -> Phases] /\ owner' \in [ComPorts -> Starts \cup {NoOne}]
      BY <2>8, <3>1 DEF Stop, Become, Phases
    <3> QED BY <2>8, <3>2, <3>3, <3>4 DEF Stop
  <2>9. CASE ProgramKeys
    BY <2>9 DEF ProgramKeys
  <2>10. CASE UNCHANGED snifferVars
    BY <2>10 DEF snifferVars
  <2> QED BY <2>1, <2>2, <2>3, <2>4, <2>5, <2>6, <2>7, <2>8, <2>9, <2>10 DEF SnifferNext
<1> QED BY <1>1, <1>2, PTL DEF SnifferSpec

-----------------------------------------------------------------------------
(* Sniffer: sessions *)

\* Where requests take turns one start at a time looks at the ports, and it
\* does so while no session is active.
OneStartAtATime ==
    \A s \in Starts : phase[s] = "checking" =>
        ~Active /\ \A t \in Starts \ {s} : phase[t] # "checking"

\* A session that has not run has neither data nor timers.
UnusedIsEmpty ==
    \A s \in Starts : phase[s] \in {"new", "checking", "refused"} => record[s] = Empty

\* What was seen of the program's line was set at the device or failed to be.
SeenIsSet ==
    \A s \in Starts : mirrored[s].seen # "none" /\ ~mirrored[s].failed
                          => mirrored[s].set = mirrored[s].seen

SnifferInv ==
    /\ ~brisk => OneStartAtATime
    /\ OpenIsStoppable
    /\ UnusedIsEmpty /\ RingIsFile
    /\ SeenIsSet

LEMMA SnifferTurnsKept ==
    ASSUME SnifferTypeOK, ~brisk, OneStartAtATime, OpenIsStoppable, [SnifferNext]_snifferVars
    PROVE  OneStartAtATime' /\ OpenIsStoppable'
<1> USE SnifferAssumption DEF SnifferTypeOK, OneStartAtATime, OpenIsStoppable, Active, Become,
                            surroundings
<1>1. ASSUME NEW s \in Starts, BeginStart(s) PROVE OneStartAtATime' /\ OpenIsStoppable'
  BY <1>1 DEF BeginStart
<1>2. ASSUME NEW s \in Starts, Start(s) PROVE OneStartAtATime' /\ OpenIsStoppable'
  <2>1. \A p \in ComPorts : owner[p] = NoOne
    BY <1>2 DEF Start
  <2>2. \A t \in Starts : phase'[t] # "checking"
    BY <1>2 DEF Start, OpenPorts
  <2>3. CASE owner' = owner
    BY <2>1, <2>2, <2>3
  <2>4. CASE sniffer' = s /\ phase'[s] = "running"
             /\ \A p \in ComPorts : owner'[p] \in {s, NoOne}
    BY <2>2, <2>4
  <2>5. owner' = owner \/ (sniffer' = s /\ phase'[s] = "running"
                           /\ \A p \in ComPorts : owner'[p] \in {s, NoOne})
    BY <1>2, <2>1 DEF Start, OpenPorts
  <2> QED BY <2>3, <2>4, <2>5
<1>3. CASE Stop
  BY <1>3 DEF Stop
<1>4. ASSUME NEW s \in Starts, Unplugged(s) PROVE OneStartAtATime' /\ OpenIsStoppable'
  BY <1>4 DEF Unplugged
<1>5. ASSUME UNCHANGED <<brisk, sniffer, phase, owner>>
      PROVE  OneStartAtATime' /\ OpenIsStoppable'
  BY <1>5
<1> QED BY <1>1, <1>2, <1>3, <1>4, <1>5
        DEF SnifferNext, snifferVars, DataReceived, FrameEnds, ConnectionLost, WatchLines,
            ProgramKeys

LEMMA RecordKept ==
    ASSUME SnifferTypeOK, UnusedIsEmpty, RingIsFile, [SnifferNext]_snifferVars
    PROVE  UnusedIsEmpty' /\ RingIsFile'
<1> USE DEF SnifferTypeOK, UnusedIsEmpty, RingIsFile, Become
<1>1. ASSUME NEW s \in Starts, BeginStart(s) PROVE UnusedIsEmpty' /\ RingIsFile'
  BY <1>1 DEF BeginStart
<1>2. ASSUME NEW s \in Starts, Start(s) PROVE UnusedIsEmpty' /\ RingIsFile'
  BY <1>2 DEF Start, OpenPorts
<1>3. ASSUME NEW s \in Starts, DataReceived(s) PROVE UnusedIsEmpty' /\ RingIsFile'
  <2>1. /\ record'[s].ring = record[s].ring /\ record'[s].file = record[s].file
        /\ \A t \in Starts \ {s} : record'[t] = record[t]
    BY <1>3 DEF DataReceived, Records
  <2> QED BY <1>3, <2>1 DEF DataReceived
<1>4. ASSUME NEW s \in Starts, FrameEnds(s) \/ ConnectionLost(s)
      PROVE  UnusedIsEmpty' /\ RingIsFile'
  <2> DEFINE f == FlushFrame(s, record[s])
  <2>1. phase[s] \in {"running", "unplugged", "stopped"}
    BY <1>4 DEF FrameEnds, ConnectionLost, Empty, Phases
  <2>2. /\ f \in Records
        /\ phase[s] \in {"running", "unplugged"} => ~f.pending
        /\ ~record[s].pending => f = record[s]
        /\ phase[s] \notin {"running", "unplugged"} /\ record[s].pending => f.pending
        /\ phase[s] \in {"running", "unplugged"} /\ record[s].ring = record[s].file
                => f.ring = f.file
    BY FlushTypes
  <2>3. record' = [record EXCEPT ![s] = [f EXCEPT !.timer = FALSE]]
        \/ record' = [record EXCEPT ![s] = [f EXCEPT !.losing = FALSE]]
    BY <1>4 DEF FrameEnds, ConnectionLost
  <2> HIDE DEF f
  <2>4. /\ record'[s].ring = f.ring /\ record'[s].file = f.file /\ record'[s].pending = f.pending
        /\ \A t \in Starts \ {s} : record'[t] = record[t]
    BY <2>2, <2>3 DEF Records
  <2>5. record[s].ring = record[s].file \/ (phase[s] = "stopped" /\ record[s].pending)
    OBVIOUS
  <2>6. f.ring = f.file \/ (phase[s] = "stopped" /\ f.pending)
    BY <2>1, <2>2, <2>5
  <2>7. phase' = phase
    BY <1>4 DEF FrameEnds, ConnectionLost
  <2> QED BY <2>1, <2>4, <2>6, <2>7
<1>5. ASSUME NEW s \in Starts, Unplugged(s) PROVE UnusedIsEmpty' /\ RingIsFile'
  <2> DEFINE f == FlushFrame(s, record[s])
  <2>1. record[s].ring = record[s].file
    BY <1>5 DEF Unplugged
  <2>2. f.ring = f.file
    BY <1>5, <2>1, FlushTypes DEF Unplugged
  <2> HIDE DEF f
  <2>3. record' = [record EXCEPT ![s] = f]
    BY <1>5 DEF Unplugged, f
  <2> QED BY <1>5, <2>2, <2>3 DEF Unplugged
<1>6. ASSUME NEW s \in Starts, WatchLines(s) PROVE UnusedIsEmpty' /\ RingIsFile'
  <2> DEFINE e == Emit(s, record[s])
  <2>1. record[s].ring = record[s].file /\ phase[s] = "running"
    BY <1>6 DEF WatchLines
  <2>2. e.ring = e.file
    BY <2>1, EmitTypes
  <2> HIDE DEF e
  <2>3. record' = [record EXCEPT ![s] = e] /\ phase' = phase
    BY <1>6 DEF WatchLines, e
  <2> QED BY <2>1, <2>2, <2>3
<1>7. CASE Stop
  <2>1. sniffer \in Starts /\ phase[sniffer] \in {"running", "unplugged"}
    BY <1>7, SnifferAssumption DEF Stop, Active
  <2>2. /\ record'[sniffer].ring = record[sniffer].ring
        /\ record'[sniffer].file = record[sniffer].file
        /\ \A t \in Starts \ {sniffer} : record'[t] = record[t] /\ phase'[t] = phase[t]
        /\ phase'[sniffer] = "stopped"
    BY <1>7, <2>1 DEF Stop, Records
  <2> QED BY <2>1, <2>2
<1>8. ASSUME UNCHANGED <<phase, record>> PROVE UnusedIsEmpty' /\ RingIsFile'
  BY <1>8
<1> QED BY <1>1, <1>2, <1>3, <1>4, <1>5, <1>6, <1>7, <1>8 DEF SnifferNext, snifferVars, ProgramKeys

LEMMA MirrorKept ==
    ASSUME SnifferTypeOK, SeenIsSet, [SnifferNext]_snifferVars
    PROVE  SeenIsSet'
<1> USE DEF SnifferTypeOK, SeenIsSet
<1>1. ASSUME NEW s \in Starts, WatchLines(s) PROVE SeenIsSet'
  BY <1>1 DEF WatchLines
<1>2. CASE Stop
  BY <1>2 DEF Stop, Unseen
<1>3. ASSUME UNCHANGED mirrored PROVE SeenIsSet'
  BY <1>3
<1> QED BY <1>1, <1>2, <1>3
        DEF SnifferNext, snifferVars, BeginStart, Start, DataReceived, FrameEnds, ConnectionLost,
            Unplugged, ProgramKeys

\* With requests that take turns whoever has a port open can be stopped; with
\* any requests the panel's ring is what the file has, but for a frame cut off by
\* a stop, and the program's keying is not kept from the device.
THEOREM SnifferInOrderHolds == SnifferSpec => []SnifferInOrder
<1>1. SnifferInit => SnifferInv
  BY DEF SnifferInit, SnifferInv, OneStartAtATime, OpenIsStoppable, UnusedIsEmpty, RingIsFile,
         SeenIsSet, Unseen, Empty
<1>2. SnifferTypeOK /\ SnifferInv /\ [SnifferNext]_snifferVars => SnifferInv'
  <2> SUFFICES ASSUME SnifferTypeOK, SnifferInv, [SnifferNext]_snifferVars PROVE SnifferInv'
    OBVIOUS
  <2>1. brisk' = brisk
    BY DEF SnifferNext, snifferVars, surroundings, BeginStart, Start, DataReceived, FrameEnds,
           ConnectionLost, Unplugged, WatchLines, Stop, ProgramKeys
  <2>2. CASE brisk
    BY <2>1, <2>2, RecordKept, MirrorKept DEF SnifferInv, OpenIsStoppable
  <2>3. CASE ~brisk
    BY <2>1, <2>3, SnifferTurnsKept, RecordKept, MirrorKept DEF SnifferInv
  <2> QED BY <2>2, <2>3
<1>3. SnifferTypeOK /\ SnifferInv => SnifferInOrder
  BY DEF SnifferTypeOK, SnifferInv, SnifferInOrder, SeenIsSet, KeyingPassesThrough, Levels
<1> QED BY <1>1, <1>2, <1>3, SnifferTypeCorrect, PTL DEF SnifferSpec
=============================================================================
