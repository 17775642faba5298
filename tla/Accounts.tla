------------------------------ MODULE Accounts ------------------------------
(***************************************************************************)
(* Local users, the tokens of the admin interface, and who changes them:   *)
(* request goroutines of the server, the "bootimus user" commands, which   *)
(* are another process on the same database, and the server's start.       *)
(*                                                                         *)
(* The unit of atomicity is the SQL statement.  An actor reads a row with  *)
(* GetUser and saves the copy it has changed, whatever happened between.   *)
(***************************************************************************)
EXTENDS Naturals, FiniteSets

CONSTANTS
    Users,      \* user names
    Admin,      \* the name "admin"
    Passwords,  \* passwords; the stored hash stands for its password
    LdapUsers,  \* names the directory vouches for
    LdapAdmins, \* those in its admin group (all of them without a filter)
    Requests,   \* request goroutines that can be in flight together
    Cli,        \* the command line process
    None,       \* no row, nobody
    Unclear,    \* the row was saved from a copy that no longer was the row
    Postgres,   \* TRUE: the PostgreSQL store, FALSE: the SQLite one
    MaxEpoch,   \* bound on the number of server starts
    MaxId,      \* bound on primary keys of users
    MaxOps      \* bound on the operations on accounts that are begun

ASSUME AccountsAssumption ==
    /\ Admin \in Users
    /\ LdapAdmins \subseteq LdapUsers /\ LdapUsers \subseteq Users
    /\ Cli \notin Requests
    /\ None \notin Users \cup Passwords /\ Unclear # None
    /\ Postgres \in BOOLEAN
    /\ MaxEpoch \in Nat /\ MaxId \in Nat /\ MaxOps \in Nat

Actors == Requests \cup {Cli}

VARIABLES
    user,       \* the users table: the row of each name, or None
    ids,        \* primary keys handed out
    up,         \* the server accepts requests
    epoch,      \* the number of the server's process, and of its JWT secret
    tokens,     \* tokens that have been handed out and have not expired
    req,        \* what each actor does next
    ops,        \* operations on accounts that were begun
    acked       \* history: the row of each name as last confirmed to somebody

vars == <<user, ids, up, epoch, tokens, req, ops, acked>>

Row == [id: 1..MaxId, enabled: BOOLEAN, admin: BOOLEAN, pw: Passwords]

ASSUME NoneIsNoRow == None \notin Row

Token == [user: Users, epoch: 1..MaxEpoch, admin: BOOLEAN]

\* read: the row GetUser returned, new: the changed copy, others: the other
\* active admins that ListUsers showed.
Request == [pc: {"idle", "create", "update", "delete", "password", "list", "save", "reset", "token"},
            by: Users \cup {None}, u: Users \cup {None},
            read: Row \cup {None}, new: Row \cup {None}, others: SUBSET Users]

Idle == [pc |-> "idle", by |-> None, u |-> None, read |-> None, new |-> None, others |-> {}]

TypeOK ==
    /\ user \in [Users -> Row \cup {None}]
    /\ ids \in 0..MaxId
    /\ up \in BOOLEAN
    /\ epoch \in 0..MaxEpoch
    /\ tokens \subseteq Token
    /\ req \in [Actors -> Request]
    /\ ops \in 0..MaxOps
    /\ acked \in [Users -> Row \cup {None, Unclear}]

Exists(u) == user[u] # None
IsActiveAdmin(row) == row # None /\ row.enabled /\ row.admin
ActiveAdmins == {u \in Users : IsActiveAdmin(user[u])}

table == <<user, ids, acked>>
session == <<up, epoch, tokens, ops>>

Begin == ops < MaxOps /\ ops' = ops + 1

Done(r) == req' = [req EXCEPT ![r] = Idle]

-----------------------------------------------------------------------------
(* Statements.                                                             *)

\* gorm's Updates skips zero values and matches the name alone; no row, no
\* error.
PostgresUpdateUser(u, row) ==
    IF Exists(u)
    THEN [row EXCEPT !.enabled = row.enabled \/ user[u].enabled,
                     !.admin = row.admin \/ user[u].admin]
    ELSE None

\* gorm's Save matches name and key.  When that changes no row it inserts
\* the copy, where a false "enabled" becomes the column's default; a row of
\* the same name with another key makes that fail.
SQLiteUpdateUser(u, row) ==
    IF Exists(u)
    THEN IF user[u].id = row.id THEN row ELSE user[u]
    ELSE [row EXCEPT !.enabled = TRUE]

\* gorm has two ways to write a copy, Updates and Save.
Saved(u, row, updates) ==
    IF updates THEN PostgresUpdateUser(u, row) ELSE SQLiteUpdateUser(u, row)

\* Save fails when it finds the name under another key.
Conflict(u, row, updates) == ~updates /\ Exists(u) /\ user[u].id # row.id

\* The statement and what its success is answered with: the copy.
WriteUserRow(u, read, row, updates) ==
    /\ user' = [user EXCEPT ![u] = Saved(u, row, updates)]
    /\ acked' = IF Conflict(u, row, updates) THEN acked
                ELSE [acked EXCEPT ![u] = IF user[u] = read THEN row ELSE Unclear]
    /\ UNCHANGED ids

\* The column default enables a user that is created disabled; gorm reads it
\* back into the answer.
CreateUserRow(u, admin, pw) ==
    LET row == [id |-> ids + 1, enabled |-> TRUE, admin |-> admin, pw |-> pw]
    IN /\ ids < MaxId
       /\ ids' = ids + 1
       /\ user' = [user EXCEPT ![u] = row]
       /\ acked' = [acked EXCEPT ![u] = row]

DeleteUserRow(u) ==
    /\ user' = [user EXCEPT ![u] = None]
    /\ acked' = [acked EXCEPT ![u] = None]
    /\ UNCHANGED ids

-----------------------------------------------------------------------------
(* Login and admission.                                                    *)

GenerateToken(u, admin) ==
    tokens' = tokens \cup {[user |-> u, epoch |-> epoch, admin |-> admin]}

ValidateToken(tok) == tok.epoch = epoch

\* The password is checked; the admin flag is read by a later statement.
ValidateCredentials(r) ==
    /\ up /\ req[r] = Idle
    /\ \E u \in Users, pw \in Passwords :
          /\ Exists(u) /\ user[u].enabled /\ user[u].pw = pw
          /\ req' = [req EXCEPT ![r] = [Idle EXCEPT !.pc = "token", !.u = u]]
    /\ UNCHANGED <<table, session>>

GetUserAdmin(u) == Exists(u) /\ user[u].admin

\* Variant: the token is issued to the caller of another request.
HandleLoginBy(r) ==
    /\ req[r].pc = "token"
    /\ GenerateToken(req[r].by, GetUserAdmin(req[r].u))
    /\ Done(r)
    /\ UNCHANGED <<table, up, epoch, ops>>

HandleLogin(r) ==
    /\ req[r].pc = "token"
    /\ GenerateToken(req[r].u, GetUserAdmin(req[r].u))
    /\ Done(r)
    /\ UNCHANGED <<table, up, epoch, ops>>

\* The directory answers for a name, local row or not.
LdapAuthenticate(r) ==
    /\ up /\ req[r] = Idle
    /\ \E u \in LdapUsers : GenerateToken(u, u \in LdapAdmins)
    /\ UNCHANGED <<table, up, epoch, req, ops>>

\* Variant: a valid token is enough, disabled account or not.
AuthenticateToken(tok) == ValidateToken(tok)

\* The row decides, not the claims.
Authenticate(tok) ==
    /\ ValidateToken(tok)
    /\ Exists(tok.user) /\ user[tok.user].enabled

\* AdminMiddleware lets a request about u through to its handler.
AdminMiddleware(r) ==
    /\ up /\ req[r] = Idle /\ Begin
    /\ \E tok \in tokens, u \in Users, op \in {"create", "update", "delete", "password"} :
          /\ Authenticate(tok) /\ GetUserAdmin(tok.user)
          /\ req' = [req EXCEPT ![r] = [Idle EXCEPT !.pc = op, !.by = tok.user, !.u = u]]
    /\ UNCHANGED <<table, up, epoch, tokens>>

TokenExpires ==
    /\ \E tok \in tokens : tokens' = tokens \ {tok}
    /\ UNCHANGED <<table, up, epoch, req, ops>>

-----------------------------------------------------------------------------
(* The handlers.                                                           *)

\* The lookup before the insert only chooses the error: the name is unique.
CreateUser(r) ==
    /\ req[r].pc = "create"
    /\ \/ /\ ~Exists(req[r].u)
          /\ \E a \in BOOLEAN, pw \in Passwords : CreateUserRow(req[r].u, a, pw)
       \/ Exists(req[r].u) /\ UNCHANGED table
    /\ Done(r)
    /\ UNCHANGED session

\* Variant: the accounts named admin can be deleted as well.
DeleteAnyUser(r) ==
    /\ req[r].pc = "delete"
    /\ DeleteUserRow(req[r].u)
    /\ Done(r)
    /\ UNCHANGED session

DeleteUser(r) ==
    /\ req[r].pc = "delete"
    /\ IF req[r].u = Admin THEN UNCHANGED table ELSE DeleteUserRow(req[r].u)
    /\ Done(r)
    /\ UNCHANGED session

\* A copy that takes the rights of an active admin is guarded by ListUsers.
NeedsGuard(read, new) == IsActiveAdmin(read) /\ ~IsActiveAdmin(new)

\* The row u has now, changed to new; a name without a row is an error.
ReadThen(r, u, new, pc) ==
    req' = [req EXCEPT ![r] = [Idle EXCEPT !.pc = pc, !.u = u,
                                           !.read = user[u], !.new = new]]

UpdateUser(r) ==
    LET u == req[r].u IN
    /\ req[r].pc = "update"
    /\ \/ ~Exists(u) /\ Done(r)
       \/ \E e, a \in BOOLEAN :
             /\ Exists(u)
             /\ LET new == [user[u] EXCEPT !.enabled = e, !.admin = a]
                IN ReadThen(r, u, new, IF NeedsGuard(user[u], new) THEN "list" ELSE "save")
    /\ UNCHANGED <<table, session>>

ResetUserPassword(r) ==
    LET u == req[r].u IN
    /\ req[r].pc = "password"
    /\ \/ ~Exists(u) /\ Done(r)
       \/ \E pw \in Passwords :
             Exists(u) /\ ReadThen(r, u, [user[u] EXCEPT !.pw = pw], "save")
    /\ UNCHANGED <<table, session>>

\* Variant: the user itself counts as one of the others.
ListAllAdmins(r) ==
    /\ req[r].pc = "list"
    /\ req' = [req EXCEPT ![r] = IF ActiveAdmins = {} THEN Idle
                                 ELSE [@ EXCEPT !.pc = "save", !.others = ActiveAdmins]]
    /\ UNCHANGED <<table, session>>

\* The guard: refused when no other active admin is listed.
ListUsers(r) ==
    LET others == ActiveAdmins \ {req[r].u} IN
    /\ req[r].pc = "list"
    /\ req' = [req EXCEPT ![r] = IF others = {} THEN Idle
                                 ELSE [@ EXCEPT !.pc = "save", !.others = others]]
    /\ UNCHANGED <<table, session>>

SaveUser(r) ==
    /\ req[r].pc = "save"
    /\ WriteUserRow(req[r].u, req[r].read, req[r].new, Postgres)
    /\ Done(r)
    /\ UNCHANGED session

-----------------------------------------------------------------------------
(* The command line.                                                       *)

\* One flag at a time; with --force, or when the listing fails, the guard
\* is skipped.
SetUserFlags ==
    /\ req[Cli] = Idle /\ Begin
    /\ \E u \in Users, v \in BOOLEAN, force \in BOOLEAN :
          /\ Exists(u)
          /\ \E new \in {[user[u] EXCEPT !.enabled = v], [user[u] EXCEPT !.admin = v]} :
                ReadThen(Cli, u, new,
                         IF NeedsGuard(user[u], new) /\ ~force THEN "list" ELSE "save")
    /\ UNCHANGED <<table, up, epoch, tokens>>

SetUserPassword ==
    /\ req[Cli] = Idle /\ Begin
    /\ \E u \in Users, pw \in Passwords :
          Exists(u) /\ ReadThen(Cli, u, [user[u] EXCEPT !.pw = pw], "save")
    /\ UNCHANGED <<table, up, epoch, tokens>>

-----------------------------------------------------------------------------
(* The server process.                                                     *)

\* --reset-admin-password reads the row before the process binds a port, so
\* it also runs beside a live server; without a row the process ends there.
ResetAdminPassword ==
    /\ req[Cli] = Idle /\ Begin
    /\ Exists(Admin)
    /\ \E pw \in Passwords : ReadThen(Cli, Admin, [user[Admin] EXCEPT !.pw = pw], "reset")
    /\ UNCHANGED <<table, up, epoch, tokens>>

\* Both stores write the copy with Save.
SaveReset ==
    /\ req[Cli].pc = "reset"
    /\ WriteUserRow(Admin, req[Cli].read, req[Cli].new, FALSE)
    /\ Done(Cli)
    /\ UNCHANGED session

\* Nobody but the server inserts users, so looking and inserting are one.
EnsureAdminUser ==
    IF Exists(Admin) THEN UNCHANGED table
    ELSE \E pw \in Passwords : CreateUserRow(Admin, TRUE, pw)

\* A new process has a new secret.
NewManager ==
    /\ ~up /\ epoch < MaxEpoch
    /\ EnsureAdminUser
    /\ up' = TRUE
    /\ epoch' = epoch + 1
    /\ UNCHANGED <<tokens, req, ops>>

\* The process ends, and with it its requests.
Exit ==
    /\ up
    /\ up' = FALSE
    /\ req' = [r \in Actors |-> IF r = Cli THEN req[r] ELSE Idle]
    /\ UNCHANGED <<table, epoch, tokens, ops>>

-----------------------------------------------------------------------------
Init ==
    /\ user = [u \in Users |-> None]
    /\ ids = 0
    /\ up = FALSE
    /\ epoch = 0
    /\ tokens = {}
    /\ req = [r \in Actors |-> Idle]
    /\ ops = 0
    /\ acked = user

Handler(r) ==
    \/ ValidateCredentials(r) \/ HandleLogin(r) \/ LdapAuthenticate(r)
    \/ AdminMiddleware(r)
    \/ CreateUser(r) \/ DeleteUser(r) \/ UpdateUser(r) \/ ResetUserPassword(r)

Next ==
    \/ \E r \in Requests : Handler(r)
    \/ \E r \in Actors : ListUsers(r) \/ SaveUser(r)
    \/ SetUserFlags \/ SetUserPassword
    \/ TokenExpires
    \/ ResetAdminPassword \/ SaveReset \/ NewManager \/ Exit

Spec == Init /\ [][Next]_vars

-----------------------------------------------------------------------------
(* Properties.                                                             *)

\* What was confirmed is what the table holds: an account has the flags and
\* the password last answered as set, and a deleted one is gone, unless its
\* row was saved from a copy that was no longer the row (handlers.go
\* UpdateUser and ResetUserPassword, cmd/user.go).
ConfirmedIsStored == \A u \in Users : acked[u] \in {user[u], Unclear}

\* An answered change takes effect on open sessions: no request of a user who
\* was confirmed disabled, demoted or deleted is let through any more, with
\* whatever token (auth.go authenticate, AdminMiddleware).  The local row
\* decides for directory users too, which is not what the documentation of
\* the directory says: see LdapAdminsAdmitted.
RevocationEffective ==
    [][\A r \in Requests : LET u == req'[r].by IN
          (req[r].by = None /\ u # None /\ acked[u] # Unclear) => IsActiveAdmin(acked[u])]_vars

\* The last active admin is only lost to a deletion, to --force, or to a
\* save whose guard saw other active admins who have all gone since, or to
\* a copy that no longer is the row (the guards in handlers.go UpdateUser and
\* cmd/user.go setUserFlags; serve.go runServe).
GuardSound ==
    [][(ActiveAdmins # {} /\ ActiveAdmins' = {}) =>
          \E r \in Actors :
             \/ req[r].pc = "delete"
             \/ req[r].pc \in {"save", "reset"} /\ user[req[r].u] # req[r].read
             \/ /\ req[r].pc = "save"
                /\ \/ r = Cli /\ req[r].others = {}
                   \/ req[r].others # {} /\ req[r].others \cap ActiveAdmins = {}]_vars

\* While the server runs there is an account named admin, the one that
\* --reset-admin-password and the recovery instructions rely on (DeleteUser,
\* EnsureAdminUser).
AdminRowKept == up => Exists(Admin)

\* A member of the directory's admin group who has logged in is granted admin
\* access, as docs/en/authentication.md says of LDAP (HandleLogin issues the
\* token, authenticate looks for a local row and takes its flag).
LdapAdminsAdmitted ==
    \A tok \in tokens :
        up /\ ValidateToken(tok) /\ tok.admin /\ tok.user \in LdapAdmins =>
            Authenticate(tok) /\ GetUserAdmin(tok.user)
=============================================================================
