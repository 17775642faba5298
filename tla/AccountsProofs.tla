--------------------------- MODULE AccountsProofs ---------------------------
(* Theorems about Accounts, for any number of users, requests and logins.  *)
EXTENDS Accounts, TLAPS

\* What a request knows at each step.  read and new are rows where they are
\* used; a save that took an active admin's rights away has seen others.
Knows(r) ==
    LET q == req[r] IN
    /\ q.pc \in {"create", "update", "delete", "password", "token"} => q.u \in Users
    /\ q.pc = "token" => epoch >= 1
    /\ q.pc \in {"list", "save", "reset"} => q.u \in Users /\ q.read \in Row /\ q.new \in Row
    /\ q.pc = "reset" => q.u = Admin /\ ~NeedsGuard(q.read, q.new)
    /\ q.pc = "save" => q.u \notin q.others
    /\ q.pc = "save" /\ r # Cli /\ q.others = {} => ~NeedsGuard(q.read, q.new)

ReqInv == req \in [Actors -> Request] /\ \A r \in Actors : Knows(r)

SessionInv ==
    /\ up \in BOOLEAN
    /\ epoch \in 0..MaxEpoch
    /\ up => epoch >= 1
    /\ tokens \subseteq Token
    /\ ops \in 0..MaxOps

TableInv ==
    /\ user \in [Users -> Row \cup {None}]
    /\ ids \in 0..MaxId
    /\ acked \in [Users -> Row \cup {None, Unclear}]

Inv == ReqInv /\ SessionInv /\ TableInv

LEMMA IdleKnows ==
    /\ Idle \in Request
    /\ Idle.pc = "idle" /\ Idle.by = None
BY DEF Idle, Request

\* A request that has ended knows nothing, and the others are left alone.
LEMMA ReqStep ==
    ASSUME Inv, NEW r \in Actors, NEW q \in Request, epoch' = epoch,
           req' = [req EXCEPT ![r] = q], Knows(r)'
    PROVE  ReqInv'
<1>1. req' \in [Actors -> Request]
  BY DEF Inv, ReqInv
<1>2. ASSUME NEW x \in Actors, x # r
      PROVE  Knows(x)'
  <2>1. req'[x] = req[x] /\ Knows(x)
    BY <1>2 DEF Inv, ReqInv
  <2> QED BY <2>1 DEF Knows
<1> QED BY <1>1, <1>2 DEF ReqInv

LEMMA DoneStep ==
    ASSUME Inv, NEW r \in Actors, epoch' = epoch, Done(r)
    PROVE  ReqInv'
<1>1. req'[r] = Idle
  BY DEF Done, Inv, ReqInv
<1>2. Knows(r)'
  BY <1>1, IdleKnows DEF Knows
<1> QED BY <1>2, IdleKnows, ReqStep DEF Done

\* A row read and changed: the next step, guarded or not, knows both.
LEMMA ReadStep ==
    ASSUME Inv, NEW r \in Actors, NEW u \in Users, NEW new \in Row,
           NEW pc \in {"list", "save", "reset"}, epoch' = epoch,
           Exists(u), ReadThen(r, u, new, pc),
           pc = "save" => ~NeedsGuard(user[u], new) \/ r = Cli,
           pc = "reset" => ~NeedsGuard(user[u], new) /\ u = Admin
    PROVE  ReqInv'
<1> DEFINE q == [Idle EXCEPT !.pc = pc, !.u = u, !.read = user[u], !.new = new]
<1>1. user[u] \in Row
  BY DEF Inv, TableInv, Exists
<1>2. /\ q \in Request
      /\ q.pc = pc /\ q.u = u /\ q.read = user[u] /\ q.new = new /\ q.others = {}
  BY <1>1 DEF Idle, Request
<1>3. req' = [req EXCEPT ![r] = q]
  BY DEF ReadThen
<1> HIDE DEF q
<1>4. req'[r] = q
  BY <1>3 DEF Inv, ReqInv
<1>5. Knows(r)'
  BY <1>1, <1>2, <1>4 DEF Knows, NeedsGuard, IsActiveAdmin
<1> QED BY <1>2, <1>3, <1>5, ReqStep

-----------------------------------------------------------------------------
(* Rows.                                                                   *)

LEMMA RowTyped ==
    /\ \A x \in Row, e \in BOOLEAN : [x EXCEPT !.enabled = e] \in Row
    /\ \A x \in Row, a \in BOOLEAN : [x EXCEPT !.admin = a] \in Row
    /\ \A x \in Row, e, a \in BOOLEAN : [x EXCEPT !.enabled = e, !.admin = a] \in Row
    /\ \A x \in Row, pw \in Passwords : [x EXCEPT !.pw = pw] \in Row
<1>1. \A x \in Row, e \in BOOLEAN : [x EXCEPT !.enabled = e] \in Row
  BY DEF Row
<1>2. \A x \in Row, a \in BOOLEAN : [x EXCEPT !.admin = a] \in Row
  BY DEF Row
<1>3. \A x \in Row, e, a \in BOOLEAN : [x EXCEPT !.enabled = e, !.admin = a] \in Row
  BY DEF Row
<1>4. \A x \in Row, pw \in Passwords : [x EXCEPT !.pw = pw] \in Row
  BY DEF Row
<1> QED BY <1>1, <1>2, <1>3, <1>4

\* A save leaves a row, and no row only where PostgreSQL finds none.
LEMMA SavedTyped ==
    ASSUME TableInv, NEW u \in Users, NEW row \in Row, NEW updates
    PROVE  /\ Saved(u, row, updates) \in Row \cup {None}
           /\ Exists(u) => Saved(u, row, updates) \in Row
<1>1. Exists(u) => user[u] \in Row
  BY DEF TableInv, Exists
<1>2. /\ SQLiteUpdateUser(u, row) \in Row
  <2>1. [row EXCEPT !.enabled = TRUE] \in Row
    BY RowTyped
  <2> QED BY <1>1, <2>1 DEF SQLiteUpdateUser
<1>3. /\ PostgresUpdateUser(u, row) \in Row \cup {None}
      /\ Exists(u) => PostgresUpdateUser(u, row) \in Row
  <2>1. CASE Exists(u)
    <3>1. /\ (row.enabled \/ user[u].enabled) \in BOOLEAN
          /\ (row.admin \/ user[u].admin) \in BOOLEAN
      BY SMT
    <3>2. [row EXCEPT !.enabled = row.enabled \/ user[u].enabled,
                      !.admin = row.admin \/ user[u].admin] \in Row
      BY <3>1, RowTyped
    <3> QED BY <2>1, <3>2 DEF PostgresUpdateUser
  <2>2. CASE ~Exists(u)
    BY <2>2 DEF PostgresUpdateUser
  <2> QED BY <2>1, <2>2
<1> QED BY <1>2, <1>3 DEF Saved

LEMMA SaveTyped ==
    ASSUME TableInv, NEW u \in Users, NEW read, NEW row \in Row, NEW updates,
           WriteUserRow(u, read, row, updates)
    PROVE  TableInv'
<1>1. user' = [user EXCEPT ![u] = Saved(u, row, updates)] /\ UNCHANGED ids
  BY DEF WriteUserRow
<1>2. user' \in [Users -> Row \cup {None}]
  BY <1>1, SavedTyped DEF TableInv
<1>3. acked' \in [Users -> Row \cup {None, Unclear}]
  BY DEF WriteUserRow, TableInv
<1> QED BY <1>1, <1>2, <1>3 DEF TableInv

LEMMA CreateTyped ==
    ASSUME TableInv, NEW u \in Users, NEW a \in BOOLEAN, NEW pw \in Passwords,
           CreateUserRow(u, a, pw)
    PROVE  /\ TableInv'
           /\ \E row \in Row : /\ user' = [user EXCEPT ![u] = row]
                               /\ acked' = [acked EXCEPT ![u] = row]
<1> DEFINE row == [id |-> ids + 1, enabled |-> TRUE, admin |-> a, pw |-> pw]
<1>1. ids + 1 \in 1..MaxId /\ ids' = ids + 1
  BY AccountsAssumption DEF CreateUserRow, TableInv
<1>2. row \in Row
  BY <1>1 DEF Row
<1>3. /\ user' = [user EXCEPT ![u] = row]
      /\ acked' = [acked EXCEPT ![u] = row]
  BY DEF CreateUserRow
<1> HIDE DEF row
<1>4. ids' \in 0..MaxId
  BY <1>1, AccountsAssumption
<1> QED BY <1>2, <1>3, <1>4 DEF TableInv

LEMMA DeleteTyped ==
    ASSUME TableInv, NEW u \in Users, DeleteUserRow(u)
    PROVE  TableInv'
BY DEF TableInv, DeleteUserRow

-----------------------------------------------------------------------------
(* The steps.                                                              *)

LEMMA TokenTyped ==
    ASSUME Inv, epoch >= 1, NEW u \in Users, NEW a \in BOOLEAN, GenerateToken(u, a)
    PROVE  tokens' \subseteq Token
<1>1. epoch \in 1..MaxEpoch
  BY DEF Inv, SessionInv
<1>2. [user |-> u, epoch |-> epoch, admin |-> a] \in Token
  BY <1>1 DEF Token
<1> QED BY <1>2 DEF GenerateToken, Inv, SessionInv

LEMMA BeginTyped ==
    ASSUME Inv, Begin
    PROVE  ops' \in 0..MaxOps
BY AccountsAssumption DEF Begin, Inv, SessionInv

\* Login and admission.
LEMMA AdmissionInv ==
    ASSUME Inv, NEW r \in Requests,
           ValidateCredentials(r) \/ HandleLogin(r) \/ LdapAuthenticate(r) \/ AdminMiddleware(r)
    PROVE  Inv'
<1>0. r \in Actors
  BY DEF Actors
<1>1. TableInv'
  BY DEF Inv, TableInv, ValidateCredentials, HandleLogin, LdapAuthenticate,
         AdminMiddleware, table
<1>2. CASE ValidateCredentials(r)
  <2>1. PICK u \in Users :
          req' = [req EXCEPT ![r] = [Idle EXCEPT !.pc = "token", !.u = u]]
    BY <1>2 DEF ValidateCredentials
  <2> DEFINE q == [Idle EXCEPT !.pc = "token", !.u = u]
  <2>2. q \in Request /\ q.pc = "token" /\ q.u = u
    BY DEF Idle, Request
  <2>3. up /\ UNCHANGED <<up, epoch, tokens, ops>>
    BY <1>2 DEF ValidateCredentials, session
  <2>4. req'[r] = q
    BY <1>0, <2>1 DEF Inv, ReqInv
  <2> HIDE DEF q
  <2>5. Knows(r)'
    BY <2>2, <2>3, <2>4 DEF Knows, Inv, SessionInv
  <2>6. ReqInv'
    BY <1>0, <2>1, <2>2, <2>3, <2>5, ReqStep DEF q
  <2> QED BY <1>1, <2>3, <2>6 DEF Inv, SessionInv
<1>3. CASE HandleLogin(r)
  <2>1. req[r].u \in Users /\ epoch >= 1
    BY <1>0, <1>3 DEF HandleLogin, Inv, ReqInv, Knows
  <2>2. GetUserAdmin(req[r].u) \in BOOLEAN
    <3>1. Exists(req[r].u) => user[req[r].u] \in Row
      BY <2>1 DEF Inv, TableInv, Exists
    <3> QED BY <3>1 DEF GetUserAdmin, Row
  <2>3. tokens' \subseteq Token
    BY <1>3, <2>1, <2>2, TokenTyped DEF HandleLogin
  <2>4. UNCHANGED <<up, epoch, ops>> /\ Done(r)
    BY <1>3 DEF HandleLogin
  <2>5. ReqInv'
    BY <1>0, <2>4, DoneStep
  <2> QED BY <1>1, <2>3, <2>4, <2>5 DEF Inv, SessionInv
<1>4. CASE LdapAuthenticate(r)
  <2>1. PICK u \in LdapUsers : GenerateToken(u, u \in LdapAdmins)
    BY <1>4 DEF LdapAuthenticate
  <2>2. u \in Users /\ (u \in LdapAdmins) \in BOOLEAN /\ epoch >= 1
    BY <1>4, AccountsAssumption DEF LdapAuthenticate, Inv, SessionInv
  <2>3. tokens' \subseteq Token
    BY <2>1, <2>2, TokenTyped
  <2>4. UNCHANGED <<up, epoch, req, ops>>
    BY <1>4 DEF LdapAuthenticate
  <2>5. ReqInv'
    BY <2>4 DEF Inv, ReqInv, Knows
  <2> QED BY <1>1, <2>3, <2>4, <2>5 DEF Inv, SessionInv
<1>5. CASE AdminMiddleware(r)
  <2>1. PICK tok \in tokens, u \in Users, op \in {"create", "update", "delete", "password"} :
          /\ Authenticate(tok) /\ GetUserAdmin(tok.user)
          /\ req' = [req EXCEPT ![r] = [Idle EXCEPT !.pc = op, !.by = tok.user, !.u = u]]
    BY <1>5, Zenon DEF AdminMiddleware
  <2> DEFINE q == [Idle EXCEPT !.pc = op, !.by = tok.user, !.u = u]
  <2>2. tok.user \in Users
    BY DEF Inv, SessionInv, Token
  <2>3. q \in Request /\ q.pc = op /\ q.u = u
    BY <2>2 DEF Idle, Request
  <2>4. UNCHANGED <<up, epoch, tokens>> /\ ops' \in 0..MaxOps
    BY <1>5, BeginTyped DEF AdminMiddleware
  <2>5. req'[r] = q
    BY <1>0, <2>1 DEF Inv, ReqInv
  <2> HIDE DEF q
  <2>6. Knows(r)'
    BY <2>3, <2>5 DEF Knows
  <2>7. ReqInv'
    BY <1>0, <2>1, <2>3, <2>4, <2>6, ReqStep DEF q
  <2> QED BY <1>1, <2>4, <2>7 DEF Inv, SessionInv
<1> QED BY <1>2, <1>3, <1>4, <1>5

\* The handlers that write at once.
LEMMA WriteInv ==
    ASSUME Inv, NEW r \in Actors,
           CreateUser(r) \/ DeleteUser(r) \/ SaveUser(r) \/ (r = Cli /\ SaveReset)
    PROVE  Inv'
<1>1. UNCHANGED session /\ Done(r)
  BY DEF CreateUser, DeleteUser, SaveUser, SaveReset
<1>2. ReqInv' /\ SessionInv'
  BY <1>1, DoneStep DEF Inv, SessionInv, session
<1>3. Knows(r)
  BY DEF Inv, ReqInv
<1>4. UNCHANGED table => TableInv'
  BY DEF Inv, TableInv, table
<1>5. ASSUME CreateUser(r) PROVE TableInv'
  BY <1>3, <1>4, <1>5, CreateTyped DEF CreateUser, Knows, Inv
<1>6. ASSUME DeleteUser(r) PROVE TableInv'
  BY <1>3, <1>4, <1>6, DeleteTyped DEF DeleteUser, Knows, Inv
<1>7. ASSUME SaveUser(r) PROVE TableInv'
  BY <1>3, <1>7, SaveTyped DEF SaveUser, Knows, Inv
<1>8. ASSUME r = Cli, SaveReset PROVE TableInv'
  BY <1>3, <1>8, SaveTyped, AccountsAssumption DEF SaveReset, Knows, Inv
<1> QED BY <1>2, <1>5, <1>6, <1>7, <1>8 DEF Inv

\* The handlers and commands that read a row and go on.
LEMMA ReadInv ==
    ASSUME Inv,
           \/ \E r \in Requests : UpdateUser(r) \/ ResetUserPassword(r)
           \/ SetUserFlags \/ SetUserPassword \/ ResetAdminPassword
    PROVE  Inv'
<1>1. UNCHANGED <<table, up, epoch, tokens>>
  BY DEF UpdateUser, ResetUserPassword, SetUserFlags, SetUserPassword,
         ResetAdminPassword, session
<1>2. TableInv' /\ epoch' = epoch
  BY <1>1 DEF Inv, TableInv, table
<1>3. ops' \in 0..MaxOps
  BY BeginTyped DEF UpdateUser, ResetUserPassword, SetUserFlags, SetUserPassword,
                    ResetAdminPassword, session, Inv, SessionInv
<1>4. SessionInv'
  BY <1>1, <1>3 DEF Inv, SessionInv
<1>5. \A u \in Users : Exists(u) => user[u] \in Row
  BY DEF Inv, TableInv, Exists
<1>6. Cli \in Actors /\ Requests \subseteq Actors
  BY DEF Actors
<1>7. ASSUME NEW r \in Requests, UpdateUser(r) PROVE ReqInv'
  <2> DEFINE u == req[r].u
  <2>1. u \in Users
    BY <1>6, <1>7 DEF UpdateUser, Inv, ReqInv, Knows
  <2>2. CASE Done(r)
    BY <1>2, <1>6, <2>2, DoneStep
  <2>3. CASE ~Done(r)
    <3>1. PICK e, a \in BOOLEAN :
            LET new == [user[u] EXCEPT !.enabled = e, !.admin = a]
            IN  ReadThen(r, u, new, IF NeedsGuard(user[u], new) THEN "list" ELSE "save")
      BY <1>7, <2>3 DEF UpdateUser
    <3> DEFINE new == [user[u] EXCEPT !.enabled = e, !.admin = a]
               pc == IF NeedsGuard(user[u], new) THEN "list" ELSE "save"
    <3>2. Exists(u)
      BY <1>7, <2>3 DEF UpdateUser
    <3>3. new \in Row
      BY <1>5, <2>1, <3>2, RowTyped
    <3>4. ReadThen(r, u, new, pc)
      BY <3>1
    <3> HIDE DEF new, u
    <3>5. pc \in {"list", "save"} /\ (pc = "save" => ~NeedsGuard(user[u], new))
      OBVIOUS
    <3> HIDE DEF pc
    <3> QED BY <1>2, <1>6, <2>1, <3>2, <3>3, <3>4, <3>5, ReadStep
  <2> QED BY <2>2, <2>3
<1>8. \A x \in Row, pw \in Passwords : ~NeedsGuard(x, [x EXCEPT !.pw = pw])
  <2>1. SUFFICES ASSUME NEW x \in Row, NEW pw \in Passwords
                 PROVE  ~NeedsGuard(x, [x EXCEPT !.pw = pw])
    OBVIOUS
  <2>2. [x EXCEPT !.pw = pw] # None
    BY NoneIsNoRow, RowTyped
  <2>3. [x EXCEPT !.pw = pw].enabled = x.enabled /\ [x EXCEPT !.pw = pw].admin = x.admin
    BY DEF Row
  <2> QED BY <2>2, <2>3 DEF NeedsGuard, IsActiveAdmin
<1>9. ASSUME NEW r \in Requests, ResetUserPassword(r) PROVE ReqInv'
  <2> DEFINE u == req[r].u
  <2>1. u \in Users
    BY <1>6, <1>9 DEF ResetUserPassword, Inv, ReqInv, Knows
  <2>2. CASE Done(r)
    BY <1>2, <1>6, <2>2, DoneStep
  <2>3. CASE ~Done(r)
    <3>1. PICK pw \in Passwords :
            Exists(u) /\ ReadThen(r, u, [user[u] EXCEPT !.pw = pw], "save")
      BY <1>9, <2>3 DEF ResetUserPassword
    <3> DEFINE new == [user[u] EXCEPT !.pw = pw]
    <3>2. new \in Row /\ ~NeedsGuard(user[u], new)
      BY <1>5, <1>8, <2>1, <3>1, RowTyped
    <3>3. Exists(u) /\ ReadThen(r, u, new, "save")
      BY <3>1
    <3> HIDE DEF new, u
    <3> QED BY <1>2, <1>6, <2>1, <3>2, <3>3, ReadStep
  <2> QED BY <2>2, <2>3
<1>10. ASSUME SetUserFlags PROVE ReqInv'
  <2>1. PICK u \in Users, v \in BOOLEAN, force \in BOOLEAN :
          /\ Exists(u)
          /\ \E new \in {[user[u] EXCEPT !.enabled = v], [user[u] EXCEPT !.admin = v]} :
                ReadThen(Cli, u, new,
                         IF NeedsGuard(user[u], new) /\ ~force THEN "list" ELSE "save")
    BY <1>10 DEF SetUserFlags
  <2>2. PICK new \in {[user[u] EXCEPT !.enabled = v], [user[u] EXCEPT !.admin = v]} :
          ReadThen(Cli, u, new,
                   IF NeedsGuard(user[u], new) /\ ~force THEN "list" ELSE "save")
    BY <2>1
  <2> DEFINE pc == IF NeedsGuard(user[u], new) /\ ~force THEN "list" ELSE "save"
  <2>3. new \in Row
    <3>1. user[u] \in Row
      BY <1>5, <2>1
    <3>2. [user[u] EXCEPT !.enabled = v] \in Row /\ [user[u] EXCEPT !.admin = v] \in Row
      BY <3>1, RowTyped
    <3> QED BY <3>2, Zenon
  <2>4. ReadThen(Cli, u, new, pc) /\ pc \in {"list", "save"}
    BY <2>2
  <2> HIDE DEF pc
  <2> QED BY <1>2, <1>6, <2>1, <2>3, <2>4, ReadStep
<1>11. ASSUME SetUserPassword PROVE ReqInv'
  <2>1. PICK u \in Users, pw \in Passwords :
          Exists(u) /\ ReadThen(Cli, u, [user[u] EXCEPT !.pw = pw], "save")
    BY <1>11 DEF SetUserPassword
  <2>2. [user[u] EXCEPT !.pw = pw] \in Row
    BY <1>5, <2>1, RowTyped
  <2> QED BY <1>2, <1>6, <2>1, <2>2, ReadStep
<1>12. ASSUME ResetAdminPassword PROVE ReqInv'
  <2>1. Exists(Admin) /\ Admin \in Users
    BY <1>12, AccountsAssumption DEF ResetAdminPassword
  <2>2. PICK pw \in Passwords : ReadThen(Cli, Admin, [user[Admin] EXCEPT !.pw = pw], "reset")
    BY <1>12 DEF ResetAdminPassword
  <2> DEFINE new == [user[Admin] EXCEPT !.pw = pw]
  <2>3. new \in Row /\ ~NeedsGuard(user[Admin], new)
    BY <1>5, <1>8, <2>1, RowTyped
  <2>4. ReadThen(Cli, Admin, new, "reset")
    BY <2>2
  <2> HIDE DEF new
  <2> QED BY <1>2, <1>6, <2>1, <2>3, <2>4, ReadStep
<1> QED BY <1>2, <1>4, <1>7, <1>9, <1>10, <1>11, <1>12 DEF Inv

\* The listing goes on only with other active admins in sight.
LEMMA ListInv ==
    ASSUME Inv, NEW r \in Actors, ListUsers(r)
    PROVE  Inv'
<1> DEFINE others == ActiveAdmins \ {req[r].u}
           q == [req[r] EXCEPT !.pc = "save", !.others = others]
<1>1. UNCHANGED <<table, session>> /\ req[r].pc = "list"
  BY DEF ListUsers
<1>2. TableInv' /\ SessionInv' /\ epoch' = epoch
  BY <1>1 DEF Inv, TableInv, SessionInv, table, session
<1>3. CASE others = {}
  <2>1. Done(r)
    BY <1>3 DEF ListUsers, Done
  <2> QED BY <1>2, <2>1, DoneStep DEF Inv
<1>4. CASE others # {}
  <2>1. req' = [req EXCEPT ![r] = q]
    BY <1>4 DEF ListUsers
  <2>2. req[r] \in Request /\ Knows(r)
    BY DEF Inv, ReqInv
  <2>3. others \in SUBSET Users
    BY DEF ActiveAdmins
  <2>4. /\ q \in Request
        /\ q.pc = "save" /\ q.others = others
        /\ q.u = req[r].u /\ q.read = req[r].read /\ q.new = req[r].new
    BY <2>2, <2>3 DEF Request
  <2>5. req'[r] = q
    BY <2>1 DEF Inv, ReqInv
  <2>6. q.u \notin others
    BY <2>4
  <2> HIDE DEF q, others
  <2>7. Knows(r)'
    BY <1>1, <1>4, <2>2, <2>4, <2>5, <2>6 DEF Knows
  <2>8. ReqInv'
    BY <1>2, <2>1, <2>4, <2>7, ReqStep DEF q
  <2> QED BY <1>2, <2>8 DEF Inv
<1> QED BY <1>3, <1>4

\* The server's start and end.
LEMMA ProcessInv ==
    ASSUME Inv, TokenExpires \/ NewManager \/ Exit
    PROVE  Inv'
<1>1. CASE TokenExpires
  BY <1>1 DEF TokenExpires, Inv, ReqInv, SessionInv, TableInv, Knows, table
<1>2. CASE NewManager
  <2>1. TableInv'
    <3>1. CASE UNCHANGED table
      BY <3>1 DEF Inv, TableInv, table
    <3>2. CASE \E pw \in Passwords : CreateUserRow(Admin, TRUE, pw)
      BY <3>2, CreateTyped, AccountsAssumption DEF Inv
    <3> QED BY <1>2, <3>1, <3>2 DEF NewManager, EnsureAdminUser
  <2>2. SessionInv'
    BY <1>2, AccountsAssumption DEF NewManager, Inv, SessionInv
  <2>3. epoch' >= epoch /\ UNCHANGED req
    BY <1>2 DEF NewManager, Inv, SessionInv
  <2>4. ReqInv'
    BY <2>2, <2>3 DEF Inv, ReqInv, Knows, SessionInv
  <2> QED BY <2>1, <2>2, <2>4 DEF Inv
<1>3. CASE Exit
  <2>1. req' = [r \in Actors |-> IF r = Cli THEN req[r] ELSE Idle]
    BY <1>3 DEF Exit
  <2>2. UNCHANGED <<table, epoch, tokens, ops>> /\ up' = FALSE
    BY <1>3 DEF Exit
  <2>3. req' \in [Actors -> Request]
    BY <2>1, IdleKnows DEF Inv, ReqInv
  <2>4. ASSUME NEW r \in Actors PROVE Knows(r)'
    <3>1. req'[r] = req[r] \/ req'[r] = Idle
      BY <2>1
    <3>2. Knows(r)
      BY DEF Inv, ReqInv
    <3> QED BY <2>2, <3>1, <3>2, IdleKnows DEF Knows
  <2> QED BY <2>2, <2>3, <2>4 DEF Inv, ReqInv, SessionInv, TableInv, table
<1> QED BY <1>1, <1>2, <1>3

LEMMA InvNext == Inv /\ [Next]_vars => Inv'
<1> SUFFICES ASSUME Inv, [Next]_vars PROVE Inv'
  OBVIOUS
<1>1. CASE UNCHANGED vars
  BY <1>1 DEF vars, Inv, ReqInv, SessionInv, TableInv, Knows
<1>2. ASSUME NEW r \in Requests, Handler(r) PROVE Inv'
  BY <1>2, AdmissionInv, WriteInv, ReadInv DEF Handler, Actors
<1>3. ASSUME NEW r \in Actors, ListUsers(r) \/ SaveUser(r) PROVE Inv'
  BY <1>3, ListInv, WriteInv
<1>4. CASE SaveReset
  BY <1>4, WriteInv DEF Actors
<1> QED BY <1>1, <1>2, <1>3, <1>4, ReadInv, ProcessInv DEF Next

LEMMA InvInit == Init => Inv
<1> SUFFICES ASSUME Init PROVE Inv
  OBVIOUS
<1>1. ReqInv
  BY IdleKnows DEF Init, ReqInv, Knows
<1>2. SessionInv
  <2>1. up = FALSE /\ epoch = 0 /\ tokens = {} /\ ops = 0
    BY DEF Init
  <2>2. epoch \in 0..MaxEpoch /\ ops \in 0..MaxOps
    BY <2>1, AccountsAssumption
  <2> QED BY <2>1, <2>2 DEF SessionInv
<1>3. TableInv
  BY AccountsAssumption DEF Init, TableInv
<1> QED BY <1>1, <1>2, <1>3 DEF Inv

\* Every reachable state of the accounts is well typed.
THEOREM AccountsTypeCorrect == Spec => []TypeOK
<1>1. Inv => TypeOK
  BY DEF Inv, ReqInv, SessionInv, TableInv, TypeOK
<1> QED BY <1>1, InvInit, InvNext, PTL DEF Spec

-----------------------------------------------------------------------------
(* What the table holds.                                                   *)

\* While the server runs, the account named admin exists: it is created
\* before the server answers, and nothing deletes it.
THEOREM AdminRowIsKept == Spec => []AdminRowKept
<1>1. Inv /\ AdminRowKept /\ [Next]_vars => AdminRowKept'
  <2> SUFFICES ASSUME Inv, AdminRowKept, [Next]_vars PROVE AdminRowKept'
    OBVIOUS
  <2>0. Admin \in Users /\ user \in [Users -> Row \cup {None}]
    BY AccountsAssumption DEF Inv, TableInv
  <2>1. CASE UNCHANGED <<user, up>>
    BY <2>1 DEF AdminRowKept, Exists
  <2>2. ASSUME NEW u \in Users, NEW row \in Row, user' = [user EXCEPT ![u] = row], UNCHANGED up
        PROVE  AdminRowKept'
    BY <2>0, <2>2, NoneIsNoRow DEF AdminRowKept, Exists
  <2>3. ASSUME NEW u \in Users, NEW read, NEW row \in Row, NEW updates,
               WriteUserRow(u, read, row, updates), UNCHANGED up
        PROVE  AdminRowKept'
    <3>1. user' = [user EXCEPT ![u] = Saved(u, row, updates)]
      BY <2>3 DEF WriteUserRow
    <3>2. Exists(u) => Saved(u, row, updates) \in Row
      BY SavedTyped DEF Inv
    <3> QED BY <2>0, <2>3, <3>1, <3>2, NoneIsNoRow DEF AdminRowKept, Exists
  <2>4. ASSUME NEW r \in Requests, CreateUser(r) PROVE AdminRowKept'
    <3>1. req[r].u \in Users
      BY <2>4 DEF Inv, ReqInv, Knows, CreateUser, Actors
    <3>2. UNCHANGED up
      BY <2>4 DEF CreateUser, session
    <3>3. CASE UNCHANGED table
      BY <2>1, <3>2, <3>3 DEF table
    <3> QED BY <2>2, <2>4, <3>1, <3>2, <3>3, CreateTyped DEF CreateUser, Inv
  <2>5. ASSUME NEW r \in Requests, DeleteUser(r) PROVE AdminRowKept'
    BY <2>0, <2>5 DEF DeleteUser, DeleteUserRow, table, session, AdminRowKept, Exists
  <2>6. ASSUME NEW r \in Actors, SaveUser(r) PROVE AdminRowKept'
    <3>1. req[r].u \in Users /\ req[r].new \in Row
      BY <2>6 DEF Inv, ReqInv, Knows, SaveUser
    <3> QED BY <2>3, <2>6, <3>1 DEF SaveUser, session
  <2>7. CASE SaveReset
    <3>1. req[Cli].new \in Row
      BY <2>7 DEF Inv, ReqInv, Knows, SaveReset, Actors
    <3> QED BY <2>0, <2>3, <2>7, <3>1 DEF SaveReset, session
  <2>8. CASE NewManager
    <3>1. CASE Exists(Admin)
      BY <2>8, <3>1 DEF NewManager, EnsureAdminUser, table, AdminRowKept, Exists
    <3>2. CASE \E pw \in Passwords : CreateUserRow(Admin, TRUE, pw)
      <4>1. PICK row \in Row : user' = [user EXCEPT ![Admin] = row]
        BY <2>0, <3>2, CreateTyped DEF Inv
      <4> QED BY <2>0, <4>1, NoneIsNoRow DEF AdminRowKept, Exists
    <3> QED BY <2>8, <3>1, <3>2 DEF NewManager, EnsureAdminUser
  <2>9. CASE Exit
    BY <2>9 DEF Exit, AdminRowKept
  <2> QED
    BY <2>1, <2>4, <2>5, <2>6, <2>7, <2>8, <2>9
       DEF Next, Handler, ValidateCredentials, HandleLogin, LdapAuthenticate,
           AdminMiddleware, UpdateUser, ResetUserPassword, ListUsers, SetUserFlags,
           SetUserPassword, ResetAdminPassword, TokenExpires, table, session, vars
<1>2. Init => AdminRowKept
  BY DEF Init, AdminRowKept
<1> QED BY <1>1, <1>2, InvInit, InvNext, PTL DEF Spec

\* A gorm Save from a copy that is still the row stores the copy.
LEMMA SaveConfirms ==
    ASSUME TableInv, ConfirmedIsStored, NEW u \in Users,
           NEW read \in Row, NEW row \in Row, WriteUserRow(u, read, row, FALSE)
    PROVE  ConfirmedIsStored'
<1>1. user' = [user EXCEPT ![u] = SQLiteUpdateUser(u, row)]
  BY DEF WriteUserRow, Saved
<1>2. CASE Conflict(u, row, FALSE)
  <2>1. SQLiteUpdateUser(u, row) = user[u]
    BY <1>2 DEF Conflict, SQLiteUpdateUser
  <2> QED BY <1>1, <1>2, <2>1 DEF WriteUserRow, TableInv, ConfirmedIsStored
<1>3. CASE ~Conflict(u, row, FALSE)
  <2>1. acked' = [acked EXCEPT ![u] = IF user[u] = read THEN row ELSE Unclear]
    BY <1>3 DEF WriteUserRow
  <2>2. ASSUME user[u] = read PROVE SQLiteUpdateUser(u, row) = row
    <3>1. Exists(u)
      BY <2>2, NoneIsNoRow DEF Exists
    <3>2. user[u].id = row.id
      BY <1>3, <3>1 DEF Conflict
    <3> QED BY <3>1, <3>2 DEF SQLiteUpdateUser
  <2> HIDE DEF SQLiteUpdateUser
  <2> QED BY <1>1, <2>1, <2>2 DEF TableInv, ConfirmedIsStored
<1> QED BY <1>2, <1>3

LEMMA ConfirmedNext ==
    ASSUME ~Postgres
    PROVE  Inv /\ ConfirmedIsStored /\ [Next]_vars => ConfirmedIsStored'
<1> SUFFICES ASSUME Inv, ConfirmedIsStored, [Next]_vars PROVE ConfirmedIsStored'
  OBVIOUS
<1>0. TableInv
  BY DEF Inv
<1>1. CASE UNCHANGED table
  BY <1>1 DEF table, ConfirmedIsStored
<1>2. ASSUME NEW u \in Users, NEW row, user' = [user EXCEPT ![u] = row],
             acked' = [acked EXCEPT ![u] = row]
      PROVE  ConfirmedIsStored'
  BY <1>0, <1>2 DEF TableInv, ConfirmedIsStored
<1>3. ASSUME NEW r \in Requests, CreateUser(r) PROVE ConfirmedIsStored'
  <2>1. req[r].u \in Users
    BY <1>3 DEF Inv, ReqInv, Knows, CreateUser, Actors
  <2> QED BY <1>0, <1>1, <1>2, <1>3, <2>1, CreateTyped DEF CreateUser
<1>4. ASSUME NEW r \in Requests, DeleteUser(r) PROVE ConfirmedIsStored'
  <2>1. req[r].u \in Users
    BY <1>4 DEF Inv, ReqInv, Knows, DeleteUser, Actors
  <2> QED BY <1>1, <1>2, <1>4, <2>1 DEF DeleteUser, DeleteUserRow
<1>5. ASSUME NEW r \in Actors, SaveUser(r) PROVE ConfirmedIsStored'
  <2>1. req[r].u \in Users /\ req[r].read \in Row /\ req[r].new \in Row
    BY <1>5 DEF Inv, ReqInv, Knows, SaveUser
  <2>2. Postgres = FALSE
    BY AccountsAssumption
  <2> QED BY <1>0, <1>5, <2>1, <2>2, SaveConfirms DEF SaveUser
<1>6. CASE SaveReset
  <2>1. req[Cli].read \in Row /\ req[Cli].new \in Row /\ Admin \in Users
    <3>1. req[Cli].pc = "reset" /\ Knows(Cli)
      BY <1>6 DEF Inv, ReqInv, SaveReset, Actors
    <3> QED BY <3>1, AccountsAssumption DEF Knows
  <2> QED BY <1>0, <1>6, <2>1, SaveConfirms DEF SaveReset
<1>7. CASE NewManager
  <2>1. Admin \in Users
    BY AccountsAssumption
  <2> QED BY <1>0, <1>1, <1>2, <1>7, <2>1, CreateTyped DEF NewManager, EnsureAdminUser
<1> QED
  BY <1>1, <1>3, <1>4, <1>5, <1>6, <1>7
     DEF Next, Handler, ValidateCredentials, HandleLogin, LdapAuthenticate,
         AdminMiddleware, UpdateUser, ResetUserPassword, ListUsers, SetUserFlags,
         SetUserPassword, ResetAdminPassword, TokenExpires, Exit, table, vars

\* With SQLite every account is as it was last confirmed, however requests
\* and commands interleave, unless its row was saved from a copy that was no
\* longer the row.  With PostgreSQL this fails.
THEOREM SQLiteConfirmedIsStored ==
    ASSUME ~Postgres
    PROVE  Spec => []ConfirmedIsStored
<1>1. Init => ConfirmedIsStored
  BY DEF Init, ConfirmedIsStored
<1> QED BY <1>1, ConfirmedNext, InvInit, InvNext, PTL DEF Spec

\* With SQLite a request is let through to an administrator's handler only
\* for a user who is an active admin as last confirmed, whatever its token
\* says.
THEOREM RevocationIsEffective ==
    ASSUME ~Postgres
    PROVE  Spec => RevocationEffective
<1> DEFINE Admitted == \A r \in Requests : LET u == req'[r].by IN
             (req[r].by = None /\ u # None /\ acked[u] # Unclear) => IsActiveAdmin(acked[u])
<1>1. Inv /\ ConfirmedIsStored /\ [Next]_vars => [Admitted]_vars
  <2> SUFFICES ASSUME Inv, ConfirmedIsStored, [Next]_vars PROVE Admitted \/ UNCHANGED vars
    OBVIOUS
  <2>0. req \in [Actors -> Request] /\ Requests \subseteq Actors
    BY DEF Inv, ReqInv, Actors
  <2>1. ASSUME NEW r \in Actors, NEW q, req' = [req EXCEPT ![r] = q],
               q.by \in {None, req[r].by}
        PROVE  Admitted
    BY <2>0, <2>1
  <2>2. ASSUME NEW r \in Actors, Done(r) PROVE Admitted
    BY <2>1, <2>2, IdleKnows DEF Done
  <2>3. ASSUME NEW r \in Actors, NEW u, NEW new, NEW pc, ReadThen(r, u, new, pc)
        PROVE  Admitted
    <3>1. [Idle EXCEPT !.pc = pc, !.u = u, !.read = user[u], !.new = new].by = None
      BY DEF Idle
    <3> QED BY <2>1, <2>3, <3>1 DEF ReadThen
  <2>4. CASE UNCHANGED req
    BY <2>4
  <2>5. ASSUME NEW r \in Requests, AdminMiddleware(r) PROVE Admitted
    <3>1. PICK tok \in tokens, x \in Users, op \in {"create", "update", "delete", "password"} :
            /\ Authenticate(tok) /\ GetUserAdmin(tok.user)
            /\ req' = [req EXCEPT ![r] = [Idle EXCEPT !.pc = op, !.by = tok.user, !.u = x]]
      BY <2>5, Zenon DEF AdminMiddleware
    <3>2. IsActiveAdmin(user[tok.user]) /\ tok.user \in Users
      BY <3>1 DEF Authenticate, GetUserAdmin, Exists, IsActiveAdmin, Inv, SessionInv, Token
    <3>3. [Idle EXCEPT !.pc = op, !.by = tok.user, !.u = x].by = tok.user
      BY DEF Idle
    <3>4. acked[tok.user] # Unclear => acked[tok.user] = user[tok.user]
      BY <3>2 DEF ConfirmedIsStored
    <3>5. req'[r].by = tok.user /\ \A y \in Requests : y # r => req'[y] = req[y]
      BY <2>0, <3>1, <3>3
    <3> QED BY <3>2, <3>4, <3>5
  <2>6. ASSUME NEW r \in Requests, ValidateCredentials(r) PROVE Admitted
    <3>1. PICK u \in Users :
            req' = [req EXCEPT ![r] = [Idle EXCEPT !.pc = "token", !.u = u]]
      BY <2>6 DEF ValidateCredentials
    <3>2. [Idle EXCEPT !.pc = "token", !.u = u].by = None
      BY DEF Idle
    <3> QED BY <2>0, <2>1, <3>1, <3>2
  <2>7. ASSUME NEW r \in Actors, ListUsers(r) PROVE Admitted
    <3> DEFINE q == [req[r] EXCEPT !.pc = "save", !.others = ActiveAdmins \ {req[r].u}]
    <3>1. q.by = req[r].by
      BY <2>0 DEF Request
    <3>2. Done(r) \/ req' = [req EXCEPT ![r] = q]
      BY <2>7 DEF ListUsers, Done
    <3> HIDE DEF q
    <3> QED BY <2>1, <2>2, <3>1, <3>2
  <2>8. CASE Exit
    BY <2>0, <2>8, IdleKnows DEF Exit
  <2>9. ASSUME NEW r \in Requests, UpdateUser(r) \/ ResetUserPassword(r) PROVE Admitted
    <3>1. CASE UpdateUser(r)
      BY <2>0, <2>2, <2>3, <3>1 DEF UpdateUser
    <3>2. CASE ResetUserPassword(r)
      BY <2>0, <2>2, <2>3, <3>2 DEF ResetUserPassword
    <3> QED BY <2>9, <3>1, <3>2
  <2>10. ASSUME SetUserFlags \/ SetUserPassword \/ ResetAdminPassword PROVE Admitted
    <3>1. Cli \in Actors
      BY DEF Actors
    <3>2. \E u, new, pc : ReadThen(Cli, u, new, pc)
      BY <2>10 DEF SetUserFlags, SetUserPassword, ResetAdminPassword
    <3> QED BY <2>3, <3>1, <3>2
  <2>11. ASSUME NEW r \in Requests, HandleLogin(r) \/ CreateUser(r) \/ DeleteUser(r)
         PROVE  Admitted
    BY <2>0, <2>2, <2>11 DEF HandleLogin, CreateUser, DeleteUser
  <2>12. ASSUME NEW r \in Actors, SaveUser(r) PROVE Admitted
    BY <2>2, <2>12 DEF SaveUser
  <2>13. ASSUME SaveReset PROVE Admitted
    BY <2>2, <2>13 DEF SaveReset, Actors
  <2> HIDE DEF Admitted
  <2> QED
    BY <2>4, <2>5, <2>6, <2>7, <2>8, <2>9, <2>10, <2>11, <2>12, <2>13
       DEF Next, Handler, LdapAuthenticate, TokenExpires, NewManager
<1>2. Spec => [](Inv /\ ConfirmedIsStored)
  BY SQLiteConfirmedIsStored, InvInit, InvNext, PTL DEF Spec
<1> QED BY <1>1, <1>2, PTL DEF Spec, RevocationEffective

-----------------------------------------------------------------------------
(* The last active admin.                                                  *)

\* A save from the current row makes the user an active admin when the copy
\* is one, with either store.
LEMMA SavedActive ==
    ASSUME TableInv, NEW u \in Users, NEW row \in Row, NEW updates, Exists(u),
           IsActiveAdmin(user[u]), IsActiveAdmin(row)
    PROVE  IsActiveAdmin(Saved(u, row, updates))
<1>1. IsActiveAdmin(SQLiteUpdateUser(u, row))
  BY DEF SQLiteUpdateUser
<1>2. IsActiveAdmin(PostgresUpdateUser(u, row))
  <2> DEFINE x == [row EXCEPT !.enabled = row.enabled \/ user[u].enabled,
                              !.admin = row.admin \/ user[u].admin]
  <2>1. PostgresUpdateUser(u, row) = x
    BY DEF PostgresUpdateUser
  <2>2. x.enabled = (row.enabled \/ user[u].enabled) /\ x.admin = (row.admin \/ user[u].admin)
    BY DEF Row
  <2>3. x # None
    <3>1. /\ (row.enabled \/ user[u].enabled) \in BOOLEAN
          /\ (row.admin \/ user[u].admin) \in BOOLEAN
      BY SMT
    <3>2. x \in Row
      BY <3>1, RowTyped
    <3> QED BY <3>2, NoneIsNoRow
  <2>4. row.enabled /\ row.admin
    BY DEF IsActiveAdmin
  <2> HIDE DEF x
  <2> QED BY <2>1, <2>2, <2>3, <2>4 DEF IsActiveAdmin
<1> QED BY <1>1, <1>2 DEF Saved

\* An active admin other than the one a step changes stays one.
LEMMA OthersStayActive ==
    ASSUME TableInv, NEW u \in Users, NEW row, user' = [user EXCEPT ![u] = row],
           NEW x \in ActiveAdmins, x # u
    PROVE  x \in ActiveAdmins'
BY DEF TableInv, ActiveAdmins

\* Losing the last active admin takes a deletion, --force, a row that was
\* changed under the one that saves it, or a guard whose other admins have all gone
\* since: the guard itself is sound, with either store.
THEOREM GuardIsSound == Spec => GuardSound
<1> DEFINE Lost == ActiveAdmins # {} /\ ActiveAdmins' = {}
           Excused(r) ==
             \/ req[r].pc = "delete"
             \/ req[r].pc \in {"save", "reset"} /\ user[req[r].u] # req[r].read
             \/ /\ req[r].pc = "save"
                /\ \/ r = Cli /\ req[r].others = {}
                   \/ req[r].others # {} /\ req[r].others \cap ActiveAdmins = {}
           Sound == Lost => \E r \in Actors : Excused(r)
<1>1. Inv /\ [Next]_vars => [Sound]_vars
  <2> SUFFICES ASSUME Inv, [Next]_vars, Lost PROVE \E r \in Actors : Excused(r)
    OBVIOUS
  <2>0. TableInv /\ user \in [Users -> Row \cup {None}]
    BY DEF Inv, TableInv
  <2>1. CASE UNCHANGED user
    BY <2>1 DEF ActiveAdmins
  <2>2. ASSUME NEW u \in Users, NEW row, user' = [user EXCEPT ![u] = row], ~Exists(u)
        PROVE  FALSE
    <3>1. PICK x \in ActiveAdmins : TRUE
      OBVIOUS
    <3>2. x # u
      BY <2>2 DEF Exists, ActiveAdmins, IsActiveAdmin
    <3> QED BY <2>0, <2>2, <3>1, <3>2, OthersStayActive
  <2>3. ASSUME NEW r \in Requests, CreateUser(r) PROVE FALSE
    <3>1. req[r].u \in Users
      BY <2>3 DEF Inv, ReqInv, Knows, CreateUser, Actors
    <3>2. CASE UNCHANGED table
      BY <3>2 DEF table, ActiveAdmins
    <3> QED BY <2>0, <2>2, <2>3, <3>1, <3>2, CreateTyped DEF CreateUser
  <2>4. ASSUME NEW r \in Requests, DeleteUser(r) PROVE \E q \in Actors : Excused(q)
    BY <2>4 DEF DeleteUser, Actors
  <2>5. ASSUME NEW u \in Users, NEW read, NEW row \in Row, NEW updates,
               WriteUserRow(u, read, row, updates),
               Exists(u), IsActiveAdmin(user[u]) => IsActiveAdmin(row)
        PROVE  FALSE
    <3>1. PICK x \in ActiveAdmins : TRUE
      OBVIOUS
    <3>2. user' = [user EXCEPT ![u] = Saved(u, row, updates)]
      BY <2>5 DEF WriteUserRow
    <3>3. CASE x # u
      BY <2>0, <3>1, <3>2, <3>3, OthersStayActive
    <3>4. CASE x = u
      <4>1. IsActiveAdmin(Saved(u, row, updates))
        BY <2>0, <2>5, <3>1, <3>4, SavedActive DEF ActiveAdmins
      <4>2. user'[u] = Saved(u, row, updates)
        BY <2>0, <3>2
      <4>3. u \in ActiveAdmins'
        BY <4>1, <4>2 DEF ActiveAdmins
      <4> QED BY <4>3
    <3> QED BY <3>3, <3>4
  <2>6. ASSUME NEW r \in Actors, SaveUser(r) PROVE Excused(r)
    <3> DEFINE u == req[r].u
    <3>1. /\ req[r].pc = "save" /\ u \in Users
          /\ req[r].read \in Row /\ req[r].new \in Row
          /\ u \notin req[r].others
          /\ r # Cli /\ req[r].others = {} => ~NeedsGuard(req[r].read, req[r].new)
      BY <2>6 DEF Inv, ReqInv, Knows, SaveUser
    <3>2. SUFFICES ASSUME ~(r = Cli /\ req[r].others = {}), user[u] = req[r].read,
                          req[r].others # {} => req[r].others \cap ActiveAdmins # {}
                   PROVE  FALSE
      BY <3>1
    <3>3. WriteUserRow(u, req[r].read, req[r].new, Postgres)
      BY <2>6 DEF SaveUser
    <3>4. CASE req[r].others = {}
      <4>1. Exists(u)
        BY <3>1, <3>2, NoneIsNoRow DEF Exists
      <4>2. IsActiveAdmin(user[u]) => IsActiveAdmin(req[r].new)
        BY <3>1, <3>2, <3>4 DEF NeedsGuard
      <4> QED BY <2>5, <3>1, <3>3, <4>1, <4>2
    <3>5. CASE req[r].others # {}
      <4>1. PICK x \in ActiveAdmins : x # u
        BY <3>1, <3>2, <3>5
      <4>2. user' = [user EXCEPT ![u] = Saved(u, req[r].new, Postgres)]
        BY <3>3 DEF WriteUserRow
      <4> QED BY <2>0, <3>1, <4>1, <4>2, OthersStayActive
    <3> QED BY <3>4, <3>5
  <2>7. ASSUME SaveReset PROVE Excused(Cli)
    <3>1. /\ req[Cli].pc = "reset" /\ req[Cli].u = Admin /\ Admin \in Users
          /\ req[Cli].read \in Row /\ req[Cli].new \in Row
          /\ ~NeedsGuard(req[Cli].read, req[Cli].new)
      BY <2>7, AccountsAssumption DEF Inv, ReqInv, Knows, SaveReset, Actors
    <3>2. SUFFICES ASSUME user[Admin] = req[Cli].read PROVE FALSE
      BY <3>1
    <3>3. WriteUserRow(Admin, req[Cli].read, req[Cli].new, FALSE)
      BY <2>7 DEF SaveReset
    <3>4. Exists(Admin)
      BY <3>1, <3>2, NoneIsNoRow DEF Exists
    <3>5. IsActiveAdmin(user[Admin]) => IsActiveAdmin(req[Cli].new)
      BY <3>1, <3>2 DEF NeedsGuard
    <3> QED BY <2>5, <3>1, <3>3, <3>4, <3>5
  <2>8. ASSUME NewManager PROVE FALSE
    <3>1. Admin \in Users
      BY AccountsAssumption
    <3>2. CASE UNCHANGED table
      BY <3>2 DEF table, ActiveAdmins
    <3>3. CASE ~Exists(Admin) /\ \E pw \in Passwords : CreateUserRow(Admin, TRUE, pw)
      BY <2>0, <2>2, <3>1, <3>3, CreateTyped
    <3> QED BY <2>8, <3>2, <3>3 DEF NewManager, EnsureAdminUser
  <2> HIDE DEF Lost, Excused
  <2> QED
    BY <2>1, <2>3, <2>4, <2>6, <2>7, <2>8
       DEF Next, Handler, ValidateCredentials, HandleLogin, LdapAuthenticate,
           AdminMiddleware, UpdateUser, ResetUserPassword, ListUsers, SetUserFlags,
           SetUserPassword, ResetAdminPassword, TokenExpires, Exit, Actors, table, vars
<1> QED BY <1>1, InvInit, InvNext, PTL DEF Spec, GuardSound
=============================================================================
