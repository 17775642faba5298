SPECIFICATION Spec
CONSTANTS
    Users = {admin, bob}
    Admin = admin
    Passwords = {p1, p2}
    LdapUsers = {bob}
    LdapAdmins = {bob}
    Requests = {r1}
    Cli = cli
    None = None
    Unclear = Unclear
    Postgres = FALSE
    MaxEpoch = 2
    MaxId = 3
    MaxOps = 4
INVARIANTS
    LdapAdminsAdmitted
CHECK_DEADLOCK FALSE
