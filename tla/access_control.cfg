SPECIFICATION AccessSpec
CONSTANTS
    Clients = {c1, c2}
    Emails = {m1, m2}
    Passwords = {p1, p2}
    MaxUsers = 2
    MaxSignups = 2
    MaxRoleChanges = 2
SYMMETRY AccessSymmetry
INVARIANTS
    AccountsTypeOK
    OneSignupWins
    LoginKnowsSignup
    AdminsOnly
CHECK_DEADLOCK FALSE
