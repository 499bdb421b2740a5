SPECIFICATION Spec
CONSTANTS
    NULL = NULL
    admin = admin
    ann = ann
    p = p
    q = q
    UserNames = {admin, ann}
    Bootstrap = admin
    Passwords = {p, q}
    SeedPassword = p
    Creates <- TwoRoles
    Updates <- EachColumn
    Workers = {w1}
    MaxAccount = 3
    MaxAttempt = 2
    LockoutAttempts = 2
    WindowAge = 0
    SessionAge = 0
    CleanupAge = 0
    TokenAge = 0
INVARIANTS
    TypeOK
    GivenMustChange
