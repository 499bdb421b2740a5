SPECIFICATION FairSpec
CONSTANTS
    NULL = NULL
    admin = admin
    ann = ann
    p = p
    q = q
    UserNames = {admin}
    Bootstrap = admin
    Passwords = {p, q}
    SeedPassword = p
    Creates <- None
    Updates <- None
    Workers = {w1, w2}
    MaxAccount = 1
    MaxAttempt = 4
    LockoutAttempts = 2
    WindowAge = 1
    SessionAge = 1
    CleanupAge = 1
    TokenAge = 0
INVARIANTS
    FailuresBounded
PROPERTIES
    LockExpires
