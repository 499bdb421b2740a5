----------------------------- MODULE AdminAccounts -----------------------------
(***************************************************************************)
(* Operators of the panel: their accounts (routers/admin_users.py), login  *)
(* and password change (routers/auth.py), the lockout computed from the    *)
(* log of login attempts (services/lockout.py), and the middleware that    *)
(* holds back a caller who has to change the password first.               *)
(*                                                                         *)
(* As in AccessPolicies a request reads one snapshot, holds its write and  *)
(* commits later.  The log_audit that ends each request writes a table     *)
(* nothing here reads and is left out, but a token is handed out only      *)
(* after it.  Time passes in ticks: a row of login_attempts and a token    *)
(* carry their age, and an age beyond CleanupAge is told from no other.    *)
(***************************************************************************)
EXTENDS Integers, FiniteSets

CONSTANTS
    NULL,
    UserNames,      \* names that may log in, with or without an account
    Bootstrap,      \* "admin", the account seed_admin creates
    Passwords,      \* texts of passwords
    SeedPassword,   \* the --password of seed_admin
    Creates,        \* bodies of POST /admin-users
    Updates,        \* bodies of PUT /admin-users/{id}
    Workers,        \* requests the backend can be serving at one time
    MaxAccount,     \* bound: account ids ever handed out
    MaxAttempt,     \* bound: rows login_attempts has, the clean-up done, before one is added
    LockoutAttempts,    \* LOCKOUT_ATTEMPTS
    WindowAge,      \* LOCKOUT_WINDOW_MINUTES, in ticks
    SessionAge,     \* RECENT_SESSION_MINUTES
    CleanupAge,     \* CLEANUP_AGE_HOURS
    TokenAge        \* ACCESS_TOKEN_EXPIRE_MINUTES

Roles == {"superadmin", "admin", "helpdesk", "auditor", "readonly"}
Opt(S) == S \cup {NULL}
AccountIds == 1 .. MaxAccount

(* hashed_password is the text with own: who chose it, its user or a
   superadmin.  A salt makes every new hash differ from the old one. *)
Hashes == [text : Passwords, own : BOOLEAN]
Accounts ==
    [name : UserNames, role : Roles, active : BOOLEAN, hash : Hashes, force : BOOLEAN]

CreateBodies == [name : UserNames, role : Roles, active : BOOLEAN, password : Passwords]
UpdateBodies ==
    [role : Opt(Roles), active : Opt(BOOLEAN), password : Opt(Passwords)]

ASSUME AdminAssumption ==
    /\ NULL \notin Roles /\ NULL \notin BOOLEAN /\ NULL \notin Passwords
    /\ NULL \notin Accounts
    /\ Bootstrap \in UserNames /\ SeedPassword \in Passwords
    /\ Creates \subseteq CreateBodies /\ Updates \subseteq UpdateBodies
    /\ MaxAccount \in Nat \ {0} /\ MaxAttempt \in Nat
    /\ LockoutAttempts \in Nat \ {0}
    /\ {WindowAge, SessionAge, CleanupAge, TokenAge} \subseteq Nat
    /\ WindowAge <= SessionAge /\ SessionAge <= CleanupAge
    /\ IsFiniteSet(Workers)

VARIABLES
    accounts,       \* admin_users
    nextId,         \* its AUTO_INCREMENT counter
    attempts,       \* login_attempts; exempt: observer, see Attempts
    tokens,         \* JWTs handed out and not expired
    req             \* what each worker is about to write or to hand out

vars == <<accounts, nextId, attempts, tokens, req>>

(* exempt: the login went past the lockout on the strength of a session.    *)
(* copy tells rows apart that agree in everything else.                    *)
Attempts ==
    [user : UserNames, ok : BOOLEAN, exempt : BOOLEAN,
     age : 0 .. CleanupAge + 1, copy : Nat]
Tokens == [user : UserNames, force : BOOLEAN, age : 0 .. TokenAge]

Columns == {"role", "active", "hash", "force"}
Idle == [op |-> "idle"]
Plans ==
    {Idle}
    \cup [op : {"login"}, user : UserNames, ok : BOOLEAN, exempt : BOOLEAN, force : BOOLEAN]
    \cup [op : {"issue"}, user : UserNames, force : BOOLEAN]
    \cup [op : {"create"}, new : Accounts]
    \cup [op : {"update"}, id : AccountIds, cols : SUBSET Columns, new : Accounts]
    \cup [op : {"delete"}, id : AccountIds]
    \cup [op : {"unlock"}, user : UserNames]

TypeOK ==
    /\ accounts \in [AccountIds -> Opt(Accounts)]
    /\ nextId \in Nat \ {0}
    /\ attempts \subseteq Attempts
    /\ tokens \subseteq Tokens
    /\ req \in [Workers -> Plans]

Live == {i \in AccountIds : accounts[i] # NULL}

(* seed_admin ran on the empty table.                                      *)
Init ==
    /\ accounts = [i \in AccountIds |->
           IF i = 1 THEN [name |-> Bootstrap, role |-> "superadmin", active |-> TRUE,
                          hash |-> [text |-> SeedPassword, own |-> FALSE], force |-> TRUE]
           ELSE NULL]
    /\ nextId = 2
    /\ attempts = {} /\ tokens = {}
    /\ req = [w \in Workers |-> Idle]

Hold(w, plan) ==
    /\ req[w] = Idle
    /\ req' = [req EXCEPT ![w] = plan]
    /\ UNCHANGED <<accounts, nextId, attempts, tokens>>

End(w) == req' = [req EXCEPT ![w] = Idle]

-----------------------------------------------------------------------------
(* check_lockout, with the bypass for a recent session.                    *)
HasRecentSession(u) ==
    \E a \in attempts : a.user = u /\ a.ok /\ a.age <= SessionAge

RecentFailures(u) == {a \in attempts : a.user = u /\ ~a.ok /\ a.age <= WindowAge}

\* Mutant: one failure more than LOCKOUT_ATTEMPTS locks.
LockedOutAbove(u) ==
    ~HasRecentSession(u) /\ Cardinality(RecentFailures(u)) > LockoutAttempts

LockedOut(u) ==
    ~HasRecentSession(u) /\ Cardinality(RecentFailures(u)) >= LockoutAttempts

Verified(u, p) == \E i \in Live : accounts[i].name = u /\ accounts[i].hash.text = p

Attempt(w, u, p) ==
    Hold(w, [op |-> "login", user |-> u, ok |-> Verified(u, p),
             exempt |-> HasRecentSession(u),
             force |-> \E i \in Live : accounts[i].name = u /\ accounts[i].force])

\* Mutant: a login that the lockout refuses is recorded as a failure.
LoginRecordsRefused(w) ==
    \E u \in UserNames, p \in Passwords :
        IF LockedOut(u)
        THEN Hold(w, [op |-> "login", user |-> u, ok |-> FALSE, exempt |-> FALSE,
                      force |-> FALSE])
        ELSE Attempt(w, u, p)

(* POST /auth/token: one snapshot decides.  A locked user is refused and    *)
(* leaves no row, whatever the password.                                   *)
Login(w) == \E u \in UserNames, p \in Passwords : ~LockedOut(u) /\ Attempt(w, u, p)

\* The rows of every other user and the younger ones of this user.
Kept(u) == {a \in attempts : a.user = u => a.age <= CleanupAge}

(* record_attempt: the new row and the clean-up of old ones, in one commit. *)
RecordAttempt(w) ==
    LET plan == req[w]
        twins == {a \in attempts : /\ a.user = plan.user /\ a.ok = plan.ok
                                   /\ a.exempt = plan.exempt /\ a.age = 0}
    IN
    /\ plan.op = "login"
    /\ Cardinality(Kept(plan.user)) < MaxAttempt
    /\ attempts' = Kept(plan.user) \cup
           {[user |-> plan.user, ok |-> plan.ok, exempt |-> plan.exempt,
             age |-> 0, copy |-> Cardinality(twins)]}
    /\ req' = [req EXCEPT ![w] =
           IF plan.ok THEN [op |-> "issue", user |-> plan.user, force |-> plan.force]
           ELSE Idle]
    /\ UNCHANGED <<accounts, nextId, tokens>>

(* create_access_token, from the account as the login loaded it.           *)
IssueToken(w) ==
    LET plan == req[w] IN
    /\ plan.op = "issue"
    /\ tokens' = tokens \cup {[user |-> plan.user, force |-> plan.force, age |-> 0]}
    /\ End(w)
    /\ UNCHANGED <<accounts, nextId, attempts>>

-----------------------------------------------------------------------------
(* get_current_active_user: the account a token speaks for today.          *)
ActiveCaller(t, i) == accounts[i].name = t.user /\ accounts[i].active

(* Past the middleware, which looks at the token only, and the role check. *)
Superadmins ==
    {i \in Live : /\ accounts[i].role = "superadmin"
                  /\ \E t \in tokens : ~t.force /\ ActiveCaller(t, i)}

\* An assignment that changes nothing writes no column.
ChangedByOwner(a) == {"hash"} \cup (IF a.force THEN {"force"} ELSE {})

(* POST /auth/change-password, open to every active caller.  Strength is a *)
(* condition on the text and not modelled.                                 *)
ChangePassword(w) ==
    \E t \in tokens, i \in Live, p \in Passwords :
        /\ ActiveCaller(t, i)
        /\ Hold(w, [op |-> "update", id |-> i, cols |-> ChangedByOwner(accounts[i]),
                    new |-> [accounts[i] EXCEPT !.hash = [text |-> p, own |-> TRUE],
                                                !.force = FALSE]])

NameFree(n) == \A i \in Live : accounts[i].name # n

CreateAdmin(w) ==
    \E c \in Superadmins, b \in Creates :
        /\ NameFree(b.name)
        /\ Hold(w, [op |-> "create",
                    new |-> [name |-> b.name, role |-> b.role, active |-> b.active,
                             hash |-> [text |-> b.password, own |-> FALSE],
                             force |-> TRUE]])

\* Mutant: a field left out of the body is written as None.
GivenAlways(x, y) == x

\* "if user_update.x is not None"
Given(x, y) == IF x # NULL THEN x ELSE y

\* Mutant: a PUT with a password does not ask for a change.
FlagKept(a, b) == a.force

FlagAfter(a, b) == b.password # NULL \/ a.force

(* What a PUT leaves in the account it loaded.                             *)
UpdatedBy(a, b) ==
    [name   |-> a.name,
     role   |-> Given(b.role, a.role),
     active |-> Given(b.active, a.active),
     hash   |-> IF b.password # NULL THEN [text |-> b.password, own |-> FALSE] ELSE a.hash,
     force  |-> FlagAfter(a, b)]

\* A column is written when its value changed; a new hash always differs.
UpdateAdmin(w) ==
    \E c \in Superadmins, i \in Live, b \in Updates :
        LET a == accounts[i]
            new == UpdatedBy(a, b)
        IN  Hold(w, [op |-> "update", id |-> i, new |-> new,
                     cols |-> {f \in Columns \ {"hash"} : new[f] # a[f]}
                              \cup (IF b.password # NULL THEN {"hash"} ELSE {})])

DeleteAdmin(w) ==
    \E c \in Superadmins, i \in Live :
        /\ i # c
        /\ accounts[i].name # Bootstrap
        /\ Hold(w, [op |-> "delete", id |-> i])

UnlockAdmin(w) ==
    \E c \in Superadmins, i \in Live :
        Hold(w, [op |-> "unlock", user |-> accounts[i].name])

-----------------------------------------------------------------------------
(* username is UNIQUE: the second of two inserts fails.                    *)
CommitCreate(w) ==
    /\ req[w].op = "create" /\ nextId \in AccountIds
    /\ IF NameFree(req[w].new.name)
       THEN /\ accounts' = [accounts EXCEPT ![nextId] = req[w].new]
            /\ nextId' = nextId + 1
       ELSE UNCHANGED <<accounts, nextId>>
    /\ End(w)
    /\ UNCHANGED <<attempts, tokens>>

(* UPDATE of the changed columns; without a row it fails.                  *)
Written(row, plan) ==
    [f \in DOMAIN row |-> IF f \in plan.cols THEN plan.new[f] ELSE row[f]]

CommitUpdate(w) ==
    LET plan == req[w] IN
    /\ plan.op = "update"
    /\ accounts' = IF accounts[plan.id] = NULL THEN accounts
                   ELSE [accounts EXCEPT ![plan.id] = Written(@, plan)]
    /\ End(w)
    /\ UNCHANGED <<nextId, attempts, tokens>>

CommitDelete(w) ==
    /\ req[w].op = "delete"
    /\ accounts' = [accounts EXCEPT ![req[w].id] = NULL]
    /\ End(w)
    /\ UNCHANGED <<nextId, attempts, tokens>>

(* unlock_user: every failed attempt of the name goes.                     *)
CommitUnlock(w) ==
    /\ req[w].op = "unlock"
    /\ attempts' = {a \in attempts : a.user = req[w].user => a.ok}
    /\ End(w)
    /\ UNCHANGED <<accounts, nextId, tokens>>

(* Time passes, in the middle of requests as well.                         *)
Older(a) == [a EXCEPT !.age = IF @ > CleanupAge THEN @ ELSE @ + 1]

Tick ==
    /\ attempts' = {Older(a) : a \in attempts}
    /\ tokens' = {[t EXCEPT !.age = @ + 1] : t \in {s \in tokens : s.age < TokenAge}}
    /\ UNCHANGED <<accounts, nextId, req>>

(* The backend dies: open requests roll back; tokens stay valid.           *)
Crash ==
    /\ \E w \in Workers : req[w] # Idle
    /\ req' = [w \in Workers |-> Idle]
    /\ UNCHANGED <<accounts, nextId, attempts, tokens>>

Next ==
    \/ \E w \in Workers :
        \/ Login(w) \/ RecordAttempt(w) \/ IssueToken(w) \/ ChangePassword(w)
        \/ CreateAdmin(w) \/ UpdateAdmin(w) \/ DeleteAdmin(w) \/ UnlockAdmin(w)
        \/ CommitCreate(w) \/ CommitUpdate(w) \/ CommitDelete(w) \/ CommitUnlock(w)
    \/ Tick
    \/ Crash

Spec == Init /\ [][Next]_vars

(* The clock does not stop.  Nothing else owes anything.                   *)
FairSpec == Spec /\ WF_vars(Tick)

-----------------------------------------------------------------------------
(* Logins that overlap each count the failures before the others record
   theirs (check_lockout, record_attempt).  Within one window a user without
   a session still gets fewer than LOCKOUT_ATTEMPTS failures plus one for
   each request in flight. *)
FailuresBounded ==
    \A u \in UserNames :
        Cardinality({a \in RecentFailures(u) : ~a.exempt})
            < LockoutAttempts + Cardinality(Workers)

(* Every lockout ends by itself (check_lockout counts a sliding window, and
   a refused login leaves no row that would extend it). *)
LockExpires == \A u \in UserNames : LockedOut(u) ~> ~LockedOut(u)

(* A password somebody else chose has to be changed: create_admin_user and
   update_admin_user set force_password_change with the hash, change_password
   clears it with the owner's; no later request separates the two. *)
GivenMustChange == \A i \in Live : accounts[i].hash.own \/ accounts[i].force
=============================================================================
