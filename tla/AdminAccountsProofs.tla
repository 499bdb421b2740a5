-------------------------- MODULE AdminAccountsProofs --------------------------
(***************************************************************************)
(* Theorems about AdminAccounts: type correctness, the bound on failures   *)
(* that overlapping logins can add, for any limit, windows and number of   *)
(* workers, and the change a given password asks for.                      *)
(***************************************************************************)
EXTENDS AdminAccounts, FiniteSetTheorems, TLAPS

-----------------------------------------------------------------------------
(* Type correctness. *)

(* What a plan of each kind carries, read off the union Plans. *)
LEMMA PlanType ==
    ASSUME NEW plan \in Plans
    PROVE  /\ plan.op = "login" =>
                /\ plan.user \in UserNames /\ plan.ok \in BOOLEAN
                /\ plan.exempt \in BOOLEAN /\ plan.force \in BOOLEAN
           /\ plan.op = "issue" => plan.user \in UserNames /\ plan.force \in BOOLEAN
           /\ plan.op = "create" => plan.new \in Accounts
           /\ plan.op = "update" =>
                plan.id \in AccountIds /\ plan.cols \in SUBSET Columns /\ plan.new \in Accounts
           /\ plan.op = "delete" => plan.id \in AccountIds
           /\ plan.op = "unlock" => plan.user \in UserNames
BY DEF Plans, Idle

(* A live account is an account. *)
LEMMA LiveType ==
    ASSUME TypeOK, NEW i \in Live
    PROVE  i \in AccountIds /\ accounts[i] \in Accounts
BY DEF TypeOK, Live, Opt

(* Holding a well-typed plan keeps the types. *)
LEMMA HoldType ==
    ASSUME TypeOK, NEW w \in Workers, NEW plan \in Plans, Hold(w, plan)
    PROVE  TypeOK'
BY DEF Hold, TypeOK

(* So does the end of a request. *)
LEMMA EndType ==
    ASSUME TypeOK, NEW w \in Workers, End(w)
    PROVE  req' \in [Workers -> Plans]
BY DEF End, TypeOK, Plans

(* The account a PUT leaves is an account. *)
LEMMA UpdatedByType ==
    ASSUME NEW a \in Accounts, NEW b \in UpdateBodies
    PROVE  UpdatedBy(a, b) \in Accounts
BY AdminAssumption DEF UpdatedBy, Given, FlagAfter, Accounts, Hashes, UpdateBodies, Opt

(* An UPDATE of some columns leaves an account. *)
LEMMA WrittenType ==
    ASSUME NEW a \in Accounts, NEW plan, plan.new \in Accounts
    PROVE  /\ Written(a, plan) \in Accounts
           /\ \A f \in {"name", "role", "active", "hash", "force"} :
                Written(a, plan)[f] = IF f \in plan.cols THEN plan.new[f] ELSE a[f]
<1>1. DOMAIN a = {"name", "role", "active", "hash", "force"}
  BY DEF Accounts
<1>. QED
  BY <1>1 DEF Written, Accounts

(* A login plans what its snapshot showed. *)
LEMMA AttemptType ==
    ASSUME TypeOK, NEW w \in Workers, NEW u \in UserNames, NEW p \in Passwords,
           Attempt(w, u, p)
    PROVE  TypeOK'
<1>. DEFINE plan == [op |-> "login", user |-> u, ok |-> Verified(u, p),
                     exempt |-> HasRecentSession(u),
                     force |-> \E i \in Live : accounts[i].name = u /\ accounts[i].force]
<1>1. /\ Verified(u, p) \in BOOLEAN /\ HasRecentSession(u) \in BOOLEAN
      /\ (\E i \in Live : accounts[i].name = u /\ accounts[i].force) \in BOOLEAN
  BY Zenon DEF Verified, HasRecentSession
<1>2. plan \in Plans
  BY <1>1 DEF Plans
<1>3. Hold(w, plan)
  BY DEF Attempt
<1>. QED
  BY <1>2, <1>3, HoldType

(* The read phase of each handler keeps the types. *)
LEMMA ReadsType ==
    ASSUME TypeOK, NEW w \in Workers,
           \/ Login(w) \/ ChangePassword(w) \/ CreateAdmin(w) \/ UpdateAdmin(w)
           \/ DeleteAdmin(w) \/ UnlockAdmin(w)
    PROVE  TypeOK'
<1>1. CASE Login(w)
  BY <1>1, AttemptType DEF Login
<1>2. CASE ChangePassword(w)
  <2>1. PICK t \in tokens, i \in Live, p \in Passwords :
          Hold(w, [op |-> "update", id |-> i, cols |-> ChangedByOwner(accounts[i]),
                   new |-> [accounts[i] EXCEPT !.hash = [text |-> p, own |-> TRUE],
                                               !.force = FALSE]])
    BY <1>2 DEF ChangePassword
  <2>. DEFINE new == [accounts[i] EXCEPT !.hash = [text |-> p, own |-> TRUE],
                                         !.force = FALSE]
              plan == [op |-> "update", id |-> i, cols |-> ChangedByOwner(accounts[i]),
                       new |-> new]
  <2>2. i \in AccountIds /\ accounts[i] \in Accounts
    BY LiveType
  <2>3. new \in Accounts
    BY <2>2 DEF Accounts, Hashes
  <2>4. ChangedByOwner(accounts[i]) \in SUBSET Columns
    BY DEF ChangedByOwner, Columns
  <2>. HIDE DEF new
  <2>5. plan \in Plans
    BY <2>2, <2>3, <2>4 DEF Plans
  <2>. QED
    BY <2>1, <2>5, HoldType DEF new
<1>3. CASE CreateAdmin(w)
  <2>1. PICK b \in Creates :
          Hold(w, [op |-> "create",
                   new |-> [name |-> b.name, role |-> b.role, active |-> b.active,
                            hash |-> [text |-> b.password, own |-> FALSE],
                            force |-> TRUE]])
    BY <1>3 DEF CreateAdmin
  <2>. DEFINE new == [name |-> b.name, role |-> b.role, active |-> b.active,
                      hash |-> [text |-> b.password, own |-> FALSE], force |-> TRUE]
  <2>2. b \in CreateBodies
    BY AdminAssumption
  <2>3. new \in Accounts
    BY <2>2 DEF CreateBodies, Accounts, Hashes
  <2>. HIDE DEF new
  <2>4. [op |-> "create", new |-> new] \in Plans
    BY <2>3 DEF Plans
  <2>. QED
    BY <2>1, <2>4, HoldType DEF new
<1>4. CASE UpdateAdmin(w)
  <2>1. PICK i \in Live, b \in Updates :
          Hold(w, [op |-> "update", id |-> i, new |-> UpdatedBy(accounts[i], b),
                   cols |-> {f \in Columns \ {"hash"} :
                                UpdatedBy(accounts[i], b)[f] # accounts[i][f]}
                            \cup (IF b.password # NULL THEN {"hash"} ELSE {})])
    BY <1>4 DEF UpdateAdmin
  <2>. DEFINE new == UpdatedBy(accounts[i], b)
              cols == {f \in Columns \ {"hash"} : new[f] # accounts[i][f]}
                      \cup (IF b.password # NULL THEN {"hash"} ELSE {})
  <2>2. i \in AccountIds /\ accounts[i] \in Accounts
    BY LiveType
  <2>3. new \in Accounts
    BY <2>2, UpdatedByType, AdminAssumption
  <2>4. cols \in SUBSET Columns
    BY DEF Columns
  <2>. HIDE DEF new, cols
  <2>5. [op |-> "update", id |-> i, new |-> new, cols |-> cols] \in Plans
    BY <2>2, <2>3, <2>4 DEF Plans
  <2>. QED
    BY <2>1, <2>5, HoldType DEF new, cols
<1>5. CASE DeleteAdmin(w)
  <2>1. PICK i \in Live : Hold(w, [op |-> "delete", id |-> i])
    BY <1>5 DEF DeleteAdmin
  <2>2. [op |-> "delete", id |-> i] \in Plans
    BY LiveType DEF Plans
  <2>. QED
    BY <2>1, <2>2, HoldType
<1>6. CASE UnlockAdmin(w)
  <2>1. PICK i \in Live : Hold(w, [op |-> "unlock", user |-> accounts[i].name])
    BY <1>6 DEF UnlockAdmin
  <2>2. accounts[i] \in Accounts
    BY LiveType
  <2>3. accounts[i].name \in UserNames
    BY <2>2 DEF Accounts
  <2>4. [op |-> "unlock", user |-> accounts[i].name] \in Plans
    BY <2>3 DEF Plans
  <2>. QED
    BY <2>1, <2>4, HoldType
<1>. QED
  BY <1>1, <1>2, <1>3, <1>4, <1>5, <1>6

(* A commit to admin_users keeps the types. *)
LEMMA AccountCommitsType ==
    ASSUME TypeOK, NEW w \in Workers,
           CommitCreate(w) \/ CommitUpdate(w) \/ CommitDelete(w)
    PROVE  TypeOK'
<1>1. req[w] \in Plans /\ accounts \in [AccountIds -> Opt(Accounts)]
  BY DEF TypeOK
<1>2. req' \in [Workers -> Plans] /\ UNCHANGED <<attempts, tokens>>
  BY EndType DEF CommitCreate, CommitUpdate, CommitDelete
<1>3. CASE CommitCreate(w)
  <2>1. req[w].new \in Accounts
    BY <1>1, <1>3, PlanType DEF CommitCreate
  <2>2. accounts' \in [AccountIds -> Opt(Accounts)] /\ nextId' \in Nat \ {0}
    BY <1>1, <1>3, <2>1 DEF CommitCreate, TypeOK, Opt
  <2>. QED
    BY <1>2, <2>2 DEF TypeOK
<1>4. CASE CommitUpdate(w)
  <2>1. req[w].id \in AccountIds /\ req[w].new \in Accounts
    BY <1>1, <1>4, PlanType DEF CommitUpdate
  <2>2. accounts[req[w].id] # NULL => Written(accounts[req[w].id], req[w]) \in Accounts
    BY <1>1, <2>1, WrittenType DEF Opt
  <2>3. accounts' = IF accounts[req[w].id] = NULL THEN accounts
                    ELSE [accounts EXCEPT ![req[w].id] = Written(accounts[req[w].id], req[w])]
    BY <1>1, <1>4, <2>1 DEF CommitUpdate
  <2>4. accounts' \in [AccountIds -> Opt(Accounts)]
    BY <1>1, <2>1, <2>2, <2>3 DEF Opt
  <2>. QED
    BY <1>2, <1>4, <2>4 DEF TypeOK, CommitUpdate
<1>5. CASE CommitDelete(w)
  <2>1. accounts' \in [AccountIds -> Opt(Accounts)]
    BY <1>1, <1>5 DEF CommitDelete, Opt
  <2>. QED
    BY <1>2, <1>5, <2>1 DEF TypeOK, CommitDelete
<1>. QED
  BY <1>3, <1>4, <1>5

(* Only finitely many logins were recorded, so rows can be counted. *)
TypeInv == TypeOK /\ IsFiniteSet(attempts)

(* record_attempt adds one row to some of those there were. *)
LEMMA RecordType ==
    ASSUME TypeInv, NEW w \in Workers, RecordAttempt(w)
    PROVE  TypeInv'
<1>. DEFINE twins == {a \in attempts : /\ a.user = req[w].user /\ a.ok = req[w].ok
                                       /\ a.exempt = req[w].exempt /\ a.age = 0}
            row == [user |-> req[w].user, ok |-> req[w].ok, exempt |-> req[w].exempt,
                    age |-> 0, copy |-> Cardinality(twins)]
<1>1. attempts' = Kept(req[w].user) \cup {row}
  BY DEF RecordAttempt
<1>2. Kept(req[w].user) \in SUBSET attempts
  BY DEF Kept
<1>3. IsFiniteSet(attempts')
  BY <1>1, <1>2, FS_Subset, FS_AddElement DEF TypeInv
<1>4. Cardinality(twins) \in Nat
  <2>1. twins \in SUBSET attempts
    OBVIOUS
  <2>. QED
    BY <2>1, FS_Subset, FS_CardinalityType DEF TypeInv
<1>. HIDE DEF twins
<1>5. req[w] \in Plans /\ req[w].op = "login"
  BY DEF TypeInv, TypeOK, RecordAttempt
<1>6. /\ req[w].user \in UserNames /\ req[w].ok \in BOOLEAN
      /\ req[w].exempt \in BOOLEAN /\ req[w].force \in BOOLEAN
  BY <1>5, PlanType
<1>7. 0 \in 0 .. CleanupAge + 1
  BY AdminAssumption
<1>8. row \in Attempts
  BY <1>4, <1>6, <1>7 DEF Attempts
<1>9. attempts' \subseteq Attempts
  BY <1>1, <1>2, <1>8 DEF TypeInv, TypeOK
<1>10. req' \in [Workers -> Plans]
  <2>1. [op |-> "issue", user |-> req[w].user, force |-> req[w].force] \in Plans
    BY <1>6 DEF Plans
  <2>2. Idle \in Plans
    BY DEF Plans
  <2>3. req' = [req EXCEPT ![w] =
           IF req[w].ok THEN [op |-> "issue", user |-> req[w].user, force |-> req[w].force]
           ELSE Idle]
    BY DEF RecordAttempt
  <2>. QED
    BY <2>1, <2>2, <2>3 DEF TypeInv, TypeOK
<1>. QED
  BY <1>3, <1>9, <1>10 DEF TypeInv, TypeOK, RecordAttempt

(* create_access_token hands out a well-typed token. *)
LEMMA IssueType ==
    ASSUME TypeOK, NEW w \in Workers, IssueToken(w)
    PROVE  TypeOK'
<1>1. req[w] \in Plans /\ req[w].op = "issue"
  BY DEF TypeOK, IssueToken
<1>2. req[w].user \in UserNames /\ req[w].force \in BOOLEAN
  BY <1>1, PlanType
<1>3. 0 \in 0 .. TokenAge
  BY AdminAssumption
<1>4. tokens' \subseteq Tokens
  BY <1>2, <1>3 DEF TypeOK, IssueToken, Tokens
<1>5. req' \in [Workers -> Plans]
  BY EndType DEF IssueToken
<1>. QED
  BY <1>4, <1>5 DEF TypeOK, IssueToken

(* Time adds a tick to each row and token, up to the age nothing is told of. *)
LEMMA TickType ==
    ASSUME TypeInv, Tick
    PROVE  TypeInv'
<1>1. \A a \in Attempts : Older(a) \in Attempts
  BY AdminAssumption DEF Older, Attempts
<1>2. attempts' = {Older(a) : a \in attempts}
  BY DEF Tick
<1>3. attempts' \subseteq Attempts
  BY <1>1, <1>2 DEF TypeInv, TypeOK
<1>4. IsFiniteSet(attempts')
  <2>. DEFINE f == [a \in attempts |-> Older(a)]
  <2>1. f \in Surjection(attempts, attempts')
    BY <1>2 DEF Surjection
  <2>. QED
    BY <2>1, FS_Surjection DEF TypeInv
<1>5. \A t \in Tokens : t.age < TokenAge => [t EXCEPT !.age = @ + 1] \in Tokens
  BY AdminAssumption DEF Tokens
<1>6. tokens' \subseteq Tokens
  <2>1. tokens' = {[t EXCEPT !.age = @ + 1] : t \in {s \in tokens : s.age < TokenAge}}
    BY DEF Tick
  <2>2. tokens \subseteq Tokens
    BY DEF TypeInv, TypeOK
  <2>. QED
    BY <1>5, <2>1, <2>2
<1>. QED
  BY <1>3, <1>4, <1>6 DEF TypeInv, TypeOK, Tick

LEMMA InitType == Init => TypeInv
<1>. SUFFICES ASSUME Init
              PROVE  TypeInv
  OBVIOUS
<1>1. [name |-> Bootstrap, role |-> "superadmin", active |-> TRUE,
       hash |-> [text |-> SeedPassword, own |-> FALSE], force |-> TRUE] \in Accounts
  BY AdminAssumption DEF Accounts, Hashes, Roles
<1>2. accounts \in [AccountIds -> Opt(Accounts)]
  BY <1>1 DEF Init, Opt
<1>3. req \in [Workers -> Plans]
  BY DEF Init, Plans
<1>4. IsFiniteSet(attempts)
  BY FS_EmptySet DEF Init
<1>5. nextId \in Nat \ {0} /\ attempts = {} /\ tokens = {}
  BY DEF Init
<1>. QED
  BY <1>2, <1>3, <1>4, <1>5 DEF TypeInv, TypeOK

LEMMA StepType == TypeInv /\ [Next]_vars => TypeInv'
<1>. SUFFICES ASSUME TypeInv, [Next]_vars
              PROVE  TypeInv'
  OBVIOUS
<1>1. ASSUME NEW w \in Workers,
             \/ Login(w) \/ ChangePassword(w) \/ CreateAdmin(w) \/ UpdateAdmin(w)
             \/ DeleteAdmin(w) \/ UnlockAdmin(w)
      PROVE  TypeInv'
  <2>1. UNCHANGED attempts
    BY <1>1 DEF Login, Attempt, ChangePassword, CreateAdmin, UpdateAdmin, DeleteAdmin,
                UnlockAdmin, Hold
  <2>. QED
    BY <1>1, <2>1, ReadsType DEF TypeInv
<1>2. ASSUME NEW w \in Workers, RecordAttempt(w)
      PROVE  TypeInv'
  BY <1>2, RecordType
<1>3. ASSUME NEW w \in Workers, IssueToken(w)
      PROVE  TypeInv'
  BY <1>3, IssueType DEF TypeInv, IssueToken
<1>4. ASSUME NEW w \in Workers, CommitCreate(w) \/ CommitUpdate(w) \/ CommitDelete(w)
      PROVE  TypeInv'
  <2>1. UNCHANGED attempts
    BY <1>4 DEF CommitCreate, CommitUpdate, CommitDelete
  <2>. QED
    BY <1>4, <2>1, AccountCommitsType DEF TypeInv
<1>5. ASSUME NEW w \in Workers, CommitUnlock(w)
      PROVE  TypeInv'
  <2>1. attempts' \in SUBSET attempts
    BY <1>5 DEF CommitUnlock
  <2>2. IsFiniteSet(attempts')
    BY <2>1, FS_Subset DEF TypeInv
  <2>3. req' \in [Workers -> Plans]
    BY <1>5, EndType DEF TypeInv, CommitUnlock
  <2>. QED
    BY <1>5, <2>1, <2>2, <2>3 DEF TypeInv, TypeOK, CommitUnlock
<1>6. CASE Tick
  BY <1>6, TickType
<1>7. CASE Crash
  BY <1>7 DEF Crash, TypeInv, TypeOK, Plans
<1>8. CASE UNCHANGED vars
  BY <1>8 DEF vars, TypeInv, TypeOK
<1>. QED
  BY <1>1, <1>2, <1>3, <1>4, <1>5, <1>6, <1>7, <1>8 DEF Next

(* Accounts, rows of login_attempts, tokens and plans keep their types, for
   any names, bodies, ages and number of workers. *)
THEOREM AccountsTypeCorrect == Spec => []TypeOK
<1>1. TypeInv => TypeOK
  BY DEF TypeInv
<1>. QED
  BY <1>1, InitType, StepType, PTL DEF Spec

-----------------------------------------------------------------------------
(* What overlapping logins can add. *)

(* The failures FailuresBounded counts, and the logins about to add one. *)
Strikes(u) == {a \in RecentFailures(u) : ~a.exempt}
Striking(u) ==
    {w \in Workers : /\ req[w].op = "login" /\ req[w].user = u
                     /\ ~req[w].ok /\ ~req[w].exempt}

(* A login that check_lockout admitted counted fewer than LOCKOUT_ATTEMPTS;
   each worker can only have one such login to record. *)
StrikesBounded ==
    \A u \in UserNames :
        Cardinality(Strikes(u)) + Cardinality(Striking(u))
            < LockoutAttempts + Cardinality(Workers)

LockInv == TypeInv /\ StrikesBounded

(* Both sets are finite, so the sum is a number. *)
LEMMA StrikesFinite ==
    ASSUME TypeInv, NEW u \in UserNames
    PROVE  /\ IsFiniteSet(Strikes(u)) /\ Cardinality(Strikes(u)) \in Nat
           /\ IsFiniteSet(Striking(u)) /\ Cardinality(Striking(u)) \in Nat
           /\ IsFiniteSet(RecentFailures(u)) /\ Cardinality(RecentFailures(u)) \in Nat
           /\ Cardinality(Strikes(u)) <= Cardinality(RecentFailures(u))
           /\ Cardinality(Striking(u)) <= Cardinality(Workers)
           /\ Cardinality(Workers) \in Nat
<1>1. RecentFailures(u) \in SUBSET attempts
  BY DEF RecentFailures
<1>2. Strikes(u) \in SUBSET RecentFailures(u)
  BY DEF Strikes
<1>3. Striking(u) \in SUBSET Workers
  BY DEF Striking
<1>4. IsFiniteSet(RecentFailures(u))
  BY <1>1, FS_Subset DEF TypeInv
<1>5. IsFiniteSet(Strikes(u)) /\ Cardinality(Strikes(u)) <= Cardinality(RecentFailures(u))
  BY <1>2, <1>4, FS_Subset
<1>6. IsFiniteSet(Striking(u)) /\ Cardinality(Striking(u)) <= Cardinality(Workers)
  BY <1>3, FS_Subset, AdminAssumption
<1>. QED
  BY <1>4, <1>5, <1>6, FS_CardinalityType, AdminAssumption

(* A step that adds to neither set keeps their sum where it was. *)
LEMMA FewerStrikes ==
    ASSUME LockInv, NEW u \in UserNames,
           Strikes(u)' \subseteq Strikes(u), Striking(u)' \subseteq Striking(u)
    PROVE  Cardinality(Strikes(u))' + Cardinality(Striking(u))'
             < LockoutAttempts + Cardinality(Workers)
<1>1. /\ Cardinality(Strikes(u)') <= Cardinality(Strikes(u))
      /\ Cardinality(Strikes(u)') \in Nat
  BY StrikesFinite, FS_Subset, FS_CardinalityType DEF LockInv
<1>2. /\ Cardinality(Striking(u)') <= Cardinality(Striking(u))
      /\ Cardinality(Striking(u)') \in Nat
  BY StrikesFinite, FS_Subset, FS_CardinalityType DEF LockInv
<1>3. Cardinality(Strikes(u)) \in Nat /\ Cardinality(Striking(u)) \in Nat
      /\ Cardinality(Workers) \in Nat /\ LockoutAttempts \in Nat
  BY StrikesFinite, AdminAssumption DEF LockInv
<1>4. Cardinality(Strikes(u)) + Cardinality(Striking(u)) < LockoutAttempts + Cardinality(Workers)
  BY DEF LockInv, StrikesBounded
<1>. QED
  BY <1>1, <1>2, <1>3, <1>4

(* A plan other than a login's strikes nobody. *)
LEMMA HoldStrikes ==
    ASSUME LockInv, NEW w \in Workers, NEW plan, Hold(w, plan), NEW u \in UserNames,
           plan.op # "login" \/ plan.user # u \/ plan.ok \/ plan.exempt
    PROVE  /\ Strikes(u)' \subseteq Strikes(u) /\ Striking(u)' \subseteq Striking(u)
<1>1. attempts' = attempts /\ req' = [req EXCEPT ![w] = plan]
  BY DEF Hold
<1>2. req \in [Workers -> Plans]
  BY DEF LockInv, TypeInv, TypeOK
<1>3. Strikes(u)' = Strikes(u)
  BY <1>1 DEF Strikes, RecentFailures
<1>4. Striking(u)' \subseteq Striking(u)
  BY <1>1, <1>2 DEF Striking
<1>. QED
  BY <1>3, <1>4

(* check_lockout: the one login it admits found fewer failures than the limit,
   and no more than one login per worker is about to add another. *)
LEMMA LoginStrikes ==
    ASSUME LockInv, TypeInv', NEW w \in Workers, Login(w), NEW u \in UserNames
    PROVE  Cardinality(Strikes(u))' + Cardinality(Striking(u))'
             < LockoutAttempts + Cardinality(Workers)
<1>1. PICK u0 \in UserNames, p \in Passwords : ~LockedOut(u0) /\ Attempt(w, u0, p)
  BY DEF Login
<1>. DEFINE plan == [op |-> "login", user |-> u0, ok |-> Verified(u0, p),
                     exempt |-> HasRecentSession(u0),
                     force |-> \E i \in Live : accounts[i].name = u0 /\ accounts[i].force]
<1>2. Hold(w, plan)
  BY <1>1 DEF Attempt
<1>3. CASE u0 # u \/ HasRecentSession(u0)
  <2>1. plan.user # u \/ plan.exempt
    BY <1>3
  <2>. HIDE DEF plan
  <2>. QED
    BY <1>2, <2>1, HoldStrikes, FewerStrikes
<1>4. CASE u0 = u /\ ~HasRecentSession(u0)
  <2>1. Cardinality(RecentFailures(u)) < LockoutAttempts
    <3>1. ~(Cardinality(RecentFailures(u)) >= LockoutAttempts)
      BY <1>1, <1>4 DEF LockedOut
    <3>. QED
      BY <3>1, StrikesFinite, AdminAssumption DEF LockInv
  <2>2. attempts' = attempts
    BY <1>2 DEF Hold
  <2>3. Strikes(u)' = Strikes(u)
    BY <2>2 DEF Strikes, RecentFailures
  <2>4. /\ Cardinality(Strikes(u)') \in Nat
        /\ Cardinality(Strikes(u)') <= Cardinality(RecentFailures(u))
        /\ Cardinality(RecentFailures(u)) \in Nat
    BY <2>3, StrikesFinite DEF LockInv
  <2>5. Striking(u)' \in SUBSET Workers
    BY DEF Striking
  <2>6. /\ Cardinality(Striking(u)') \in Nat
        /\ Cardinality(Striking(u)') <= Cardinality(Workers)
        /\ Cardinality(Workers) \in Nat
    BY <2>5, FS_Subset, FS_CardinalityType, AdminAssumption
  <2>. QED
    BY <2>1, <2>4, <2>6, AdminAssumption
<1>. QED
  BY <1>3, <1>4

(* record_attempt moves a login from the ones about to strike to the ones
   that did. *)
LEMMA RecordStrikes ==
    ASSUME LockInv, NEW w \in Workers, RecordAttempt(w), NEW u \in UserNames
    PROVE  Cardinality(Strikes(u))' + Cardinality(Striking(u))'
             < LockoutAttempts + Cardinality(Workers)
<1>. DEFINE twins == {a \in attempts : /\ a.user = req[w].user /\ a.ok = req[w].ok
                                       /\ a.exempt = req[w].exempt /\ a.age = 0}
            row == [user |-> req[w].user, ok |-> req[w].ok, exempt |-> req[w].exempt,
                    age |-> 0, copy |-> Cardinality(twins)]
<1>1. attempts' = Kept(req[w].user) \cup {row}
  BY DEF RecordAttempt
<1>2. Kept(req[w].user) \in SUBSET attempts
  BY DEF Kept
<1>3. /\ row.user = req[w].user /\ row.ok = req[w].ok /\ row.exempt = req[w].exempt
  OBVIOUS
<1>. HIDE DEF row, twins
<1>4. /\ req \in [Workers -> Plans] /\ req[w].op = "login"
      /\ req' = [req EXCEPT ![w] =
            IF req[w].ok THEN [op |-> "issue", user |-> req[w].user, force |-> req[w].force]
            ELSE Idle]
  BY DEF LockInv, TypeInv, TypeOK, RecordAttempt
<1>5. req'[w].op # "login" /\ \A v \in Workers \ {w} : req'[v] = req[v]
  BY <1>4 DEF Idle
<1>6. Striking(u)' \subseteq Striking(u) \ {w}
  BY <1>5 DEF Striking
<1>7. Strikes(u)' \subseteq Strikes(u) \cup {row}
  BY <1>1, <1>2 DEF Strikes, RecentFailures
<1>8. CASE w \in Striking(u)
  <2>1. /\ IsFiniteSet(Striking(u) \ {w})
        /\ Cardinality(Striking(u) \ {w}) = Cardinality(Striking(u)) - 1
    BY <1>8, StrikesFinite, FS_RemoveElement DEF LockInv
  <2>2. /\ Cardinality(Striking(u)') \in Nat
        /\ Cardinality(Striking(u)') <= Cardinality(Striking(u)) - 1
    BY <1>6, <2>1, FS_Subset, FS_CardinalityType
  <2>3. /\ IsFiniteSet(Strikes(u) \cup {row})
        /\ Cardinality(Strikes(u) \cup {row}) <= Cardinality(Strikes(u)) + 1
    <3>1. IsFiniteSet(Strikes(u)) /\ Cardinality(Strikes(u)) \in Nat
      BY StrikesFinite DEF LockInv
    <3>2. /\ IsFiniteSet(Strikes(u) \cup {row})
          /\ \/ Cardinality(Strikes(u) \cup {row}) = Cardinality(Strikes(u))
             \/ Cardinality(Strikes(u) \cup {row}) = Cardinality(Strikes(u)) + 1
      BY <3>1, FS_AddElement
    <3>. QED
      BY <3>1, <3>2
  <2>4. /\ Cardinality(Strikes(u)') \in Nat
        /\ Cardinality(Strikes(u)') <= Cardinality(Strikes(u) \cup {row})
    BY <1>7, <2>3, FS_Subset, FS_CardinalityType
  <2>5. Cardinality(Strikes(u) \cup {row}) \in Nat
    BY <2>3, FS_CardinalityType
  <2>6. Cardinality(Strikes(u)) + Cardinality(Striking(u))
          < LockoutAttempts + Cardinality(Workers)
    BY DEF LockInv, StrikesBounded
  <2>7. /\ Cardinality(Strikes(u)) \in Nat /\ Cardinality(Striking(u)) \in Nat
        /\ Cardinality(Workers) \in Nat /\ LockoutAttempts \in Nat
    BY StrikesFinite, AdminAssumption DEF LockInv
  <2>. QED
    BY <2>2, <2>3, <2>4, <2>5, <2>6, <2>7
<1>9. CASE w \notin Striking(u)
  <2>1. req[w].user # u \/ req[w].ok \/ req[w].exempt
    BY <1>4, <1>9 DEF Striking
  <2>2. row \notin Strikes(u)'
    BY <1>3, <2>1 DEF Strikes, RecentFailures
  <2>3. Strikes(u)' \subseteq Strikes(u)
    BY <1>7, <2>2
  <2>4. Striking(u)' \subseteq Striking(u)
    BY <1>6
  <2>. QED
    BY <2>3, <2>4, FewerStrikes
<1>. QED
  BY <1>8, <1>9

(* A failure in the window after a tick was in the window before it. *)
LEMMA TickStrikes ==
    ASSUME LockInv, Tick, NEW u \in UserNames
    PROVE  Cardinality(Strikes(u))' + Cardinality(Striking(u))'
             < LockoutAttempts + Cardinality(Workers)
<1>. DEFINE Aged == {Older(a) : a \in Strikes(u)}
            f == [a \in Strikes(u) |-> Older(a)]
<1>1. f \in Surjection(Strikes(u), Aged)
  BY DEF Surjection
<1>2. IsFiniteSet(Aged) /\ Cardinality(Aged) <= Cardinality(Strikes(u))
  BY <1>1, StrikesFinite, FS_Surjection DEF LockInv
<1>3. \A a \in Attempts :
        /\ Older(a).user = a.user /\ Older(a).ok = a.ok /\ Older(a).exempt = a.exempt
        /\ Older(a).age <= WindowAge => a.age <= WindowAge
  BY AdminAssumption DEF Attempts, Older
<1>4. attempts \subseteq Attempts /\ attempts' = {Older(a) : a \in attempts}
  BY DEF LockInv, TypeInv, TypeOK, Tick
<1>5. Strikes(u)' \subseteq Aged
  <2>1. SUFFICES ASSUME NEW b \in Strikes(u)'
                 PROVE  b \in Aged
    OBVIOUS
  <2>2. PICK a \in attempts : b = Older(a)
    BY <1>4 DEF Strikes, RecentFailures
  <2>3. b.user = u /\ ~b.ok /\ b.age <= WindowAge /\ ~b.exempt
    BY DEF Strikes, RecentFailures
  <2>4. a \in Strikes(u)
    BY <1>3, <1>4, <2>2, <2>3 DEF Strikes, RecentFailures
  <2>. QED
    BY <2>2, <2>4
<1>. HIDE DEF Aged, f
<1>6. /\ Cardinality(Strikes(u)') \in Nat /\ Cardinality(Aged) \in Nat
      /\ Cardinality(Strikes(u)') <= Cardinality(Aged)
  BY <1>2, <1>5, FS_Subset, FS_CardinalityType
<1>7. Striking(u)' = Striking(u)
  BY DEF Tick, Striking
<1>8. Cardinality(Strikes(u)) + Cardinality(Striking(u))
        < LockoutAttempts + Cardinality(Workers)
  BY DEF LockInv, StrikesBounded
<1>9. /\ Cardinality(Strikes(u)) \in Nat /\ Cardinality(Striking(u)) \in Nat
      /\ Cardinality(Workers) \in Nat /\ LockoutAttempts \in Nat
  BY StrikesFinite, AdminAssumption DEF LockInv
<1>. QED
  BY <1>2, <1>6, <1>7, <1>8, <1>9

(* The other steps add no failure and no login. *)
LEMMA OtherStrikes ==
    ASSUME LockInv, NEW u \in UserNames,
           \/ \E w \in Workers :
                \/ IssueToken(w) \/ ChangePassword(w) \/ CreateAdmin(w) \/ UpdateAdmin(w)
                \/ DeleteAdmin(w) \/ UnlockAdmin(w) \/ CommitCreate(w) \/ CommitUpdate(w)
                \/ CommitDelete(w) \/ CommitUnlock(w)
           \/ Crash
           \/ UNCHANGED vars
    PROVE  Strikes(u)' \subseteq Strikes(u) /\ Striking(u)' \subseteq Striking(u)
<1>1. req \in [Workers -> Plans]
  BY DEF LockInv, TypeInv, TypeOK
<1>2. ASSUME NEW w \in Workers,
             \/ ChangePassword(w) \/ CreateAdmin(w) \/ UpdateAdmin(w)
             \/ DeleteAdmin(w) \/ UnlockAdmin(w)
      PROVE  Strikes(u)' \subseteq Strikes(u) /\ Striking(u)' \subseteq Striking(u)
  <2>1. PICK plan : Hold(w, plan) /\ plan.op # "login"
    <3>1. CASE ChangePassword(w)
      <4>1. PICK i \in Live, p \in Passwords :
              Hold(w, [op |-> "update", id |-> i, cols |-> ChangedByOwner(accounts[i]),
                       new |-> [accounts[i] EXCEPT !.hash = [text |-> p, own |-> TRUE],
                                                   !.force = FALSE]])
        BY <3>1 DEF ChangePassword
      <4>. QED
        BY <4>1
    <3>2. CASE CreateAdmin(w)
      BY <3>2 DEF CreateAdmin
    <3>3. CASE UpdateAdmin(w)
      BY <3>3 DEF UpdateAdmin
    <3>4. CASE DeleteAdmin(w)
      BY <3>4 DEF DeleteAdmin
    <3>5. CASE UnlockAdmin(w)
      BY <3>5 DEF UnlockAdmin
    <3>. QED
      BY <1>2, <3>1, <3>2, <3>3, <3>4, <3>5
  <2>. QED
    BY <2>1, HoldStrikes
<1>3. ASSUME NEW w \in Workers,
             \/ IssueToken(w) \/ CommitCreate(w) \/ CommitUpdate(w) \/ CommitDelete(w)
             \/ CommitUnlock(w)
      PROVE  Strikes(u)' \subseteq Strikes(u) /\ Striking(u)' \subseteq Striking(u)
  <2>1. req' = [req EXCEPT ![w] = Idle] /\ attempts' \subseteq attempts
    BY <1>3 DEF IssueToken, CommitCreate, CommitUpdate, CommitDelete, CommitUnlock, End
  <2>2. Striking(u)' \subseteq Striking(u)
    BY <1>1, <2>1 DEF Striking, Idle
  <2>3. Strikes(u)' \subseteq Strikes(u)
    BY <2>1 DEF Strikes, RecentFailures
  <2>. QED
    BY <2>2, <2>3
<1>4. CASE Crash
  BY <1>4 DEF Crash, Strikes, RecentFailures, Striking, Idle
<1>5. CASE UNCHANGED vars
  BY <1>5 DEF vars, Strikes, RecentFailures, Striking
<1>. QED
  BY <1>2, <1>3, <1>4, <1>5

LEMMA StepStrikes == LockInv /\ [Next]_vars => LockInv'
<1>. SUFFICES ASSUME LockInv, [Next]_vars
              PROVE  LockInv'
  OBVIOUS
<1>1. TypeInv'
  BY StepType DEF LockInv
<1>. SUFFICES ASSUME NEW u \in UserNames
              PROVE  Cardinality(Strikes(u))' + Cardinality(Striking(u))'
                       < LockoutAttempts + Cardinality(Workers)
  BY <1>1 DEF LockInv, StrikesBounded
<1>2. ASSUME NEW w \in Workers, Login(w)
      PROVE  Cardinality(Strikes(u))' + Cardinality(Striking(u))'
               < LockoutAttempts + Cardinality(Workers)
  BY <1>1, <1>2, LoginStrikes
<1>3. ASSUME NEW w \in Workers, RecordAttempt(w)
      PROVE  Cardinality(Strikes(u))' + Cardinality(Striking(u))'
               < LockoutAttempts + Cardinality(Workers)
  BY <1>3, RecordStrikes
<1>4. CASE Tick
  BY <1>4, TickStrikes
<1>5. CASE \/ \E w \in Workers :
                \/ IssueToken(w) \/ ChangePassword(w) \/ CreateAdmin(w) \/ UpdateAdmin(w)
                \/ DeleteAdmin(w) \/ UnlockAdmin(w) \/ CommitCreate(w) \/ CommitUpdate(w)
                \/ CommitDelete(w) \/ CommitUnlock(w)
           \/ Crash
           \/ UNCHANGED vars
  BY <1>5, OtherStrikes, FewerStrikes
<1>. QED
  BY <1>2, <1>3, <1>4, <1>5 DEF Next

(* At no time are there more failures of one user in the window, exempt
   logins aside, than the limit allows plus one for each overlapping request. *)
THEOREM LockoutBoundsFailures == Spec => []FailuresBounded
<1>1. Init => LockInv
  <2>. SUFFICES ASSUME Init
                PROVE  LockInv
    OBVIOUS
  <2>1. TypeInv
    BY InitType
  <2>2. ASSUME NEW u \in UserNames
        PROVE  Strikes(u) = {} /\ Striking(u) = {}
    BY DEF Init, Idle, Strikes, RecentFailures, Striking
  <2>3. Cardinality(Workers) \in Nat /\ LockoutAttempts \in Nat \ {0}
    BY FS_CardinalityType, AdminAssumption
  <2>. QED
    BY <2>1, <2>2, <2>3, FS_EmptySet DEF LockInv, StrikesBounded
<1>2. LockInv => FailuresBounded
  <2>. SUFFICES ASSUME LockInv, NEW u \in UserNames
                PROVE  Cardinality(Strikes(u)) < LockoutAttempts + Cardinality(Workers)
    BY DEF FailuresBounded, Strikes
  <2>1. /\ Cardinality(Strikes(u)) \in Nat /\ Cardinality(Striking(u)) \in Nat
        /\ Cardinality(Workers) \in Nat /\ LockoutAttempts \in Nat
    BY StrikesFinite, AdminAssumption DEF LockInv
  <2>. QED
    BY <2>1 DEF LockInv, StrikesBounded
<1>. QED
  BY <1>1, <1>2, StepStrikes, PTL DEF Spec

-----------------------------------------------------------------------------
(* What keeps a password somebody else chose under the order to change it. *)

(* No two requests hold an UPDATE of one account at one time. *)
NoSharedUpdate ==
    \A v, w \in Workers :
        v # w /\ req[v].op = "update" /\ req[w].op = "update" => req[v].id # req[w].id

(* An account whose password is its owner's, or has to be changed. *)
InOrder(a) == a.hash.own \/ a.force

(* AUTO_INCREMENT hands an id out once, so no plan is about a later account. *)
FreshIds ==
    /\ \A i \in Live : i < nextId
    /\ \A w \in Workers : req[w].op = "update" => req[w].id < nextId

(* The plan of w, written on the account as it stands, leaves it in order. *)
PlanInOrder(w) ==
    /\ req[w].op = "create" => InOrder(req[w].new)
    /\ req[w].op = "update" /\ req[w].id \in Live
         => InOrder(Written(accounts[req[w].id], req[w]))

PasswordInv ==
    /\ TypeInv /\ FreshIds
    /\ \A i \in Live : InOrder(accounts[i])
    /\ \A w \in Workers : PlanInOrder(w)

(* The read phase leaves the accounts alone: it has the plan to answer for. *)
LEMMA HoldInOrder ==
    ASSUME PasswordInv, TypeInv', NEW w \in Workers, NEW plan, Hold(w, plan),
           plan.op = "create" => InOrder(plan.new),
           plan.op = "update" => /\ plan.id \in Live
                                 /\ InOrder(Written(accounts[plan.id], plan))
    PROVE  PasswordInv'
<1>1. /\ accounts' = accounts /\ nextId' = nextId
      /\ req \in [Workers -> Plans] /\ req' = [req EXCEPT ![w] = plan]
  BY DEF Hold, PasswordInv, TypeInv, TypeOK
<1>2. Live' = Live
  BY <1>1 DEF Live
<1>3. FreshIds'
  <2>1. plan.op = "update" => plan.id < nextId
    BY DEF PasswordInv, FreshIds
  <2>. QED
    BY <1>1, <1>2, <2>1 DEF PasswordInv, FreshIds
<1>4. \A i \in Live' : InOrder(accounts[i])'
  BY <1>1, <1>2 DEF PasswordInv, InOrder
<1>5. ASSUME NEW v \in Workers
      PROVE  PlanInOrder(v)'
  <2>1. CASE v = w
    <3>1. req'[v] = plan
      BY <1>1, <2>1
    <3>. QED
      BY <1>1, <1>2, <3>1 DEF PlanInOrder, InOrder, Written
  <2>2. CASE v # w
    <3>1. req'[v] = req[v]
      BY <1>1, <2>2
    <3>2. PlanInOrder(v)
      BY DEF PasswordInv
    <3>. QED
      BY <1>1, <1>2, <3>1, <3>2 DEF PlanInOrder, InOrder, Written
  <2>. QED
    BY <2>1, <2>2
<1>. QED
  BY <1>3, <1>4, <1>5 DEF PasswordInv

(* So does a step that only drops plans. *)
LEMMA PlansGone ==
    ASSUME PasswordInv, TypeInv', accounts' = accounts, nextId' = nextId,
           \A v \in Workers : req'[v] = req[v] \/ req'[v].op \notin {"create", "update"}
    PROVE  PasswordInv'
<1>1. Live' = Live
  BY DEF Live
<1>2. FreshIds'
  BY <1>1 DEF PasswordInv, FreshIds
<1>3. \A i \in Live' : InOrder(accounts[i])'
  BY <1>1 DEF PasswordInv, InOrder
<1>4. ASSUME NEW v \in Workers
      PROVE  PlanInOrder(v)'
  <2>1. PlanInOrder(v)
    BY DEF PasswordInv
  <2>. QED
    BY <1>1, <2>1 DEF PlanInOrder, InOrder, Written
<1>. QED
  BY <1>2, <1>3, <1>4 DEF PasswordInv

(* In particular a request that ends with nothing written. *)
LEMMA CommitNothing ==
    ASSUME PasswordInv, TypeInv', NEW w \in Workers, End(w),
           accounts' = accounts, nextId' = nextId
    PROVE  PasswordInv'
<1>1. req \in [Workers -> Plans] /\ req' = [req EXCEPT ![w] = Idle]
  BY DEF End, PasswordInv, TypeInv, TypeOK
<1>2. \A v \in Workers : req'[v] = req[v] \/ req'[v].op \notin {"create", "update"}
  BY <1>1 DEF Idle
<1>. QED
  BY <1>2, PlansGone

(* change_password writes the hash its owner chose, update_admin_user a hash
   and the order to change it, or neither, create_admin_user both. *)
LEMMA ReadsInOrder ==
    ASSUME PasswordInv, TypeInv', NEW w \in Workers,
           \/ Login(w) \/ ChangePassword(w) \/ CreateAdmin(w) \/ UpdateAdmin(w)
           \/ DeleteAdmin(w) \/ UnlockAdmin(w)
    PROVE  PasswordInv'
<1>1. TypeOK
  BY DEF PasswordInv, TypeInv
<1>2. CASE Login(w)
  <2>1. PICK plan : Hold(w, plan) /\ plan.op = "login"
    BY <1>2 DEF Login, Attempt
  <2>. QED
    BY <2>1, HoldInOrder
<1>3. CASE ChangePassword(w)
  <2>1. PICK i \in Live, p \in Passwords :
          Hold(w, [op |-> "update", id |-> i, cols |-> ChangedByOwner(accounts[i]),
                   new |-> [accounts[i] EXCEPT !.hash = [text |-> p, own |-> TRUE],
                                               !.force = FALSE]])
    BY <1>3 DEF ChangePassword
  <2>. DEFINE new == [accounts[i] EXCEPT !.hash = [text |-> p, own |-> TRUE],
                                         !.force = FALSE]
              plan == [op |-> "update", id |-> i, cols |-> ChangedByOwner(accounts[i]),
                       new |-> new]
  <2>2. i \in AccountIds /\ accounts[i] \in Accounts
    BY <1>1, LiveType
  <2>3. new \in Accounts /\ new.hash.own
    BY <2>2 DEF Accounts, Hashes
  <2>. HIDE DEF new
  <2>4. /\ plan.op = "update" /\ plan.id = i /\ plan.new = new
        /\ plan.cols = ChangedByOwner(accounts[i])
    OBVIOUS
  <2>. HIDE DEF plan
  <2>5. "hash" \in plan.cols
    BY <2>4 DEF ChangedByOwner
  <2>6. Written(accounts[i], plan).hash = new.hash
    BY <2>2, <2>3, <2>4, <2>5, WrittenType
  <2>7. InOrder(Written(accounts[i], plan))
    BY <2>3, <2>6 DEF InOrder
  <2>8. Hold(w, plan)
    BY <2>1 DEF plan, new
  <2>. QED
    BY <2>4, <2>7, <2>8, HoldInOrder
<1>4. CASE CreateAdmin(w)
  <2>1. PICK plan : Hold(w, plan) /\ plan.op = "create" /\ plan.new.force = TRUE
    BY <1>4 DEF CreateAdmin
  <2>. QED
    BY <2>1, HoldInOrder DEF InOrder
<1>5. CASE UpdateAdmin(w)
  <2>1. PICK i \in Live, b \in Updates :
          Hold(w, [op |-> "update", id |-> i, new |-> UpdatedBy(accounts[i], b),
                   cols |-> {f \in Columns \ {"hash"} :
                                UpdatedBy(accounts[i], b)[f] # accounts[i][f]}
                            \cup (IF b.password # NULL THEN {"hash"} ELSE {})])
    BY <1>5 DEF UpdateAdmin
  <2>. DEFINE new == UpdatedBy(accounts[i], b)
              cols == {f \in Columns \ {"hash"} : new[f] # accounts[i][f]}
                      \cup (IF b.password # NULL THEN {"hash"} ELSE {})
              plan == [op |-> "update", id |-> i, new |-> new, cols |-> cols]
  <2>2. i \in AccountIds /\ accounts[i] \in Accounts
    BY <1>1, LiveType
  <2>3. new \in Accounts
    BY <2>2, UpdatedByType, AdminAssumption
  <2>4. /\ b.password # NULL => new.force
        /\ b.password = NULL => new.force = accounts[i].force
    BY <2>2, AdminAssumption DEF UpdatedBy, FlagAfter, Accounts, UpdateBodies
  <2>5. /\ "force" \in cols \/ new["force"] = accounts[i]["force"]
        /\ b.password = NULL => "hash" \notin cols
    BY DEF Columns
  <2>. HIDE DEF new, cols
  <2>6. plan.op = "update" /\ plan.id = i /\ plan.new = new /\ plan.cols = cols
    OBVIOUS
  <2>. HIDE DEF plan
  <2>7. Written(accounts[i], plan).force = new.force
    <3>1. Written(accounts[i], plan)["force"]
            = IF "force" \in cols THEN new["force"] ELSE accounts[i]["force"]
      BY <2>2, <2>3, <2>6, WrittenType
    <3>. QED
      BY <2>5, <3>1
  <2>8. b.password = NULL => Written(accounts[i], plan).hash = accounts[i].hash
    <3>1. Written(accounts[i], plan)["hash"]
            = IF "hash" \in cols THEN new["hash"] ELSE accounts[i]["hash"]
      BY <2>2, <2>3, <2>6, WrittenType
    <3>. QED
      BY <2>5, <3>1
  <2>9. InOrder(accounts[i])
    BY DEF PasswordInv
  <2>10. InOrder(Written(accounts[i], plan))
    BY <2>4, <2>7, <2>8, <2>9 DEF InOrder
  <2>11. Hold(w, plan)
    BY <2>1 DEF plan, new, cols
  <2>. QED
    BY <2>6, <2>10, <2>11, HoldInOrder
<1>6. CASE DeleteAdmin(w)
  <2>1. PICK plan : Hold(w, plan) /\ plan.op = "delete"
    BY <1>6 DEF DeleteAdmin
  <2>. QED
    BY <2>1, HoldInOrder
<1>7. CASE UnlockAdmin(w)
  <2>1. PICK plan : Hold(w, plan) /\ plan.op = "unlock"
    BY <1>7 DEF UnlockAdmin
  <2>. QED
    BY <2>1, HoldInOrder
<1>. QED
  BY <1>2, <1>3, <1>4, <1>5, <1>6, <1>7

(* A commit that changes account i leaves the plans about the others, and no
   other request has a plan about i. *)
LEMMA CommitInOrder ==
    ASSUME PasswordInv, TypeInv', NEW w \in Workers, End(w), NEW i \in AccountIds,
           \A j \in AccountIds \ {i} : accounts'[j] = accounts[j],
           accounts'[i] # NULL => InOrder(accounts'[i]) /\ i < nextId',
           nextId' \in Nat, nextId <= nextId',
           \A v \in Workers \ {w} :
                req[v].op = "update" => req[v].id # i \/ accounts'[i] = NULL
    PROVE  PasswordInv'
<1>1. /\ req \in [Workers -> Plans] /\ req' = [req EXCEPT ![w] = Idle]
      /\ nextId \in Nat
  BY DEF End, PasswordInv, TypeInv, TypeOK
<1>2. ASSUME NEW j \in Live', j # i
      PROVE  j \in Live /\ accounts'[j] = accounts[j]
  BY <1>2 DEF Live
<1>3. ASSUME NEW v \in Workers, v # w
      PROVE  req'[v] = req[v]
  BY <1>1, <1>3
<1>4. req'[w].op = "idle"
  BY <1>1 DEF Idle
<1>5. FreshIds'
  <2>1. ASSUME NEW j \in Live'
        PROVE  j < nextId'
    <3>1. CASE j = i
      BY <3>1 DEF Live
    <3>2. CASE j # i
      <4>1. j \in Live /\ j \in Nat
        BY <1>2, <3>2 DEF Live, AccountIds
      <4>2. j < nextId
        BY <4>1 DEF PasswordInv, FreshIds
      <4>. QED
        BY <1>1, <4>1, <4>2
    <3>. QED
      BY <3>1, <3>2
  <2>2. ASSUME NEW v \in Workers, req'[v].op = "update"
        PROVE  req'[v].id < nextId'
    <3>1. v # w
      BY <1>4, <2>2
    <3>2. req'[v] = req[v]
      BY <1>3, <3>1
    <3>3. req[v].id \in AccountIds
      BY <1>1, <2>2, <3>2, PlanType
    <3>4. req[v].id < nextId
      BY <2>2, <3>2 DEF PasswordInv, FreshIds
    <3>. QED
      BY <1>1, <3>2, <3>3, <3>4 DEF AccountIds
  <2>. QED
    BY <2>1, <2>2 DEF FreshIds
<1>6. ASSUME NEW j \in Live'
      PROVE  InOrder(accounts[j])'
  <2>1. CASE j = i
    BY <2>1 DEF Live, InOrder
  <2>2. CASE j # i
    BY <1>2, <2>2 DEF PasswordInv, InOrder
  <2>. QED
    BY <2>1, <2>2
<1>7. ASSUME NEW v \in Workers
      PROVE  PlanInOrder(v)'
  <2>1. CASE v = w
    BY <1>4, <2>1 DEF PlanInOrder
  <2>2. CASE v # w
    <3>1. req'[v] = req[v]
      BY <1>3, <2>2
    <3>2. PlanInOrder(v)
      BY DEF PasswordInv
    <3>3. req'[v].op = "create" => InOrder(req'[v].new)
      BY <3>1, <3>2 DEF PlanInOrder
    <3>4. ASSUME req'[v].op = "update", req'[v].id \in Live'
          PROVE  InOrder(Written(accounts[req[v].id], req[v])')
      <4>1. req[v].id # i
        BY <2>2, <3>1, <3>4 DEF Live
      <4>2. req[v].id \in Live /\ accounts'[req[v].id] = accounts[req[v].id]
        BY <1>2, <3>1, <3>4, <4>1
      <4>3. InOrder(Written(accounts[req[v].id], req[v]))
        BY <3>1, <3>2, <3>4, <4>2 DEF PlanInOrder
      <4>. QED
        BY <3>1, <4>2, <4>3 DEF Written
    <3>. QED
      BY <3>3, <3>4 DEF PlanInOrder, InOrder
  <2>. QED
    BY <2>1, <2>2
<1>. QED
  BY <1>5, <1>6, <1>7 DEF PasswordInv

(* The commits to admin_users. *)
LEMMA AccountCommitsInOrder ==
    ASSUME PasswordInv, TypeInv', NoSharedUpdate, NEW w \in Workers,
           CommitCreate(w) \/ CommitUpdate(w) \/ CommitDelete(w)
    PROVE  PasswordInv'
<1>1. /\ req[w] \in Plans /\ accounts \in [AccountIds -> Opt(Accounts)]
      /\ nextId \in Nat
  BY DEF PasswordInv, TypeInv, TypeOK
<1>2. PlanInOrder(w) /\ End(w)
  BY DEF PasswordInv, CommitCreate, CommitUpdate, CommitDelete
<1>3. CASE CommitCreate(w)
  <2>1. CASE NameFree(req[w].new.name)
    <3>1. /\ accounts' = [accounts EXCEPT ![nextId] = req[w].new] /\ nextId' = nextId + 1
          /\ nextId \in AccountIds /\ req[w].op = "create"
      BY <1>3, <2>1 DEF CommitCreate
    <3>2. accounts'[nextId] = req[w].new /\ InOrder(req[w].new)
      BY <1>1, <1>2, <3>1 DEF PlanInOrder
    <3>3. \A j \in AccountIds \ {nextId} : accounts'[j] = accounts[j]
      BY <1>1, <3>1
    <3>4. ASSUME NEW v \in Workers, req[v].op = "update"
          PROVE  req[v].id # nextId
      BY <1>1, <3>4 DEF PasswordInv, FreshIds
    <3>5. nextId' \in Nat /\ nextId <= nextId' /\ nextId < nextId'
      BY <1>1, <3>1
    <3>. QED
      BY <1>2, <3>1, <3>2, <3>3, <3>4, <3>5, CommitInOrder
  <2>2. CASE ~NameFree(req[w].new.name)
    <3>1. accounts' = accounts /\ nextId' = nextId /\ req[w].op = "create"
      BY <1>3, <2>2 DEF CommitCreate
    <3>. QED
      BY <1>1, <1>2, <3>1, CommitNothing
  <2>. QED
    BY <2>1, <2>2
<1>4. CASE CommitUpdate(w)
  <2>. DEFINE i == req[w].id
  <2>1. req[w].op = "update" /\ i \in AccountIds /\ nextId' = nextId
    BY <1>1, <1>4, PlanType DEF CommitUpdate
  <2>2. CASE accounts[i] = NULL
    <3>1. accounts' = accounts
      BY <1>4, <2>2 DEF CommitUpdate
    <3>. QED
      BY <1>1, <1>2, <2>1, <3>1, CommitNothing
  <2>3. CASE accounts[i] # NULL
    <3>1. accounts' = [accounts EXCEPT ![i] = Written(accounts[i], req[w])]
      BY <1>1, <1>4, <2>1, <2>3 DEF CommitUpdate
    <3>2. accounts'[i] = Written(accounts[i], req[w])
      BY <1>1, <2>1, <3>1
    <3>3. i \in Live
      BY <2>1, <2>3 DEF Live
    <3>4. InOrder(Written(accounts[i], req[w]))
      BY <1>2, <2>1, <3>3 DEF PlanInOrder
    <3>5. \A j \in AccountIds \ {i} : accounts'[j] = accounts[j]
      BY <1>1, <3>1
    <3>6. i < nextId
      BY <3>3 DEF PasswordInv, FreshIds
    <3>7. \A v \in Workers \ {w} : req[v].op = "update" => req[v].id # i
      BY <2>1 DEF NoSharedUpdate
    <3>8. nextId' \in Nat /\ nextId <= nextId'
      BY <1>1, <2>1
    <3>. HIDE DEF i
    <3>. QED
      BY <1>2, <2>1, <3>2, <3>4, <3>5, <3>6, <3>7, <3>8, CommitInOrder
  <2>. QED
    BY <2>2, <2>3
<1>5. CASE CommitDelete(w)
  <2>. DEFINE i == req[w].id
  <2>1. req[w].op = "delete" /\ i \in AccountIds /\ nextId' = nextId
    BY <1>1, <1>5, PlanType DEF CommitDelete
  <2>2. accounts' = [accounts EXCEPT ![i] = NULL]
    BY <1>5 DEF CommitDelete
  <2>3. accounts'[i] = NULL
    BY <1>1, <2>1, <2>2
  <2>4. \A j \in AccountIds \ {i} : accounts'[j] = accounts[j]
    BY <1>1, <2>2
  <2>5. nextId' \in Nat /\ nextId <= nextId'
    BY <1>1, <2>1
  <2>6. accounts'[i] # NULL => InOrder(accounts'[i]) /\ i < nextId'
    BY <2>3
  <2>7. \A v \in Workers \ {w} :
          req[v].op = "update" => req[v].id # i \/ accounts'[i] = NULL
    BY <2>3
  <2>. HIDE DEF i
  <2>. QED
    BY <1>2, <2>1, <2>4, <2>5, <2>6, <2>7, CommitInOrder
<1>. QED
  BY <1>3, <1>4, <1>5

LEMMA StepInOrder == PasswordInv /\ NoSharedUpdate /\ [Next]_vars => PasswordInv'
<1>. SUFFICES ASSUME PasswordInv, NoSharedUpdate, [Next]_vars
              PROVE  PasswordInv'
  OBVIOUS
<1>1. TypeInv'
  BY StepType DEF PasswordInv
<1>2. req \in [Workers -> Plans]
  BY DEF PasswordInv, TypeInv, TypeOK
<1>3. ASSUME NEW w \in Workers,
             \/ Login(w) \/ ChangePassword(w) \/ CreateAdmin(w) \/ UpdateAdmin(w)
             \/ DeleteAdmin(w) \/ UnlockAdmin(w)
      PROVE  PasswordInv'
  BY <1>1, <1>3, ReadsInOrder
<1>4. ASSUME NEW w \in Workers, CommitCreate(w) \/ CommitUpdate(w) \/ CommitDelete(w)
      PROVE  PasswordInv'
  BY <1>1, <1>4, AccountCommitsInOrder
<1>5. ASSUME NEW w \in Workers, IssueToken(w) \/ CommitUnlock(w)
      PROVE  PasswordInv'
  <2>1. accounts' = accounts /\ nextId' = nextId /\ End(w)
    BY <1>5 DEF IssueToken, CommitUnlock
  <2>. QED
    BY <1>1, <2>1, CommitNothing
<1>6. ASSUME NEW w \in Workers, RecordAttempt(w)
      PROVE  PasswordInv'
  <2>1. /\ accounts' = accounts /\ nextId' = nextId
        /\ req' = [req EXCEPT ![w] =
              IF req[w].ok THEN [op |-> "issue", user |-> req[w].user, force |-> req[w].force]
              ELSE Idle]
    BY <1>6 DEF RecordAttempt
  <2>2. \A v \in Workers :
          req'[v] = req[v] \/ req'[v].op \notin {"create", "update"}
    BY <1>2, <2>1 DEF Idle
  <2>. QED
    BY <1>1, <2>1, <2>2, PlansGone
<1>7. CASE Tick \/ Crash \/ UNCHANGED vars
  <2>1. accounts' = accounts /\ nextId' = nextId
    BY <1>7 DEF Tick, Crash, vars
  <2>2. \A v \in Workers :
          req'[v] = req[v] \/ req'[v].op \notin {"create", "update"}
    BY <1>7 DEF Tick, Crash, vars, Idle
  <2>. QED
    BY <1>1, <2>1, <2>2, PlansGone
<1>. QED
  BY <1>3, <1>4, <1>5, <1>6, <1>7 DEF Next

(* Of any number of workers: as long as no two requests update one account at
   one time, a password somebody else chose has to be changed. *)
THEOREM OnlyOverlapLosesTheFlag == Spec /\ []NoSharedUpdate => []GivenMustChange
<1>1. Init => PasswordInv
  <2>. SUFFICES ASSUME Init
                PROVE  PasswordInv
    OBVIOUS
  <2>1. TypeInv
    BY InitType
  <2>2. /\ nextId = 2
        /\ \A w \in Workers : req[w].op = "idle"
        /\ \A i \in Live : i = 1 /\ accounts[i].force = TRUE
    BY DEF Init, Idle, Live
  <2>. QED
    BY <2>1, <2>2 DEF PasswordInv, FreshIds, PlanInOrder, InOrder
<1>2. PasswordInv => GivenMustChange
  BY DEF PasswordInv, GivenMustChange, InOrder
<1>. QED
  BY <1>1, <1>2, StepInOrder, PTL DEF Spec

(* A backend that serves one request at a time never loses it. *)
THEOREM SerialKeepsTheFlag ==
    ASSUME \A v, w \in Workers : v = w
    PROVE  Spec => []GivenMustChange
<1>1. NoSharedUpdate
  BY DEF NoSharedUpdate
<1>. QED
  BY <1>1, OnlyOverlapLosesTheFlag, PTL
=============================================================================
