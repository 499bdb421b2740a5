# ZeroRadius: a TLA+ verification project

ZeroRadius manages a FreeRADIUS server: a FastAPI backend edits MariaDB tables,
FreeRADIUS answers Access-Requests from the same tables, a syslog sidecar feeds
device logs to the backend, and a React panel is what operators see of it. This
directory models the parts whose
correctness depends on the order of steps. TLC checks them on small instances
and TLAPS proves the main results for every instance.

The source is the repository root, `src/`; line numbers below and in
`PROJECT.json` refer to it.

## 1. Inventory

| Part | State | Operations | What makes it correct |
|---|---|---|---|
| Access policy assignments (`routers/access_policies.py`, `services/access_policies_service.py`) | `access_policy_assignments`, with `target_key` kept by ORM listeners | create or replace, bulk create, update, delete | a target names one row per user; exceptions lie in their segment and are disjoint; no write revives or dangles |
| Network segments (`routers/network_segments.py`) | `network_segments` | create, update, delete | CIDRs disjoint; a CIDR never moves away from the exceptions in it |
| NAS categories (`routers/nas_categories.py`) | `nas_categories` | create, rename, delete (`ON DELETE SET NULL`) | references never dangle |
| NAS clients (`routers/nas.py`) | `nas`, and the clients FreeRADIUS loaded | create, update with a cascade onto assignments, delete, restart of `radius-server` | the loaded clients catch up with the table |
| RADIUS policy (`radius/policy.d/nas_based_authorization`) | none, reads the tables | four SQL lookups per Access-Request | precedence; a stable match is never passed over |
| Preview (`services/bandwidth_profiles.py`) | none | `POST /preview` | names the row the policy uses |
| Device registry, circuits, groups, profiles | their tables | CRUD, bulk upsert, rename, upsert | see section 8 |
| Admin login and lockout (`routers/auth.py`, `services/lockout.py`, `middleware/force_password_change.py`) | `login_attempts`, the tokens handed out | login, change password | overlapping logins add few failures past the limit; a lockout ends by itself |
| Admin accounts (`routers/admin_users.py`) | `admin_users` | create, update, delete, unlock | a password somebody else chose has to be changed |
| Custom dictionaries (`routers/dictionary.py`, `services/dictionary_loader.py`, `radius/docker-entrypoint.sh`) | the shared directory, the parsed catalogue and two caches, the `$INCLUDE` lines and what the server loaded | upload, edit, rename, delete, restart; the entrypoint | vendors stay unique; the server comes back and runs on the files as they are |
| Syslog forwarder (`rsyslog/syslog-forwarder.py`) | `message_buffer`, two threads | receive, flush, requeue | a message it read is held once until stored |
| Syslog ingestion and hash chain (`routers/syslog.py`, `services/syslog_integrity.py`) | `syslog_events` | ingest, backfill every 60 s | links never dangle, split or change |

| Panel session (`src/frontend/src/App.jsx`, `api.js`, `context/AuthContext.jsx`, `components/Layout.jsx` and the guards) | the token in `localStorage`, shared by the tabs; the user and path of each tab | login, logout, navigation, requests and their 401, password change with its timeout | a page sends its requests as the user it shows; a tab learns that its session is over |
| Panel table pages (`pages/NAS.jsx`, `DeviceRegistry.jsx`, `NetworkSegments.jsx`, `CircuitPage.jsx`, `AdminUsers.jsx`, `Users.jsx`, `components/access-policies/AssignmentsTab.jsx`) | a cached list, a form over it, requests under way | open, type, submit, delete, import, approve, refetch | a save reaches the row shown, changes what the user changed, and the list catches up |
| Policy page (`pages/Policies.jsx`, `routers/groups.py`) | the rows cached by group, the selected group, two dialogs | select, rename, add, edit and delete attributes | an edited attribute stays in its group |
| Dictionary editor (`pages/Dictionaries.jsx`) | the text, the cached copy, saves under way | open, type, save, refetch, close | the text shown is the text written |
| Live log drawer (`components/LogViewer.jsx`, `routers/system.py`) | sockets, the socket `wsRef` names, timeouts | open, close, handshake, drop, reconnect | it comes back after a drop and does not multiply |

How they interact: the panel writes by requests to the handlers, keeps copies of
what it read and drops a copy when an answer arrives; the handlers share the tables and commit independently; the
policy reads what they committed, one statement at a time; a change of `nas`
restarts the server that is answering; the forwarder posts to the backend,
which a background task in the same process hashes.

What is hard: reads before a commit that another handler overtakes; rules that
three handlers must keep together (a segment's CIDR and the exceptions in it);
foreign keys that act behind the ORM; a container that restarts while the files
it lists and reads go on changing; two writings of one resolution order; a
retry of a post that did succeed; a hash chain continued by separate runs; a
lockout computed from a log that overlapping logins are about to extend; a flag
that one handler clears while another relies on it; forms filled from a copy, whose
answers come late and in any order; tabs that share a token; sockets that outlive
what opened them.
`PROJECT.json` lists each hazard at its line with the properties that cover it.

## 2. How the database is modelled

* MariaDB 10.11 runs at REPEATABLE READ and every handler has its own session
  (`db/session.py`). All reads of a handler come from one snapshot, so they are
  one action that ends in a *plan*, held in `req[w]`; the commit is a second
  action, evaluated against the tables of that moment. Any other handler may
  commit in between.
* A session writes only the columns it changed. `MergeRow` writes those onto the
  row as it is now. An UPDATE that finds no row is an error and rolls back; a
  DELETE that finds none is not, and is logged. An update that changes nothing
  sends no UPDATE; when its row vanished, the model ends the request where the
  code fails at the refresh, with the same tables.
* Unique keys and foreign keys of `database/init.sql` are conditions of the
  commit. `cir_id` has no foreign key there.
* `log_audit` is a second transaction. A handler crashes, or finds its row gone
  at the refresh, between the two. Nothing reads the audit table, so only the
  step is modelled, for what follows it: the restart in `routers/nas.py`.
* AUTO_INCREMENT never reuses an id: `next` only grows.
* The queries of FreeRADIUS are single statements in autocommit: each sees a
  state of its own.

Abstractions of data: an address is a number, a CIDR an interval (any interval,
more than CIDRs allow), names, MACs, users and circuits are model values,
`target_key` is the tuple it hashes, `radius_group` is the id of the row that
carries it. `BLANK` is the empty string, which the schema accepts for range
bounds and which SQL and Python treat differently from NULL. Range bounds are
ordered as numbers where step 1 orders them as strings. `nasname` is a single
address, so every entry of `nas_cidr_ranges` is a /32.

## 3. Modules

* `PolicyTables` — rows, payloads (`ValidPayload` is the request schema), the two
  keys, column-wise merge, intervals, `Replaces` (`find_existing_assignment`).
* `AccessPolicies` — extends it with the tables and one action per handler half:
  `CreateOrReplace`, `CreateBulk`, `UpdateAssignment`, `DeleteAssignment`,
  `Create/Update/DeleteSegment`, `.../Category`, `.../Nas` end in a plan;
  `Commit...` carry it out; `LogAudit` ends the request; `RadiusRestart` and
  `Crash` are the environment. `reloadLost` is an observer.
* `PolicyResolution` — pure operators: each step of the policy as a query that
  returns the set of rows `LIMIT 1` may yield, and the preview beside it.
* `PolicyAgreement` — policy and preview compared on the tables the handlers leave.
* `RadiusAuthorization` — extends it: one Access-Request at a time walks the
  four queries while handlers commit. `stable` remembers what matched in every
  state since the request arrived.
* `SyslogChannel` — the promise: a message is held until stored, and lost only by
  a crash.
* `SyslogForwarder` — the two threads, the lock as atomicity of `Take` and
  `Requeue`, posts with their three outcomes, requests that outlive their
  timeout (`limbo`), crashes. `ImplementsChannel` is the refinement.
* `SyslogIntegrity` — `backfill_syslog_hashes` as select / commit steps under the
  loop of `main.py`, with ingestion in between. A hash is the sequence of the
  rows behind it.
* `AdminAccounts` — operators of the panel, in the same two halves. A login reads
  the log of attempts and the account (`Login`), commits its own row together
  with the clean-up of old ones (`RecordAttempt`), then hands out a token made
  from the account as loaded (`IssueToken`). `Tick` ages rows and tokens; an age
  past `CleanupAge` is told from no other. `exempt` in a row is an observer: the
  login went past the lockout on the strength of a session. `Superadmins` is
  the middleware, the token and the role check together.
* `Dictionaries` — both sides of the directory of custom dictionaries. `Save`
  (upload and edit are the same function twice), `Rename` and `Delete` each
  check, write and reload the catalogue without an await; `Reload` is what
  follows the audit write. On the other side `Include` is the entrypoint (list,
  copy, write the lines), `Read` FreeRADIUS, `DockerRestart` and `Stop` docker.
  A text is its vendors, whether it redefines a base attribute, and which server
  can read it. FreeRADIUS is taken to read what pyrad reads, and to accept a file
  included twice. `copies` and `reloadLost` are observers.
* `PanelForms` — the forms of the panel as pure functions: what each form starts
  from, how a row fills it, what an input changes, what a submit sends, and which
  row a POST replaces. Columns that a page treats alike are one column; the two bounds
  of a range are not. `Spellings` are the texts the backend rewrites before it stores
  them, `Canonical` what it makes of each: a MAC loses separators and case, a CIDR its
  host bits, a name or circuit id the blanks around it.
* `PanelEditor` — extends it: one page with its table. `page` says which, and the
  operators that differ (`Blank`, `FormOf`, `Body`, `Inputs`, `Required`, `Put`)
  choose by it. `Received` is the payload a handler gets once the validators have
  rewritten it (`Rewritten`, `Known`); `Malformed` is their 422, and `Clashes` compares
  what they leave. `UserLimit` is the 100 of `GET /users`. Its actions are shared, so their entries in `map` name the code of
  one page each, and together those of all seven. `OpenCreate`, `OpenEdit`,
  `Input`, `Cancel`, `Submit`, `DeleteRow`, `Import` and `Approve` are the user;
  `Serve`, `Refuse` and `Succeed` the request, the backend and the callbacks;
  `Focus`, `Read` and `Arrive` React Query; `Foreign` another operator.
* `GroupsPage` — the policy page: a query by group name whose copies stay in the
  cache, two dialogs, and the handlers of `routers/groups.py`.
* `DictionaryEditor` — the editor over one file; what the file means to
  FreeRADIUS is in `Dictionaries`.
* `BrowserSession` — the tabs of one browser. A tab's user is the token its
  `AuthProvider` decoded as it mounted; `Answer` is the interceptor, which removes
  the token of the moment, not the one that was refused.
* `LogStream` — one mounted `LogViewer`. A socket stays in `sockets` until its
  `onclose` has run; `timer` is the timeout `reconnectTimer` names, `strays` those
  it named before.
* `MC...` — constants for TLC: the request bodies of each run.
* `AccessPoliciesProofs` (about `PolicyAgreement` and `RadiusAuthorization` too, which
  extend `AccessPolicies`), `SyslogForwarderProofs`, `SyslogIntegrityProofs`,
  `AdminAccountsProofs`, `DictionariesProofs`, `PanelEditorProofs`,
  `BrowserSessionProofs`, `LogStreamProofs` — the proofs.

Operators marked `Mutant` are plausible bugs; no specification uses them. Each
stands before the definition it would replace, and `PROJECT.json` says which
property then fails.

## 4. Runs

| Run | Question | Result |
|---|---|---|
| `AccessPoliciesSegments` | one request at a time: do segments, exceptions and base policies stay consistent, and does the preview name the policy's row for users with segment rows only? | holds |
| `AccessPoliciesTargets` | does `target_key` name the row's target? | holds, apart from the key a deleted category leaves |
| `AccessPoliciesConcurrent` | two workers: dangling references, revived rows? do the loaded NAS clients catch up? | neither; they do when no restart failed or was skipped |
| `RadiusEverywhere` | can commits during a request hide a stable match? | no |
| `SyslogDelivery` | is each read message held once until stored, duplicated only after a failed post, and is a full buffer stored in the end? | holds |
| `SyslogChain` | do links never dangle, split or change; is each row hashed? | holds |
| `AdminLockout` | two workers: how many failures can overlapping logins add, and does every lockout end? | fewer than `LOCKOUT_ATTEMPTS` plus one per request in flight; it does |
| `AdminAccounts` | one request at a time: does a password somebody else chose stay marked for a change? | holds |
| `Dictionaries` | two workers against a container that restarts: are vendors unique, does the server come back, on the files as they are? | it does, once changes pause and no restart was lost |
| `PanelPages` | each page that writes, in any order of inputs, late answers, refetches and writes of others: does a save reach the row it was filled from, change only what the user changed and store what was shown, but for its spelling, does an attribute stay in its group, do list and editor catch up? | holds, with the exceptions the properties name |
| `PanelSession` | two tabs and the log drawer: requests as the user shown? does every tab learn of a logout, does the drawer reconnect, once per opening? | holds |

A run that shows where a document and the code part ways (the finding quotes both):

| Run | What happens |
|---|---|
| `AccessPoliciesSegmentRace` | overlapping segments from two concurrent creates |

Further places where document and code part ways, read off the source while
modelling and not given a run of their own:

* A requeued batch smaller than `BATCH_SIZE` waits for new traffic
  (`rsyslog/syslog-forwarder.py:134`), where `docs/modules/syslog-dashboard.md:26` has
  batches of "up to 50 messages or 5 s".
* A reset of an account that is already marked writes no flag
  (`routers/admin_users.py:94`: the column did not change); a password change that
  commits in between clears it, and the given password stays with no change required,
  unlike `docs/modules/admin-users.md:60`. `GivenMustChange` is checked with one
  request at a time for this reason.
* Closing the log drawer, or logging out, does not end it: `onclose` sees the
  `isOpen` of its closure, which is true, and connects again
  (`components/LogViewer.jsx:108`), where the comments say "Don't reconnect on auth
  failures or intentional closes" (`:101`) and "disconnect when it closes" (`:124`).
  Two such sockets show every event twice. `ReconnectsOncePerOpening` is what
  remains true.
* A policy with a CIR or an identifier beside its target loses it when edited, one
  with only a CIR is refused (`components/access-policies/AssignmentsTab.jsx:249`, the
  PUT assigns every column). An MD5-Password that is saved unchanged is hashed again
  (`routers/users.py:89`); a shortname that starts with `OTHER-` loses the prefix
  (`pages/NAS.jsx:128`); clearing a field of a device has no effect
  (`pages/DeviceRegistry.jsx:104`, `routers/device_registry.py:179`).
* The backend stores ranges with one bound (`schemas/access_policies.py:126`), the form
  does not keep them: one with only an end opens as a segment and loses it
  (`components/access-policies/AssignmentsTab.jsx:205`), one with only a start is saved
  with the start as its end (`:254`), even if only the group was edited. No document
  speaks of such rows. `Uncarried` names the columns of this and the previous item, row
  by row; `EditKeepsRest` and `SavedAsShown` except these and demand the others.
* A MAC, a CIDR, a circuit id and the name or NAS of a device are not shown again as
  they were typed but as the backend writes them. `SavedAsShown` asks for the same text
  up to spelling. A PUT of a circuit stores its id as typed, blanks included
  (`schemas/schemas.py:264` has no validator for it), so two ids may differ by them only.
* The type of an attribute stays selectable while it is edited
  (`pages/Policies.jsx:614`): the save then goes to the row of the other table that has
  the same id. A rename onto an existing group merges the two, leaves
  `access_policy_assignments.radius_group` behind (`routers/groups.py:475`), and a form
  opened before it writes the old name again.
* A wizard whose second post fails leaves the first one stored and the list as it was;
  pressed again it posts the password again (`components/UserWizard.jsx:39`).
* A fetch that follows a save replaces what was typed meanwhile, and a text that is
  converted into the one fetched before stays on the screen as it was typed
  (`pages/Dictionaries.jsx:31`). A file that cannot be read shows as an empty editor,
  which Ctrl+S saves.
* A 401 that answers an old token removes the new one (`api.js:26`), and the timeout
  after a password change logs out whoever is logged in by then
  (`pages/ChangePassword.jsx:30`): both end a session, neither shows a wrong user.
* A POST with only a circuit replaces any segment-less assignment of the user,
  whatever its target (`services/access_policies_service.py:207`), where
  `docs/modules/access-policies.md:56` says "idempotent on `(username, target)`".
* A POST that replaces returns before `log_audit` (`routers/access_policies.py:186`);
  `docs/modules/access-policies.md:118` says every change is logged.
* Each run of the hashing task starts a chain of its own at the genesis hash
  (`services/syslog_integrity.py:38`); `docs/modules/syslog-dashboard.md:81` speaks
  of one chain.
* The middleware looks at the claim of the token, not at the account
  (`middleware/force_password_change.py:44`), unlike `docs/modules/admin-users.md:55`:
  after a reset old tokens still pass, after a change they are still refused.
* `LOCKOUT_DURATION_MINUTES` is only printed: a lockout lasts at most the
  10-minute window of the last failure (`services/lockout.py:56`).
* POST never asks for another active assignment of the user in the category
  (`routers/access_policies.py:142`), which `docs/modules/access-policies.md:116`
  rules out; only PUT asks (`:328`).
* Deleting categories nulls `nas_category_id` without touching `target_key`
  (`database/init.sql:317`), so two rows may end with one target.
* Narrowing a segment races with an exception validated against the old CIDR
  (`routers/network_segments.py:169`), as creating two segments does.
* Step 1 of the policy accepts a MAC row whatever NAS it names, the preview only
  with the request's NAS or none (`services/bandwidth_profiles.py:208`); the
  preview has no step 1.5. This is why `PreviewAgreesOnSegments` speaks of
  segment rows.
* Step 3 has `LIMIT 1` without `ORDER BY` (`radius/policy.d/nas_based_authorization:159`)
  and does not look at the MAC of the row.
* One event `syslog_events` refuses holds back its batch, and every later one,
  for good (`rsyslog/syslog-forwarder.py:116`); `FullBufferDelivered` excepts it.
* A row that arrives late is linked after later ones: rows are sorted within a
  batch only (`services/syslog_integrity.py:44`).

* The entrypoint copies a file with a space in its name once
  (`radius/docker-entrypoint.sh:149`) and includes the copy: an edit of the original
  never reaches the server (and is refused if it declares a vendor, which the copy
  has too), and after its deletion the copy stays loaded. `routers/dictionary.py:69`
  says a restart is what such changes need. `RadiusCatchesUp` therefore asks of such
  a file only that it is represented.
* A vendor list taken while the container is away holds for the life of the
  process (`services/dictionary_loader.py:186`), and so does an empty list of
  attributes (`routers/dictionary.py:61`); `docs/modules/dictionaries.md:84` has only
  the list of the live container last that long.

### Bounds and why they are enough

* Three assignments and two segments over four addresses show every relation of
  two intervals (nested, touching, reversed, disjoint) against a third and a
  segment that changes under them; two workers show every overlap of one read
  with one commit, and no rule of the code relates three.
* `AccessPoliciesTargets` has two categories and a NAS client that may be renamed,
  so each kind of target is replaced, cascaded and nulled.
* `RadiusEverywhere` lets two rows take the shape of every step of the chain, by
  POST or by PUT, with two MACs. Its VIEW leaves `clients` and `reloadLost` out of the
  fingerprint: no guard reads them and no property of the run names them.
* The forwarder has three messages against `BATCH_SIZE` 2, so a buffer may be
  below, at and above it, two failed posts and one crash. The chain has four
  rows, batches of two, two texts and two times, so that twins, late rows, a
  second batch and a second run all occur.
* `AdminLockout` has a limit of two failures and two workers, so the limit is
  reached with and without an overlap, a window of one tick, and room for the
  four failures a window can hold. Windows keep their order in the code (10 and
  30 minutes, 24 hours), not their ratio. `AdminAccounts` has two superadmins, so
  one may reset, demote or delete the other, and each PUT leaves other fields
  out. `MaxAttempt` bounds the rows a login finds after the clean-up.
* `Dictionaries` has a file that ships, a free name and a name with a space that is
  sanitized to the first, and texts with a free vendor, a built-in one the fallback
  knows, one it does not, and both kinds of refusal. Two workers, so that a change
  and a restart overlap with the restart of another. It needs no bound.
* `PanelPages` looks at one page in each behaviour, with one row to begin with, a row
  with every optional column and one with few, two calls (of the page or of others)
  and one text to type, in a spelling of its own where the backend rewrites it, and
  blanks: an edit overtaken by another edit, a delete or a write from
  elsewhere all occur, as do a form closed by the answer to another and a wizard that
  fails half way. A guard on what was sent stops the user where nothing more can be
  saved. Policies have both bounds of a range, either or none. Two users are listed of
  the three there may be. `MaxLeft` bounds the fields filled in before the target mode is changed; the
  fields of two modes still meet where a mode uses those of another.
  `GroupsPage` has two groups and two requests, `DictionaryEditor` two saves and a
  text that is converted.
* `PanelSession` has two tabs and two tokens, so a login overtakes a page, and one
  request a tab has under way, so an answer may come after a logout and a login. The
  drawer is opened twice: a socket or timeout of the first opening may cross
  those of the second. `Slots` leaves one socket more than the bound proves needed.
* `MaxRow`, `MaxSeg`, `MaxCat`, `MaxNas`, `MaxEvents` bound ids ever handed out;
  `MaxFail` and `MaxCrash` bound failures. Every bound is a guard of one action.

### Fairness

Only the syslog specifications, `AdminLockout`, `Dictionaries` and `PanelSession`
assume any. In `PanelSession` intervals poll and a navigation that began ends (weak
fairness), and an answer to a tab arrives in the end although reloads may drop it
(strong: nobody reloads for ever faster than the backend answers). Timeouts of the
drawer fire and closes that began end, weakly; that a server tried again and again
answers one of the handshakes is strong. No user action is owed.
`AdminLockout` assumes only that the clock goes on: no login, unlock or commit is
owed. `Dictionaries` assumes that a started container runs and that docker restarts
one that exited (`restart: unless-stopped`); the backend owes nothing. Both forwarder threads loop for ever
and `requests.post` has a timeout, so each of their steps is weakly fair; devices
need not send, crashes and late backend answers need not come. The hashing task
is scheduled by asyncio and its loop catches every exception, so its steps are
weakly fair. "Failures are finite" is the bound `MaxFail`. `CHECK_DEADLOCK FALSE`
is set for the forwarder, which stops when all messages are sent and stored, and for
the panel, where a user may leave everything as it is once the bounds are reached.

## 5. What is proved

Every theorem holds for all values of the constants that satisfy the named
assumptions of its module (numbers are numbers, the kinds of value are distinct,
the shipped dictionaries are in order) and, where it says `Serial`, for at most one
worker. TLC checked each invariant below on the run of its property first.

**Assignments, segments, categories, NAS clients** (`AccessPoliciesProofs`)

* `TypeCorrect`: `Spec => []TypeOK`.
* `SerialSafety` (`Serial`), and one corollary for each property
  (`SegmentsNeverOverlap`, `ExceptionsNeverOverlap`, `OneBaseEach`): segments are
  disjoint, exceptions lie in their segment and are disjoint, and base policies are
  unique. None is inductive: a commit relies on what its reads saw. The invariant adds
  `PlansCurrent`: the plan a worker holds is still valid against the tables. Serial
  service is exactly what makes this stable, since nobody else commits between the
  reads and the commit; `AccessPoliciesSegmentRace` shows that it fails without.
* `KeysFollowTargets` (`Serial`): `KeyTracksTarget`. The key of an update is computed
  from the row as read, so the invariant adds that each plan is keyed by the row it
  will leave (`PlansKeyed`); the row a deleted category leaves is told by its key, whose
  category must never come back, hence `FreshCatIds` and `NoDanglingTarget`.
* `TargetsExist`: `NoDanglingTarget` for any number of workers. It is inductive with
  the types: the foreign keys are conditions of the commit, not of the reads. It has a
  part for the rows of assignments (`RowsHaveParents`) and one for NAS clients
  (`NasHaveCategory`).
* `DeletedStaysDeleted`: `Spec => NoResurrection` for any number of workers. It needs
  that a plan names ids already handed out, and that an UPDATE of a missing row fails.
* `ReloadFollowsChange`: `ClientsFresh` for any number of workers. The invariant
  `ReloadOwed` says that the loaded clients are those of the table, or a restart was
  lost, or a worker still holds a request about `nas` whose restart lies ahead. The
  commit is what makes the clients old, and the worker that committed owes the restart
  until it has run.

**Policy and preview** (`AccessPoliciesProofs`)

* `PreviewTellsTheTruth` (`Serial`): `PreviewAgreesOnSegments`. The two writings of the
  resolution order agree on any tables where exceptions of a user in a segment are
  disjoint and lie inside it, and base policies are unique: what `SerialSafety`
  provides. `LIMIT 1` over a set with more than one row is where they would part.
* `StableMatchNeverPassedOver`: `RadiusSpec => []StableMatchWins`, for any number of
  workers that commit between the queries. `PassedOver` records what each query that
  found nothing ruled out: a row that matched throughout was in its snapshot, so its
  rank is of a later query. That `ORDER BY` has a first row is the lemma
  `LexMinimum`: a lexicographic order over naturals is well founded.

**Syslog** (`SyslogForwarderProofs`, `SyslogIntegrityProofs`)

* `ForwarderHoldsOnce` and `DuplicatesAreRetries`, for any batch size and messages. The
  invariant adds that a thread holds a batch only while it posts (`Phases`), that nothing
  unread is anywhere (`ReadFirst`) and that no batch, late requests included, has a
  message twice (`OnceEach`).
* `ForwarderImplementsChannel`: the refinement of `SyslogChannel`, step by step. It
  needs the same invariant: requeueing a batch is a stutter only because the messages
  are held nowhere else.
* `HashesAreFinal`: `NeverRehashed`; rows of the batch under way have no hash yet, and only
  the run writes hashes. `HashesVerify` says what an auditor would recompute: a hash
  belongs to its row and to the link before it.
* `ChainsNeverFork`: `NoFork`. The invariant `Room` counts the link a run is about to
  continue as taken: rows after a hash, plus the run that stands at it, are no more than
  the rows with that hash. Repeated rows may share a hash, so counting is needed. The
  turns of a batch are the closed form `Link(k)`, not a recursion.

**Admin login and accounts** (`AdminAccountsProofs`)

* `LockoutBoundsFailures`: `FailuresBounded` for every limit, window and number of
  workers. The invariant adds the logins that passed the check and have not recorded
  their failure: those and the recorded failures together stay under limit plus
  workers, since the check counted the recorded ones below the limit. Time only ages
  rows, and the clean-up removes no recent one.
* `OnlyOverlapLosesTheFlag`: `GivenMustChange` holds for any number of workers as long as no
  two updates of one account are under way at a time, which is the race section 4
  describes and no other; `SerialKeepsTheFlag` follows for one worker. The invariant
  says of each plan that, written on the account as it stands, it leaves the account
  in order.

**Dictionaries** (`DictionariesProofs`)

* `VendorsStayUnique`: the check and the write are one step, but the list of built-in
  vendors may be the fallback's or the container's; the invariant adds that a cached
  list has the fallback's vendors, and that a copy stands beside an original.
* `ServerCatchesUp`: `RadiusCatchesUp`, for any number of overlapping restarts. The
  invariant relates the list the entrypoint took to the files (`Listed`); the rest is
  that the property itself tells a restart owed from one done.

**Panel**

* `PanelEditorProofs`, `SaveGoesWhereShown`: `Spec => []TargetIsShown`, for every page,
  table and number of requests. The invariant adds that a closed form names no row,
  which is what the pages that open the form as it was left rely on, and that a save
  under way is one request.
* `PanelEditorProofs`, `ListShowsTable`: `ListCatchesUp`. `ListTold` says who is left to
  tell a list that is behind (for users, behind the rows a GET returns): a fetch that
  has yet to read, the answer to a request that was carried out at least in part, or
  nobody (`untold`). It is the reason why `onSuccess` must start a new fetch instead of
  waiting for the one under way.
* `PanelEditorProofs`, `EditorShowsWritten`: `EditorShowsFile`, for any texts and saves,
  assuming that the empty text is one, that NULL is none and that conversion gives
  texts. The text shown, the text fetched and the text being saved are three copies
  that catch up with the file in different orders; the invariant has a conjunct for
  each way one of them may still be relied on (`SavesShown`, `DoneShown`, `CleanShown`,
  `FirstLoad`), and `EditorTold` says who brings the file to an editor behind it.
* `PanelEditorProofs`, `AttributesStayInGroup`: `EditStaysInGroup`, an action property,
  for any groups, rows and requests. Every copy of a row (in the cache, in a query that
  shows the group before it, in the form, in a request under way) names the group the row
  is in, or one it was moved from by a rename (`Placed`). The request that is carried out
  is found again by its number (`Single`). There must be a value to put in a row.
* `PanelEditorProofs`, `EditsKeepTheRest` and `SavesAreShown`: `EditKeepsRest` and
  `SavedAsShown`, action properties, for any texts, shortnames, NAS clients, tables and
  requests. They assume what the pages are asked to be (`FormConstants`): they are among
  the seven, `""` is a text, shortnames are sequences, the NAS clients are finitely many,
  the rows that are there at first or that others write have the page's columns, NULL
  is no text, spelling, NAS client, flag or row, and a text that was rewritten is not
  rewritten again. The invariant (`FormsInv`) says that tables and lists stay sequences of rows of that
  page, that a form holds what the page's inputs hold, that every request under way has
  the body the page builds, and that a call is found by its number. `MacsInv` adds that
  wherever a device is shown (list, fetch, form, request) its MAC is that of its row:
  the edit form shows a MAC that the PUT does not have, and only because nothing changes
  the MAC of a row is it right to show it. TLC found both to hold on the instance of
  `PanelPages`. On both rest lemmas
  about the form functions, each a case per page: `FormOfFits`, `InputFits`, `BodyMade`,
  `RowPut` and `RowPosted` (forms, bodies and rows keep their shape), `EditKeepsColumn` (a
  column that is sent as the form was filled is written as it was), `PutHas` and
  `PostHas` (what was sent is in the row), `FormShowsRow` (a form filled from a row that
  has what was sent would send it again, but for its spelling). The exceptions of
  section 4 (`Uncarried`, `Same`, `Cleared`, `SameText`) are hypotheses of the
  properties, and each is needed.
* `PanelEditorProofs`, `PanelTypeCorrect`: `PanelTypeOK` of `PanelSpec`, for any bounds
  that leave a table its first row. The counts (`PageTyped`, `GroupsCounted`,
  `EditorCounted`) join the invariants above: no request takes a row's number away
  (`AfterGrows`), a handler adds a row only below the bound, what is under way is what
  was sent and not yet answered.
* `PanelEditorProofs`, `PanelKeepsItsWord`: all the other properties for `PanelSpec`,
  which the run checks and in which one of the three kinds of page is looked at.
* `BrowserSessionProofs`, `RequestsSentAsShown`: `CallerIsShown` for any number of tabs,
  tokens and requests, assuming only that the login and password pages are not among
  the guarded ones. The invariant says of each tab that its user is the stored token,
  or that there is none, or that another tab has logged in; an answer may clear the
  token but only a login can put another there.
* `LogStreamProofs`, `ReconnectionsBounded`: the type invariant and
  `ReconnectsOncePerOpening` for any number of openings and any tokens. The invariant
  is the bound itself with the types: every step that adds a socket or a timeout
  takes one away, but for opening the drawer.
* `BrowserSessionProofs`, `SessionTypeCorrect` and `SessionKeepsItsWord`: both, and the
  types, for the specification the run checks; the drawer's part is `ReconnectionsBounded`,
  cited through the instance (`SameStream` says that both instances define the same
  drawer).

## 6. Model-checked only

* Liveness (`FullBufferDelivered`, `EventuallyHashed`, `LockExpires`, `RadiusReturns`,
  `EveryTabLearnsLogout`, `DrawerReconnects`): fairness and ENABLED are outside the
  prover's reach.
* `KeyTracksTarget` and the serial rules with several workers: they do not hold there
  (section 4), so the theorems keep the hypothesis.
* That the four queries run on a state in which nothing changes agree with the preview
  step by step: only the agreement on segment rows is stated.

## 7. Not modelled

The category membership guard (off by default), IPv6, NAS secrets, read-only
endpoints, the callers of the policy handlers (`AdminAccounts` models who may call
the account handlers), password strength, rate limits, the parsing of dictionaries, files dropped
into their directory by hand, attribute names that two custom files share and startup
migrations.

Of the panel: the pages that only read (audit, dashboard, sessions, syslog, preview),
bandwidth profiles, `GroupManager.jsx`, which nothing imports, search and filter
fields, comboboxes, downloads, leaving a page with requests under way, what a log event
says and the delays of the drawer. Two lists of one page stand beside each other only
where one changes the other (`RemoveCategory`). Handlers of one page's table run one at a
time here: their overlap is the subject of `AccessPolicies`. `PROJECT.json` gives the
reason for each part.

## 8. Plan

1. Done: assignments, segments, categories, NAS clients, resolution, syslog pipeline,
   hash chain, admin login and accounts, dictionaries, the panel (session, table pages,
   policy page, dictionary editor, log drawer). Proved: the theorems of section 5, which
   cover the safety properties of every run but those section 6 names.
2. Next theorems: that the four queries of a request, run with nothing changing between
   them, answer as the preview does, for all four kinds of row.
3. Next modules: bandwidth profiles (delete-then-insert); concurrent JIT approvals and
   bulk upserts of devices, in place of the constant `Registry`; circuits with
   `resolve_circuit` and their delete beside assignments; group renames beside
   assignments.
