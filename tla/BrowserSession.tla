---------------------------- MODULE BrowserSession ----------------------------
(***************************************************************************)
(* Who is logged in to the panel, in several tabs of one browser: the      *)
(* token all tabs share in localStorage (api.js), the user each tab keeps  *)
(* in its AuthProvider (context/AuthContext.jsx), the routes that look at  *)
(* it (App.jsx, ProtectedRoute, RoleGuard), and what changes it            *)
(* (Login.jsx, ChangePassword.jsx, the logout button of Layout.jsx).       *)
(*                                                                         *)
(* Tokens are numbered as they are issued.  jwtDecode reads the claims of  *)
(* an expired one as well: only the backend tells.                         *)
(***************************************************************************)
EXTENDS Integers, Sequences, FiniteSets

CONSTANTS
    Tabs,
    Claims,     \* what a token may say: its role, and is a new password due
    Guarded,    \* path -> roles that see it; "/" is the Dashboard
    MaxTokens,  \* bound: tokens issued
    MaxFlight   \* bound: requests a tab has under way

VARIABLES
    issued,     \* the claims of each token, and whether the backend takes it
    stored,     \* localStorage 'token', 0 when there is none
    tabs,       \* path, user (a token, or 0), and is a setTimeout of
                \* ChangePassword pending
    flight,     \* the unanswered requests of each tab, with their token
    overtaken   \* observer: tabs since whose login or load another logged in

vars == <<issued, stored, tabs, flight, overtaken>>

Paths == DOMAIN Guarded
Tokens == 1 .. Len(issued)
Valid(n) == n # 0 /\ issued[n].valid

\* AuthProvider as it mounts: the user is whoever the stored token names.
Fresh(path) == [path |-> path, user |-> stored, due |-> FALSE]

TypeOK ==
    /\ \A n \in Tokens : [role |-> issued[n].role, force |-> issued[n].force] \in Claims
    /\ Len(issued) <= MaxTokens
    /\ stored \in Tokens \cup {0}
    /\ \A t \in Tabs :
        /\ tabs[t].path \in Paths \cup {"/login", "/change-password", "leaving"}
        /\ tabs[t].user \in Tokens \cup {0} /\ tabs[t].due \in BOOLEAN
        /\ \A r \in flight[t] :
            r.token \in Tokens \cup {0} /\ r.kind \in {"any", "password"}
        /\ Cardinality(flight[t]) <= MaxFlight
    /\ overtaken \subseteq Tabs

Init ==
    /\ issued = <<>> /\ stored = 0
    /\ tabs = [t \in Tabs |-> Fresh("/login")]
    /\ flight = [t \in Tabs |-> {}]
    /\ overtaken = {}

-----------------------------------------------------------------------------
(* ProtectedRoute: where a tab ends up that asks for path.                 *)
Routed(user, path) ==
    CASE path \notin Paths -> path
      [] path \in Paths /\ user = 0 -> "/login"
      [] path \in Paths /\ user # 0 ->
            IF issued[user].force THEN "/change-password" ELSE path

(* RoleGuard, and the fallback it shows.                                   *)
Content(t) ==
    IF issued[tabs[t].user].role \in Guarded[tabs[t].path] THEN tabs[t].path ELSE "denied"

(* A URL typed, or the page loaded again.  What was under way is gone.     *)
(* /change-password is typed by nobody whose password is not due.          *)
Visit(t) ==
    /\ tabs[t].path # "leaving"
    /\ \E p \in Paths \cup {"/login"} :
        tabs' = [tabs EXCEPT ![t] = Fresh(Routed(stored, p))]
    /\ flight' = [flight EXCEPT ![t] = {}]
    /\ overtaken' = overtaken \ {t}
    /\ UNCHANGED <<issued, stored>>

\* The page the interceptor sent the tab to is loaded.
Load(t) ==
    /\ tabs[t].path = "leaving"
    /\ tabs' = [tabs EXCEPT ![t] = Fresh("/login")]
    /\ overtaken' = overtaken \ {t}
    /\ UNCHANGED <<issued, stored, flight>>

(* A link of the side bar; those of other roles are not shown.             *)
Go(t) ==
    /\ tabs[t].path \in Paths
    /\ \E p \in Paths \ {tabs[t].path} :
        /\ issued[tabs[t].user].role \in Guarded[p]
        /\ tabs' = [tabs EXCEPT ![t].path = p]
    /\ UNCHANGED <<issued, stored, flight, overtaken>>

\* Mutant: the token is stored and the user of the context left as it was.
EnteredAsBefore(t, n) ==
    [tabs EXCEPT ![t].path = IF issued'[n].force THEN "/change-password" ELSE "/"]

Entered(t, n) ==
    [tabs EXCEPT ![t].user = n,
                 ![t].path = IF issued'[n].force THEN "/change-password" ELSE "/"]

Login(t) ==
    LET n == Len(issued) + 1
    IN  /\ tabs[t].path = "/login" /\ n <= MaxTokens
        /\ \E c \in Claims :
            issued' = Append(issued, [role |-> c.role, force |-> c.force, valid |-> TRUE])
        /\ stored' = n
        /\ tabs' = Entered(t, n)
        /\ overtaken' = Tabs \ {t}
        /\ UNCHANGED flight

\* logout() and navigate('/login').  Requests under way go on.
LeftFor(t) ==
    /\ stored' = 0
    /\ UNCHANGED <<issued, flight, overtaken>>

Logout(t) ==
    /\ tabs[t].path \in Paths
    /\ LeftFor(t)
    /\ tabs' = [tabs EXCEPT ![t].user = 0, ![t].path = "/login"]

\* Two seconds after a password change, whatever the tab shows by then.
LogoutDue(t) ==
    /\ tabs[t].due
    /\ LeftFor(t)
    /\ tabs' = [tabs EXCEPT ![t] = [path |-> "/login", user |-> 0, due |-> FALSE]]

-----------------------------------------------------------------------------
(* The request interceptor: the token stored at that moment.               *)
Send(t, kind) ==
    LET r == [token |-> stored, kind |-> kind]
    IN  /\ r \notin flight[t] /\ Cardinality(flight[t]) < MaxFlight
        /\ flight' = [flight EXCEPT ![t] = @ \cup {r}]
        /\ UNCHANGED <<issued, stored, tabs, overtaken>>

Request(t) == tabs[t].path \in Paths /\ Send(t, "any")

\* The Dashboard and, for administrators, NTPIndicator ask by themselves.
Polling(t) ==
    /\ tabs[t].path \in Paths
    /\ tabs[t].path = "/" \/ issued[tabs[t].user].role \in {"superadmin", "admin"}

Poll(t) == Polling(t) /\ Request(t)

ChangePassword(t) == tabs[t].path = "/change-password" /\ Send(t, "password")

\* Mutant: a 401 with no token left to remove is not acted upon.
ExpelsHolders(t, r) == ~Valid(r.token) /\ tabs[t].path # "/login" /\ stored # 0

(* The response interceptor: which answers end the session.                *)
Expels(t, r) == ~Valid(r.token) /\ tabs[t].path # "/login"

(* It removes the token of the moment, not the one that was refused.       *)
Answer(t, r) ==
    /\ r \in flight[t]
    /\ IF Expels(t, r)
       THEN /\ stored' = 0
            /\ tabs' = [tabs EXCEPT ![t].path = "leaving", ![t].due = FALSE]
            /\ flight' = [flight EXCEPT ![t] = {}]
       ELSE /\ flight' = [flight EXCEPT ![t] = @ \ {r}]
            /\ tabs' = [tabs EXCEPT ![t].due = @ \/ (r.kind = "password" /\ Valid(r.token))]
            /\ UNCHANGED stored
    /\ UNCHANGED <<issued, overtaken>>

\* The old password was wrong, or the new one too weak: 400.
Declined(t, r) ==
    /\ r \in flight[t] /\ r.kind = "password" /\ Valid(r.token)
    /\ flight' = [flight EXCEPT ![t] = @ \ {r}]
    /\ UNCHANGED <<issued, stored, tabs, overtaken>>

(* A token expires, or its account is deleted.  One that is only disabled  *)
(* is answered with 400, which ends no session.                            *)
Revoke ==
    /\ \E n \in Tokens : Valid(n) /\ issued' = [issued EXCEPT ![n].valid = FALSE]
    /\ UNCHANGED <<stored, tabs, flight, overtaken>>

Next ==
    \/ \E t \in Tabs :
        \/ Visit(t) \/ Load(t) \/ Go(t)
        \/ Login(t) \/ Logout(t) \/ LogoutDue(t)
        \/ Request(t) \/ ChangePassword(t)
        \/ \E r \in flight[t] : Answer(t, r) \/ Declined(t, r)
    \/ Revoke

Spec == Init /\ [][Next]_vars

-----------------------------------------------------------------------------
(* A page that needs a login sends its requests as the user it shows, who
   has no password to change first, unless another tab has logged in since:
   whatever order logins, logouts, expiries, late answers and pending
   timeouts of several tabs come in. *)
CallerIsShown ==
    \A t \in Tabs \ overtaken :
        tabs[t].path \in Paths /\ stored # 0 =>
            /\ stored = tabs[t].user /\ ~issued[stored].force
            /\ Content(t) # "denied" => issued[stored].role \in Guarded[tabs[t].path]

(* A tab does not go on showing a page that polls once its session is over,
   wherever it ended: it leaves the page, or another tab has logged in. *)
EveryTabLearnsLogout ==
    \A t \in Tabs : Polling(t) /\ ~Valid(stored) ~> ~Polling(t) \/ Valid(stored)
=============================================================================
