------------------------- MODULE BrowserSessionProofs -------------------------
(***************************************************************************)
(* The user a tab shows is the user it sends its requests as, for any      *)
(* number of tabs, tokens and requests, and any routes; and, with what     *)
(* LogStreamProofs proves of the log drawer, all the safety that a run     *)
(* checks of the two together.                                             *)
(***************************************************************************)
EXTENDS MCSession, FiniteSetTheorems, TLAPS

Issued == [role : {c.role : c \in Claims}, force : {c.force : c \in Claims}, valid : BOOLEAN]
Pathnames == Paths \cup {"/", "/login", "/change-password", "leaving"}

(* The pages outside ProtectedRoute are none of the guarded ones. *)
Unguarded == {"/login", "/change-password", "leaving"} \cap Paths = {}

Typed ==
    /\ issued \in Seq(Issued)
    /\ stored \in 0 .. Len(issued)
    /\ tabs \in [Tabs -> [path : Pathnames, user : 0 .. Len(issued), due : BOOLEAN]]
    /\ overtaken \subseteq Tabs

(* A guarded page shows a user with no password to change first, whose token
   is the stored one, unless there is none or another tab has logged in. *)
Entitled(tab, s, iss, over) ==
    tab.path \in Paths =>
        /\ tab.user # 0 /\ ~iss[tab.user].force
        /\ ~over => s \in {0, tab.user}

Shown == \A t \in Tabs : Entitled(tabs[t], stored, issued, t \in overtaken)

IInv == Typed /\ Shown

-----------------------------------------------------------------------------
(* A page that is loaded takes its user from the stored token, and leaves for
   the login or the password page if that user may not see it. *)
LEMMA FreshEntitled ==
    ASSUME Unguarded, Typed, NEW p \in Paths \cup {"/login"}
    PROVE  LET tab == Fresh(Routed(stored, p)) IN
           /\ tab \in [path : Pathnames, user : 0 .. Len(issued), due : BOOLEAN]
           /\ Entitled(tab, stored, issued, FALSE)
<1>1. Routed(stored, p) \in Pathnames
  BY DEF Routed, Pathnames
<1>2. Routed(stored, p) \in Paths => stored # 0 /\ ~issued[stored].force
  BY DEF Routed, Unguarded
<1>. QED
  BY <1>1, <1>2 DEF Fresh, Entitled, Typed

(* A step that touches one tab, and of the rest only clears the token. *)
LEMMA OneTab ==
    ASSUME Typed, Shown, NEW t \in Tabs,
           NEW tab \in [path : Pathnames, user : 0 .. Len(issued), due : BOOLEAN],
           tabs' = [tabs EXCEPT ![t] = tab],
           issued' = issued, stored' \in {0, stored},
           overtaken' = overtaken \/ overtaken' = overtaken \ {t},
           Entitled(tab, stored', issued, t \in overtaken')
    PROVE  Typed' /\ Shown'
<1>1. Typed'
  BY DEF Typed
<1>2. tabs'[t] = tab /\ \A u \in Tabs \ {t} : tabs'[u] = tabs[u]
  BY DEF Typed
<1>3. ASSUME NEW u \in Tabs \ {t}
      PROVE  Entitled(tabs'[u], stored', issued', u \in overtaken')
  <2>1. Entitled(tabs[u], stored, issued, u \in overtaken)
    BY DEF Shown
  <2>2. u \in overtaken' <=> u \in overtaken
    OBVIOUS
  <2>. QED
    BY <1>2, <2>1, <2>2 DEF Entitled
<1>4. Entitled(tabs'[t], stored', issued', t \in overtaken')
  BY <1>2
<1>. QED
  BY <1>1, <1>3, <1>4 DEF Shown

-----------------------------------------------------------------------------
(* Every tab starts at the login. *)
LEMMA InitEntitled ==
    ASSUME Unguarded, Init
    PROVE  IInv
<1>1. Typed
  BY DEF Init, Typed, Fresh, Pathnames
<1>2. \A t \in Tabs : tabs[t].path = "/login"
  BY DEF Init, Fresh
<1>3. Shown
  BY <1>2 DEF Shown, Entitled, Unguarded
<1>. QED
  BY <1>1, <1>3 DEF IInv

(* A login puts its tab on the stored token, and all others behind. *)
LEMMA LoginEntitled ==
    ASSUME Unguarded, IInv, NEW t \in Tabs, Login(t)
    PROVE  IInv'
<1>. DEFINE n == Len(issued) + 1
<1>1. PICK c \in Claims :
          issued' = Append(issued, [role |-> c.role, force |-> c.force, valid |-> TRUE])
  BY DEF Login
<1>2. /\ issued' \in Seq(Issued) /\ Len(issued') = n
      /\ \A i \in 1 .. Len(issued) : issued'[i] = issued[i]
      /\ Len(issued) \in Nat
  BY <1>1 DEF IInv, Typed, Issued
<1>3. /\ stored' = n /\ overtaken' = Tabs \ {t}
      /\ tabs' = [tabs EXCEPT ![t].user = n,
                              ![t].path = IF issued'[n].force THEN "/change-password" ELSE "/"]
  BY DEF Login, Entered
<1>4. /\ tabs'[t].user = n
      /\ tabs'[t].path = IF issued'[n].force THEN "/change-password" ELSE "/"
      /\ \A u \in Tabs \ {t} : tabs'[u] = tabs[u]
  BY <1>3 DEF IInv, Typed
<1>5. Typed'
  <2>1. stored' \in 0 .. Len(issued')
    BY <1>2, <1>3
  <2>2. tabs' \in [Tabs -> [path : Pathnames, user : 0 .. Len(issued'), due : BOOLEAN]]
    <3>1. tabs[t] \in [path : Pathnames, user : 0 .. Len(issued'), due : BOOLEAN]
      BY <1>2 DEF IInv, Typed
    <3>2. tabs \in [Tabs -> [path : Pathnames, user : 0 .. Len(issued'), due : BOOLEAN]]
      BY <1>2 DEF IInv, Typed
    <3>. DEFINE q == IF issued'[n].force THEN "/change-password" ELSE "/"
    <3>3. q \in Pathnames /\ n \in 0 .. Len(issued')
      BY <1>2 DEF Pathnames
    <3>. HIDE DEF q
    <3>4. [tabs[t] EXCEPT !.user = n, !.path = q]
              \in [path : Pathnames, user : 0 .. Len(issued'), due : BOOLEAN]
      BY <3>1, <3>3
    <3>5. tabs' = [tabs EXCEPT ![t] = [tabs[t] EXCEPT !.user = n, !.path = q]]
      BY <1>3 DEF q
    <3>. QED
      BY <3>2, <3>4, <3>5
  <2>. QED
    BY <1>2, <1>3, <2>1, <2>2 DEF Typed
<1>6. Entitled(tabs'[t], stored', issued', t \in overtaken')
  <2>1. tabs'[t].path \in Paths => ~issued'[n].force
    BY <1>4 DEF Unguarded
  <2>. QED
    BY <1>2, <1>3, <1>4, <2>1 DEF Entitled
<1>7. ASSUME NEW u \in Tabs \ {t}
      PROVE  Entitled(tabs'[u], stored', issued', u \in overtaken')
  <2>1. Entitled(tabs[u], stored, issued, u \in overtaken)
    BY DEF IInv, Shown
  <2>2. tabs[u].user \in 0 .. Len(issued) /\ u \in overtaken'
    BY <1>3 DEF IInv, Typed
  <2>. QED
    BY <1>2, <1>4, <2>1, <2>2 DEF Entitled
<1>. QED
  BY <1>5, <1>6, <1>7 DEF IInv, Shown

(* A token that expires says the same as before. *)
LEMMA RevokeEntitled ==
    ASSUME IInv, Revoke
    PROVE  IInv'
<1>1. PICK n \in Tokens : issued' = [issued EXCEPT ![n].valid = FALSE]
  BY DEF Revoke
<1>2. UNCHANGED <<stored, tabs, overtaken>>
  BY DEF Revoke
<1>3. /\ issued' \in Seq(Issued) /\ Len(issued') = Len(issued)
      /\ \A i \in 1 .. Len(issued) : issued'[i].force = issued[i].force
  <2>1. issued[n] \in Issued
    BY DEF IInv, Typed, Tokens
  <2>2. [issued[n] EXCEPT !.valid = FALSE] \in Issued
        /\ [issued[n] EXCEPT !.valid = FALSE].force = issued[n].force
    BY <2>1 DEF Issued
  <2>. QED
    BY <1>1, <2>2 DEF IInv, Typed, Tokens
<1>4. Typed'
  BY <1>2, <1>3 DEF IInv, Typed
<1>5. ASSUME NEW t \in Tabs
      PROVE  Entitled(tabs'[t], stored', issued', t \in overtaken')
  <2>1. Entitled(tabs[t], stored, issued, t \in overtaken)
    BY DEF IInv, Shown
  <2>2. tabs[t].user \in 0 .. Len(issued) /\ Len(issued) \in Nat
    BY DEF IInv, Typed
  <2>. QED
    BY <1>2, <1>3, <2>1, <2>2 DEF Entitled
<1>. QED
  BY <1>4, <1>5 DEF IInv, Shown

(* Every step of every tab, late answers and timeouts included, keeps a
   guarded page with the user it is entitled to. *)
LEMMA StepEntitled ==
    ASSUME Unguarded, IInv, [Next]_vars
    PROVE  IInv'
<1>. USE DEF IInv
<1>a. ASSUME NEW t \in Tabs
      PROVE  /\ tabs[t] \in [path : Pathnames, user : 0 .. Len(issued), due : BOOLEAN]
             /\ Entitled(tabs[t], stored, issued, t \in overtaken)
  BY DEF Typed, Shown
<1>b. ASSUME UNCHANGED <<issued, stored, tabs, overtaken>> PROVE IInv'
  BY <1>b DEF Typed, Shown
<1>1. ASSUME NEW t \in Tabs, Visit(t) PROVE IInv'
  <2>1. PICK p \in Paths \cup {"/login"} :
            tabs' = [tabs EXCEPT ![t] = Fresh(Routed(stored, p))]
    BY <1>1 DEF Visit
  <2>2. issued' = issued /\ stored' = stored /\ overtaken' = overtaken \ {t}
    BY <1>1 DEF Visit
  <2>. DEFINE tab == Fresh(Routed(stored, p))
  <2>3. tab \in [path : Pathnames, user : 0 .. Len(issued), due : BOOLEAN]
        /\ Entitled(tab, stored, issued, FALSE)
    BY FreshEntitled
  <2>4. Entitled(tab, stored', issued, t \in overtaken')
    BY <2>2, <2>3 DEF Entitled
  <2>. QED
    BY <2>1, <2>2, <2>3, <2>4, OneTab
<1>2. ASSUME NEW t \in Tabs, Load(t) PROVE IInv'
  <2>1. tabs' = [tabs EXCEPT ![t] = Fresh("/login")]
    BY <1>2 DEF Load
  <2>2. issued' = issued /\ stored' = stored /\ overtaken' = overtaken \ {t}
    BY <1>2 DEF Load
  <2>3. Fresh("/login") \in [path : Pathnames, user : 0 .. Len(issued), due : BOOLEAN]
        /\ Entitled(Fresh("/login"), stored', issued, t \in overtaken')
    BY <2>2 DEF Fresh, Typed, Pathnames, Entitled, Unguarded
  <2>. QED
    BY <2>1, <2>2, <2>3, OneTab
<1>3. ASSUME NEW t \in Tabs, Go(t) PROVE IInv'
  <2>1. PICK p \in Paths : tabs' = [tabs EXCEPT ![t].path = p] /\ tabs[t].path \in Paths
    BY <1>3 DEF Go
  <2>2. UNCHANGED <<issued, stored, overtaken>>
    BY <1>3 DEF Go
  <2>3. tabs' = [tabs EXCEPT ![t] = [tabs[t] EXCEPT !.path = p]]
    BY <2>1
  <2>4. [tabs[t] EXCEPT !.path = p] \in [path : Pathnames, user : 0 .. Len(issued), due : BOOLEAN]
        /\ Entitled([tabs[t] EXCEPT !.path = p], stored', issued, t \in overtaken')
    BY <1>a, <2>1, <2>2 DEF Pathnames, Entitled
  <2>. QED
    BY <2>2, <2>3, <2>4, OneTab
<1>4. ASSUME NEW t \in Tabs, Login(t) PROVE IInv'
  BY <1>4, LoginEntitled
<1>5. ASSUME NEW t \in Tabs, Logout(t) PROVE IInv'
  <2>1. stored' = 0 /\ UNCHANGED <<issued, overtaken>>
    BY <1>5 DEF Logout, LeftFor
  <2>2. tabs' = [tabs EXCEPT ![t] = [tabs[t] EXCEPT !.user = 0, !.path = "/login"]]
    BY <1>5 DEF Logout
  <2>. DEFINE out == [tabs[t] EXCEPT !.user = 0, !.path = "/login"]
  <2>3. out \in [path : Pathnames, user : 0 .. Len(issued), due : BOOLEAN]
    <3>1. 0 \in 0 .. Len(issued) /\ "/login" \in Pathnames
      BY DEF Pathnames, Typed
    <3>. QED
      BY <1>a, <3>1
  <2>4. out.path = "/login"
    BY <1>a
  <2>5. Entitled(out, stored', issued, t \in overtaken')
    BY <2>4 DEF Entitled, Unguarded
  <2>. QED
    BY <2>1, <2>2, <2>3, <2>5, OneTab
<1>6. ASSUME NEW t \in Tabs, LogoutDue(t) PROVE IInv'
  <2>. DEFINE out == [path |-> "/login", user |-> 0, due |-> FALSE]
  <2>1. stored' = 0 /\ UNCHANGED <<issued, overtaken>> /\ tabs' = [tabs EXCEPT ![t] = out]
    BY <1>6 DEF LogoutDue, LeftFor
  <2>2. out \in [path : Pathnames, user : 0 .. Len(issued), due : BOOLEAN]
        /\ Entitled(out, stored', issued, t \in overtaken')
    BY DEF Pathnames, Entitled, Unguarded, Typed
  <2>. QED
    BY <2>1, <2>2, OneTab
<1>7. ASSUME NEW t \in Tabs, Request(t) \/ ChangePassword(t) PROVE IInv'
  BY <1>7, <1>b DEF Request, ChangePassword, Send
<1>8. ASSUME NEW t \in Tabs, NEW r \in flight[t], Answer(t, r) PROVE IInv'
  <2>1. CASE Expels(t, r)
    <3>. DEFINE gone == [tabs[t] EXCEPT !.path = "leaving", !.due = FALSE]
    <3>1. stored' = 0 /\ UNCHANGED <<issued, overtaken>> /\ tabs' = [tabs EXCEPT ![t] = gone]
      BY <1>8, <2>1 DEF Answer
    <3>2. gone \in [path : Pathnames, user : 0 .. Len(issued), due : BOOLEAN]
          /\ Entitled(gone, stored', issued, t \in overtaken')
      BY <1>a DEF Pathnames, Entitled, Unguarded
    <3>. QED
      BY <3>1, <3>2, OneTab
  <2>2. CASE ~Expels(t, r)
    <3>1. PICK d \in BOOLEAN : tabs' = [tabs EXCEPT ![t].due = d]
      BY <1>8, <2>2 DEF Answer, Typed
    <3>. DEFINE same == [tabs[t] EXCEPT !.due = d]
    <3>2. UNCHANGED <<issued, stored, overtaken>> /\ tabs' = [tabs EXCEPT ![t] = same]
      BY <1>8, <2>2, <3>1 DEF Answer
    <3>3. same \in [path : Pathnames, user : 0 .. Len(issued), due : BOOLEAN]
          /\ Entitled(same, stored', issued, t \in overtaken')
      BY <1>a, <3>2 DEF Entitled
    <3>. QED
      BY <3>2, <3>3, OneTab
  <2>. QED
    BY <2>1, <2>2
<1>9. ASSUME NEW t \in Tabs, NEW r \in flight[t], Declined(t, r) PROVE IInv'
  BY <1>9, <1>b DEF Declined
<1>10. CASE Revoke
  BY <1>10, RevokeEntitled
<1>11. CASE UNCHANGED vars
  BY <1>11, <1>b DEF vars
<1>. QED
  BY <1>1, <1>2, <1>3, <1>4, <1>5, <1>6, <1>7, <1>8, <1>9, <1>10, <1>11 DEF Next

(* Whatever order the logins, logouts, expiries, late answers and pending
   timeouts of any number of tabs come in, a guarded page sends its requests
   as the user it shows, unless another tab has logged in since. *)
THEOREM RequestsSentAsShown ==
    ASSUME Unguarded
    PROVE  Spec => []CallerIsShown
<1>1. Init => IInv
  BY InitEntitled
<1>2. IInv /\ [Next]_vars => IInv'
  BY StepEntitled
<1>3. IInv => CallerIsShown
  BY DEF IInv, Shown, Entitled, CallerIsShown, Content
<1>. QED
  BY <1>1, <1>2, <1>3, PTL DEF Spec

-----------------------------------------------------------------------------
(* The types, and the limits of what is issued and under way. *)

SessionConstants ==
    /\ MaxTokens \in Nat /\ MaxFlight \in Nat
    /\ "/" \in Paths
    /\ \A c \in Claims : c = [role |-> c.role, force |-> c.force]

ClaimOf(token) == [role |-> token.role, force |-> token.force]

(* The unanswered requests of one tab, when so many tokens were issued. *)
Waiting(requests, tokens) ==
    /\ requests \subseteq [token : 0 .. tokens, kind : {"any", "password"}]
    /\ IsFiniteSet(requests) /\ Cardinality(requests) <= MaxFlight

Sized ==
    /\ Len(issued) <= MaxTokens
    /\ \A n \in Tokens : ClaimOf(issued[n]) \in Claims
    /\ flight = [t \in Tabs |-> flight[t]]
    /\ \A t \in Tabs : Waiting(flight[t], Len(issued))

LEMMA NoneWaiting ==
    ASSUME MaxFlight \in Nat, NEW n
    PROVE  Waiting({}, n)
BY FS_EmptySet DEF Waiting

LEMMA OneAnswered ==
    ASSUME NEW f, NEW n, Waiting(f, n), MaxFlight \in Nat, NEW r
    PROVE  Waiting(f \ {r}, n)
<1>1. IsFiniteSet(f \ {r}) /\ Cardinality(f \ {r}) <= Cardinality(f)
      /\ Cardinality(f \ {r}) \in Nat /\ Cardinality(f) \in Nat
  BY FS_Subset, FS_CardinalityType DEF Waiting
<1>. QED
  BY <1>1 DEF Waiting

LEMMA OneSent ==
    ASSUME NEW f, NEW n, Waiting(f, n), MaxFlight \in Nat, Cardinality(f) < MaxFlight,
           NEW r \in [token : 0 .. n, kind : {"any", "password"}], r \notin f
    PROVE  Waiting(f \cup {r}, n)
<1>1. IsFiniteSet(f \cup {r}) /\ Cardinality(f \cup {r}) = Cardinality(f) + 1
      /\ Cardinality(f) \in Nat
  BY FS_AddElement, FS_CardinalityType DEF Waiting
<1>. QED
  BY <1>1 DEF Waiting

(* A step that issues no token and changes what one tab waits for. *)
LEMMA OneTabWaits ==
    ASSUME Sized, NEW t \in Tabs, NEW f, Waiting(f, Len(issued)),
           flight' = [flight EXCEPT ![t] = f], issued' = issued
    PROVE  Sized'
<1>1. flight'[t] = f /\ \A u \in Tabs \ {t} : flight'[u] = flight[u]
  BY DEF Sized
<1>2. \A u \in Tabs : Waiting(flight'[u], Len(issued'))
  BY <1>1 DEF Sized
<1>. QED
  BY <1>1, <1>2 DEF Sized, Tokens, Waiting

LEMMA StepSized ==
    ASSUME SessionConstants, Typed, Sized, [Next]_vars
    PROVE  Sized'
<1>a. ASSUME UNCHANGED <<issued, flight>> PROVE Sized'
  BY <1>a DEF Sized, Tokens, Waiting
<1>1. ASSUME NEW t \in Tabs, Visit(t) PROVE Sized'
  BY <1>1, OneTabWaits, NoneWaiting DEF Visit, SessionConstants
<1>2. ASSUME NEW t \in Tabs,
             Load(t) \/ Go(t) \/ Logout(t) \/ LogoutDue(t)
      PROVE  Sized'
  BY <1>2, <1>a DEF Load, Go, Logout, LogoutDue, LeftFor
<1>3. ASSUME NEW t \in Tabs, Login(t) PROVE Sized'
  <2>1. PICK c \in Claims :
            issued' = Append(issued, [role |-> c.role, force |-> c.force, valid |-> TRUE])
    BY <1>3 DEF Login
  <2>2. flight' = flight /\ Len(issued) + 1 <= MaxTokens
    BY <1>3 DEF Login
  <2>3. /\ Len(issued') = Len(issued) + 1 /\ Len(issued) \in Nat
        /\ \A n \in 1 .. Len(issued) : issued'[n] = issued[n]
        /\ issued'[Len(issued')] = [role |-> c.role, force |-> c.force, valid |-> TRUE]
    BY <2>1 DEF Typed
  <2>4. ClaimOf(issued'[Len(issued')]) \in Claims
    BY <2>3 DEF SessionConstants, ClaimOf
  <2>5. \A n \in 1 .. Len(issued') : ClaimOf(issued'[n]) \in Claims
    BY <2>3, <2>4 DEF Sized, Tokens
  <2>6. \A u \in Tabs : Waiting(flight'[u], Len(issued'))
    <3>1. 0 .. Len(issued) \subseteq 0 .. Len(issued')
      BY <2>3
    <3>. QED
      BY <2>2, <3>1 DEF Sized, Waiting
  <2>7. Len(issued') <= MaxTokens
    BY <2>2, <2>3
  <2>. QED
    BY <2>2, <2>5, <2>6, <2>7 DEF Sized, Tokens, Waiting
<1>4. ASSUME NEW t \in Tabs, Request(t) \/ ChangePassword(t) PROVE Sized'
  <2>1. PICK r \in [token : {stored}, kind : {"any", "password"}] :
            /\ r \notin flight[t] /\ Cardinality(flight[t]) < MaxFlight
            /\ flight' = [flight EXCEPT ![t] = flight[t] \cup {r}]
            /\ issued' = issued
    BY <1>4 DEF Request, ChangePassword, Send
  <2>2. r \in [token : 0 .. Len(issued), kind : {"any", "password"}]
    BY DEF Typed
  <2>3. Waiting(flight[t], Len(issued))
    BY DEF Sized
  <2>4. Waiting(flight[t] \cup {r}, Len(issued))
    BY <2>1, <2>2, <2>3, OneSent DEF SessionConstants
  <2>. QED
    BY <2>1, <2>4, OneTabWaits
<1>5. ASSUME NEW t \in Tabs, NEW r \in flight[t], Answer(t, r) \/ Declined(t, r)
      PROVE  Sized'
  <2>1. PICK f \in {{}, flight[t] \ {r}} :
            flight' = [flight EXCEPT ![t] = f] /\ issued' = issued
    BY <1>5 DEF Answer, Declined
  <2>2. Waiting(flight[t], Len(issued))
    BY DEF Sized
  <2>3. MaxFlight \in Nat
    BY DEF SessionConstants
  <2>4. Waiting({}, Len(issued))
    BY <2>3, NoneWaiting
  <2>5. Waiting(flight[t] \ {r}, Len(issued))
    BY <2>2, <2>3, OneAnswered
  <2>6. Waiting(f, Len(issued))
    BY <2>4, <2>5
  <2>. QED
    BY <2>1, <2>6, OneTabWaits
<1>6. CASE Revoke
  <2>1. PICK n \in Tokens : issued' = [issued EXCEPT ![n].valid = FALSE]
    BY <1>6 DEF Revoke
  <2>2. flight' = flight
    BY <1>6 DEF Revoke
  <2>3. Len(issued') = Len(issued) /\ Len(issued) \in Nat
    BY <2>1 DEF Typed
  <2>4. \A m \in 1 .. Len(issued) : ClaimOf(issued'[m]) = ClaimOf(issued[m])
    <3>1. \A m \in 1 .. Len(issued) : issued[m] \in Issued
      BY DEF Typed
    <3>2. issued' = [issued EXCEPT ![n] = [issued[n] EXCEPT !.valid = FALSE]]
      BY <2>1
    <3>. QED
      BY <2>1, <3>1, <3>2 DEF Typed, Issued, ClaimOf, Tokens
  <2>. QED
    BY <2>2, <2>3, <2>4 DEF Sized, Tokens, Waiting
<1>7. CASE UNCHANGED vars
  BY <1>7, <1>a DEF vars
<1>. QED
  BY <1>1, <1>2, <1>3, <1>4, <1>5, <1>6, <1>7 DEF Next

LEMMA InitSized ==
    ASSUME SessionConstants, Init
    PROVE  Sized
<1>1. \A t \in Tabs : flight[t] = {}
  BY DEF Init
<1>2. Tokens = {} /\ Len(issued) = 0
  BY DEF Init, Tokens
<1>. QED
  BY <1>1, <1>2, NoneWaiting DEF Init, Sized, SessionConstants

LEMMA SizedImplies ==
    ASSUME SessionConstants, Typed, Sized
    PROVE  TypeOK
<1>1. Len(issued) \in Nat /\ 0 .. Len(issued) = Tokens \cup {0}
  BY DEF Typed, Tokens
<1>2. \A n \in Tokens : [role |-> issued[n].role, force |-> issued[n].force] \in Claims
  BY DEF Sized, ClaimOf
<1>3. Pathnames = Paths \cup {"/login", "/change-password", "leaving"}
  BY DEF Pathnames, SessionConstants
<1>4. \A t \in Tabs :
        /\ tabs[t].path \in Pathnames
        /\ tabs[t].user \in Tokens \cup {0} /\ tabs[t].due \in BOOLEAN
  BY <1>1 DEF Typed
<1>5. \A t \in Tabs :
        /\ \A r \in flight[t] :
            r.token \in Tokens \cup {0} /\ r.kind \in {"any", "password"}
        /\ Cardinality(flight[t]) <= MaxFlight
  BY <1>1 DEF Sized, Waiting
<1>. QED
  BY <1>1, <1>2, <1>3, <1>4, <1>5 DEF TypeOK, Typed, Sized

-----------------------------------------------------------------------------
(* The log drawer of the session is the one LogStreamProofs is about. *)
Proved == INSTANCE LogStreamProofs

LEMMA SameStream ==
    /\ Stream!Init <=> Proved!Init
    /\ Stream!Next <=> Proved!Next
    /\ Stream!ReconnectsOncePerOpening <=> Proved!ReconnectsOncePerOpening
    /\ Stream!TypeOK <=> Proved!TypeOK
<1>1. Stream!Connect <=> Proved!Connect
  BY DEF Stream!Connect, Proved!Connect, Stream!CurrentClosed, Proved!CurrentClosed,
         Stream!Slots, Proved!Slots, Stream!Alive, Proved!Alive, Stream!None,
         Proved!None
<1>2. Stream!Open <=> Proved!Open
  BY <1>1 DEF Stream!Open, Proved!Open
<1>3. Stream!TimerFires <=> Proved!TimerFires
  BY <1>1 DEF Stream!TimerFires, Proved!TimerFires
<1>4. Stream!StrayFires <=> Proved!StrayFires
  BY <1>1 DEF Stream!StrayFires, Proved!StrayFires
<1>5. (Stream!Close <=> Proved!Close) /\ (Stream!Unmount <=> Proved!Unmount)
  BY DEF Stream!Close, Proved!Close, Stream!Unmount, Proved!Unmount,
         Stream!CurrentClosed, Proved!CurrentClosed, Stream!Slots, Proved!Slots
<1>6. Stream!TokenChanges <=> Proved!TokenChanges
  BY DEF Stream!TokenChanges, Proved!TokenChanges
<1>7. \A s : Stream!Handshake(s) <=> Proved!Handshake(s)
  BY DEF Stream!Handshake, Proved!Handshake, Stream!Becomes, Proved!Becomes
<1>8. \A s : Stream!Accept(s) <=> Proved!Accept(s)
  BY DEF Stream!Accept, Proved!Accept, Stream!Becomes, Proved!Becomes
<1>9. \A s : Stream!Reject(s) <=> Proved!Reject(s)
  BY DEF Stream!Reject, Proved!Reject, Stream!Becomes, Proved!Becomes
<1>10. \A s : Stream!ServerError(s) <=> Proved!ServerError(s)
  BY DEF Stream!ServerError, Proved!ServerError, Stream!Becomes, Proved!Becomes
<1>11. \A s : Stream!ClosedForAuthentication(s) <=> Proved!ClosedForAuthentication(s)
  BY DEF Stream!ClosedForAuthentication, Proved!ClosedForAuthentication,
         Stream!OnClose, Proved!OnClose, Stream!None, Proved!None, Stream!Scheduled,
         Proved!Scheduled
<1>12. \A s : Stream!ClosedOtherwise(s) <=> Proved!ClosedOtherwise(s)
  BY DEF Stream!ClosedOtherwise, Proved!ClosedOtherwise, Stream!OnClose,
         Proved!OnClose, Stream!None, Proved!None, Stream!Scheduled,
         Proved!Scheduled
<1>13. Stream!Next <=> Proved!Next
  BY <1>1, <1>2, <1>3, <1>4, <1>5, <1>6, <1>7, <1>8, <1>9, <1>10, <1>11, <1>12
  DEF Stream!Next, Proved!Next, Stream!Slots, Proved!Slots
<1>14. Stream!Init <=> Proved!Init
  BY DEF Stream!Init, Proved!Init, Stream!Slots, Proved!Slots, Stream!None, Proved!None
<1>15. Stream!TypeOK <=> Proved!TypeOK
  BY DEF Stream!TypeOK, Proved!TypeOK, Stream!Slots, Proved!Slots, Stream!Alive,
         Proved!Alive, Stream!GivenUp, Proved!GivenUp
<1>16. Stream!Alive = Proved!Alive
  BY DEF Stream!Alive, Proved!Alive, Stream!Slots, Proved!Slots
<1>17. Stream!ReconnectsOncePerOpening <=> Proved!ReconnectsOncePerOpening
  BY <1>16 DEF Stream!ReconnectsOncePerOpening, Proved!ReconnectsOncePerOpening,
               Stream!Cardinality, Proved!Cardinality
<1>. QED
  BY <1>13, <1>14, <1>15, <1>17

(* A step of the browser is one of the session or of the drawer, and leaves
   the other alone. *)
LEMMA BrowserStep ==
    ASSUME [BothNext]_bothVars
    PROVE  [Next]_vars /\ [Stream!Next]_Stream!vars
BY DEF BothNext, InSession, InStream, bothVars, vars, streamVars, Stream!vars

(* The drawer of the session keeps its bound. *)
LEMMA DrawerBounded ==
    ASSUME MaxOpens \in Nat
    PROVE  Stream!Spec => [](Stream!TypeOK /\ Stream!ReconnectsOncePerOpening)
<1>1. Stream!Spec => Proved!Spec
  <2>1. [Stream!Next]_Stream!vars => [Proved!Next]_Proved!vars
    BY SameStream DEF Stream!vars, Proved!vars
  <2>2. Stream!Init => Proved!Init
    BY SameStream
  <2>. QED
    BY <2>1, <2>2, PTL DEF Stream!Spec, Proved!Spec
<1>2. Proved!TypeOK /\ Proved!ReconnectsOncePerOpening
          => Stream!TypeOK /\ Stream!ReconnectsOncePerOpening
  BY SameStream
<1>. QED
  BY <1>1, <1>2, Proved!ReconnectionsBounded, PTL

(* The two parts side by side. *)
LEMMA BothParts == BothSpec => Spec /\ Stream!Spec
<1>1. BothInit => Init /\ Stream!Init
  BY DEF BothInit
<1>. QED
  BY <1>1, BrowserStep, PTL DEF BothSpec, Spec, Stream!Spec

(* THE SESSION IS WELL TYPED.  In every tab: who is shown, the token stored, the
   requests under way and the sockets of the drawer are what the hooks take them
   for, and no more tokens and requests exist than the bounds allow. *)
THEOREM SessionTypeCorrect ==
    ASSUME SessionConstants, Unguarded, MaxOpens \in Nat
    PROVE  BothSpec => []SessionTypeOK
<1>1. Init => IInv /\ Sized
  BY InitEntitled, InitSized
<1>2. IInv /\ Sized /\ [Next]_vars => IInv' /\ Sized'
  BY StepEntitled, StepSized DEF IInv
<1>3. IInv /\ Sized => TypeOK
  BY SizedImplies DEF IInv
<1>4. Spec => []TypeOK
  BY <1>1, <1>2, <1>3, PTL DEF Spec
<1>. QED
  BY <1>4, BothParts, DrawerBounded, PTL DEF SessionTypeOK

(* THE SESSION AND THE DRAWER, as the run checks them together: types, who
   requests are sent as, and how many sockets a drawer has. *)
THEOREM SessionKeepsItsWord ==
    ASSUME SessionConstants, Unguarded, MaxOpens \in Nat
    PROVE  BothSpec => [](SessionTypeOK /\ CallerIsShown /\ ReconnectsOncePerOpening)
BY SessionTypeCorrect, BothParts, RequestsSentAsShown, DrawerBounded, PTL
DEF ReconnectsOncePerOpening
=============================================================================
