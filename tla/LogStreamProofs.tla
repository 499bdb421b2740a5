---------------------------- MODULE LogStreamProofs ----------------------------
(***************************************************************************)
(* The live log drawer never has more sockets and pending timeouts than    *)
(* it was opened, for any number of openings and any tokens.               *)
(***************************************************************************)
EXTENDS LogStream, FiniteSetTheorems, TLAPS

States == {"none", "connecting", "open", "streaming", "closing", "refused", "ended"}

Sockets == [Slots -> [state : States, token : Jwts \cup {NULL}]]

(* The timeout reconnectTimer names, as a number. *)
Pending == IF timer THEN 1 ELSE 0

(* Types of what the bound does not count. *)
Flags ==
    /\ jwt \in Jwts \cup {NULL}
    /\ drawer \in {"closed", "open", "gone"}
    /\ timer \in BOOLEAN /\ connected \in BOOLEAN
    /\ error \in GivenUp \cup {NULL, "server"}

(* Every socket not closed yet was given a token, and wsRef names one. *)
Named ==
    /\ sockets \in Sockets
    /\ \A s \in Slots : sockets[s].token = NULL <=> sockets[s].state = "none"
    /\ current \in Alive \cup {0}

(* The bound, which alone keeps strays in its range. *)
Counted ==
    /\ strays \in Nat /\ opens \in 0 .. MaxOpens
    /\ Cardinality(Alive) + strays + Pending <= opens

IInv == Flags /\ Named /\ Counted

-----------------------------------------------------------------------------
(* The set the bound counts is finite in every state. *)
LEMMA AliveFinite ==
    ASSUME MaxOpens \in Nat
    PROVE  IsFiniteSet(Alive) /\ Cardinality(Alive) \in Nat
<1>1. IsFiniteSet(Slots)
  BY FS_Interval DEF Slots
<1>2. Alive \in SUBSET Slots
  BY DEF Alive
<1>. QED
  BY <1>1, <1>2, FS_Subset, FS_CardinalityType

(* close() on a socket takes none away: onclose has still to run. *)
LEMMA ClosingKeepsAlive ==
    ASSUME sockets \in Sockets
    PROVE  /\ CurrentClosed \in Sockets
           /\ \A s \in Slots : CurrentClosed[s].state = "none" <=> sockets[s].state = "none"
           /\ \A s \in Slots : CurrentClosed[s].token = sockets[s].token
BY DEF Sockets, States, CurrentClosed

(* connectWs adds one socket at most, and leaves sockets well typed. *)
LEMMA ConnectAddsOne ==
    ASSUME MaxOpens \in Nat, jwt \in Jwts \cup {NULL}, Named, Connect
    PROVE  /\ sockets' \in Sockets
           /\ \A s \in Slots : sockets'[s].token = NULL <=> sockets'[s].state = "none"
           /\ current' \in Alive' \cup {0}
           /\ Cardinality(Alive') <= Cardinality(Alive) + 1
<1>. USE DEF Named
<1>1. CASE jwt = NULL
  <2>1. sockets' = CurrentClosed /\ current' = current
    BY <1>1 DEF Connect
  <2>2. Alive' = Alive
    BY <2>1, ClosingKeepsAlive DEF Alive
  <2>3. Cardinality(Alive') <= Cardinality(Alive) + 1
    BY <2>2, AliveFinite
  <2>4. current' \in Alive' \cup {0}
    BY <2>1, <2>2
  <2>. QED
    BY <2>1, <2>3, <2>4, ClosingKeepsAlive
<1>2. CASE jwt # NULL
  <2>1. PICK s \in Slots \ Alive :
            /\ sockets' = [CurrentClosed EXCEPT ![s] = [state |-> "connecting", token |-> jwt]]
            /\ current' = s
    BY <1>2 DEF Connect
  <2>2. [state |-> "connecting", token |-> jwt] \in [state : States, token : Jwts \cup {NULL}]
    BY DEF States
  <2>3. sockets' \in Sockets
    BY <2>1, <2>2, ClosingKeepsAlive DEF Sockets
  <2>4. sockets'[s] = [state |-> "connecting", token |-> jwt]
    BY <2>1, ClosingKeepsAlive DEF Sockets
  <2>5. \A r \in Slots \ {s} : sockets'[r] = CurrentClosed[r]
    BY <2>1, ClosingKeepsAlive DEF Sockets
  <2>6. Alive' = Alive \cup {s}
    BY <2>1, <2>4, <2>5, ClosingKeepsAlive DEF Alive
  <2>7. Cardinality(Alive') <= Cardinality(Alive) + 1
    <3>1. IsFiniteSet(Alive) /\ Cardinality(Alive) \in Nat
      BY AliveFinite
    <3>2. Cardinality(Alive \cup {s}) = Cardinality(Alive) + 1
      BY <3>1, FS_AddElement
    <3>. QED
      BY <2>6, <3>1, <3>2
  <2>8. \A r \in Slots : sockets'[r].token = NULL <=> sockets'[r].state = "none"
    BY <1>2, <2>4, <2>5, ClosingKeepsAlive
  <2>9. current' \in Alive' \cup {0}
    BY <2>1, <2>6
  <2>. QED
    BY <2>3, <2>7, <2>8, <2>9
<1>. QED
  BY <1>1, <1>2

(* onclose takes one away. *)
LEMMA CloseTakesOne ==
    ASSUME MaxOpens \in Nat, Named, NEW s \in Slots, s \in Alive, OnClose(s)
    PROVE  /\ sockets' \in Sockets
           /\ \A r \in Slots : sockets'[r].token = NULL <=> sockets'[r].state = "none"
           /\ Cardinality(Alive') = Cardinality(Alive) - 1
<1>. USE DEF Named
<1>1. sockets' = [sockets EXCEPT ![s] = None]
  BY DEF OnClose
<1>2. sockets' \in Sockets
  BY <1>1 DEF Sockets, States, None
<1>3. Alive' = Alive \ {s}
  BY <1>1 DEF Alive, Sockets, None
<1>4. Cardinality(Alive') = Cardinality(Alive) - 1
  <2>1. Cardinality(Alive \ {s}) = Cardinality(Alive) - 1
    BY FS_RemoveElement, AliveFinite
  <2>. QED
    BY <1>3, <2>1
<1>. QED
  BY <1>1, <1>2, <1>4 DEF Sockets, None

(* A step that moves a socket on from one state to another. *)
LEMMA BecomesKeepsAlive ==
    ASSUME MaxOpens \in Nat, Named, NEW s \in Slots, s \in Alive,
           NEW x \in States \ {"none"}, Becomes(s, x)
    PROVE  /\ sockets' \in Sockets
           /\ \A r \in Slots : sockets'[r].token = NULL <=> sockets'[r].state = "none"
           /\ Alive' = Alive
<1>. USE DEF Named
<1>1. sockets' = [sockets EXCEPT ![s] = [sockets[s] EXCEPT !.state = x]]
  BY DEF Becomes
<1>2. sockets[s] \in [state : States, token : Jwts \cup {NULL}]
  BY DEF Sockets
<1>3. sockets'[s].state = x /\ sockets'[s].token = sockets[s].token
  BY <1>1, <1>2 DEF Sockets
<1>4. \A r \in Slots \ {s} : sockets'[r] = sockets[r]
  BY <1>1 DEF Sockets
<1>5. sockets' \in Sockets
  BY <1>1, <1>2 DEF Sockets
<1>6. \A r \in Slots : sockets'[r].state = "none" <=> sockets[r].state = "none"
  BY <1>3, <1>4 DEF Alive
<1>7. \A r \in Slots : sockets'[r].token = sockets[r].token
  BY <1>3, <1>4
<1>. QED
  BY <1>5, <1>6, <1>7 DEF Alive

-----------------------------------------------------------------------------
(* What a pending timeout adds to the count. *)
LEMMA PendingValue ==
    /\ timer = TRUE => Pending = 1
    /\ timer = FALSE => Pending = 0
    /\ Pending \in {0, 1}
BY DEF Pending

(* The drawer starts closed, with no socket. *)
LEMMA InitBounded ==
    ASSUME MaxOpens \in Nat, Init
    PROVE  IInv
<1>1. Flags
  BY DEF Init, Flags
<1>2. \A s \in Slots : sockets[s] = None
  BY DEF Init
<1>3. Alive = {}
  BY <1>2 DEF Alive, None
<1>4. Named
  <2>1. sockets \in Sockets
    BY DEF Init, Sockets, States, None
  <2>. QED
    BY <1>2, <2>1 DEF Init, Named, None
<1>5. Counted
  <2>1. Cardinality(Alive) = 0
    BY <1>3, FS_EmptySet
  <2>2. Pending = 0
    BY PendingValue DEF Init
  <2>3. strays = 0 /\ opens = 0
    BY DEF Init
  <2>. QED
    BY <2>1, <2>2, <2>3 DEF Counted
<1>. QED
  BY <1>1, <1>4, <1>5 DEF IInv

(* No step leaves a flag outside its values. *)
LEMMA StepFlags ==
    ASSUME Flags, [Next]_vars
    PROVE  Flags'
<1>. USE DEF Flags
<1>1. CASE Open
  BY <1>1 DEF Open, Connect, GivenUp
<1>2. CASE Close
  BY <1>2 DEF Close
<1>3. CASE Unmount
  BY <1>3 DEF Unmount
<1>4. CASE TimerFires
  BY <1>4 DEF TimerFires, Connect, GivenUp
<1>5. CASE StrayFires
  BY <1>5 DEF StrayFires, Connect, GivenUp
<1>6. CASE TokenChanges
  BY <1>6 DEF TokenChanges
<1>7. ASSUME NEW s \in Slots, Handshake(s) PROVE Flags'
  BY <1>7 DEF Handshake
<1>8. ASSUME NEW s \in Slots, Accept(s) PROVE Flags'
  BY <1>8 DEF Accept
<1>9. ASSUME NEW s \in Slots, Reject(s) PROVE Flags'
  BY <1>9 DEF Reject, GivenUp
<1>10. ASSUME NEW s \in Slots, ServerError(s) PROVE Flags'
  BY <1>10 DEF ServerError
<1>11. ASSUME NEW s \in Slots, ClosedForAuthentication(s) PROVE Flags'
  BY <1>11 DEF ClosedForAuthentication, OnClose, GivenUp
<1>12. ASSUME NEW s \in Slots, ClosedOtherwise(s) PROVE Flags'
  BY <1>12 DEF ClosedOtherwise, OnClose, Scheduled
<1>13. CASE UNCHANGED vars
  BY <1>13 DEF vars
<1>. QED
  BY <1>1, <1>2, <1>3, <1>4, <1>5, <1>6, <1>7, <1>8, <1>9, <1>10, <1>11, <1>12, <1>13 DEF Next

(* Every step of the drawer, the server and the session keeps the sockets
   well typed and the bound. *)
LEMMA StepCounted ==
    ASSUME MaxOpens \in Nat, Flags, Named, Counted, [Next]_vars
    PROVE  Named' /\ Counted'
<1>. DEFINE Goal == Named' /\ Counted'
<1>a. Cardinality(Alive) \in Nat /\ Cardinality(Alive') \in Nat
  <2>1. Cardinality(Alive) \in Nat
    BY AliveFinite
  <2>2. IsFiniteSet(Slots)
    BY FS_Interval DEF Slots
  <2>3. Alive' \in SUBSET Slots
    BY DEF Alive
  <2>. QED
    BY <2>1, <2>2, <2>3, FS_Subset, FS_CardinalityType
<1>b. /\ timer' = TRUE => Pending' = 1
      /\ timer' = FALSE => Pending' = 0
      /\ timer' = timer => Pending' = Pending
  BY DEF Pending
<1>c. Pending \in {0, 1} /\ (timer = TRUE => Pending = 1)
  BY PendingValue
<1>1. CASE Open
  <2>1. Named' /\ Cardinality(Alive') <= Cardinality(Alive) + 1
    BY <1>1, ConnectAddsOne DEF Open, Named, Flags
  <2>2. Pending' = 0 /\ opens' = opens + 1 /\ opens < MaxOpens /\ strays' = strays
    BY <1>1, <1>b DEF Open
  <2>. QED
    BY <1>a, <1>c, <2>1, <2>2 DEF Counted
<1>2. CASE Close
  <2>1. sockets' = CurrentClosed /\ current' = 0
    BY <1>2 DEF Close
  <2>2. Alive' = Alive
    BY <2>1, ClosingKeepsAlive DEF Named, Alive
  <2>3. Named'
    BY <2>1, ClosingKeepsAlive DEF Named
  <2>4. Pending' = 0 /\ opens' = opens /\ strays' = strays
    BY <1>2, <1>b DEF Close
  <2>. QED
    BY <1>a, <1>c, <2>2, <2>3, <2>4 DEF Counted
<1>3. CASE Unmount
  <2>1. sockets' = CurrentClosed /\ current' = current
    BY <1>3 DEF Unmount
  <2>2. Alive' = Alive
    BY <2>1, ClosingKeepsAlive DEF Named, Alive
  <2>3. Named'
    BY <2>1, <2>2, ClosingKeepsAlive DEF Named
  <2>4. Pending' = 0 /\ opens' = opens /\ strays' = strays
    BY <1>3, <1>b DEF Unmount
  <2>. QED
    BY <1>a, <1>c, <2>2, <2>3, <2>4 DEF Counted
<1>4. CASE TimerFires
  <2>1. Named' /\ Cardinality(Alive') <= Cardinality(Alive) + 1
    BY <1>4, ConnectAddsOne DEF TimerFires, Named, Flags
  <2>2. timer = TRUE /\ timer' = FALSE
    BY <1>4 DEF TimerFires, Flags
  <2>3. opens' = opens /\ strays' = strays
    BY <1>4 DEF TimerFires
  <2>. QED
    BY <1>a, <1>b, <1>c, <2>1, <2>2, <2>3 DEF Counted
<1>5. CASE StrayFires
  <2>1. Named' /\ Cardinality(Alive') <= Cardinality(Alive) + 1
    BY <1>5, ConnectAddsOne DEF StrayFires, Named, Flags
  <2>2. Pending' = Pending
    BY <1>5, <1>b DEF StrayFires
  <2>3. opens' = opens /\ strays > 0 /\ strays' = strays - 1
    BY <1>5 DEF StrayFires
  <2>. QED
    BY <1>a, <1>c, <2>1, <2>2, <2>3 DEF Counted
<1>d. ASSUME Named', Alive' = Alive, UNCHANGED <<timer, strays, opens>>
      PROVE  Goal
  BY <1>d, <1>b DEF Counted
<1>6. CASE TokenChanges \/ UNCHANGED vars
  <2>1. UNCHANGED <<sockets, current, timer, strays, opens>>
    BY <1>6 DEF TokenChanges, vars
  <2>2. Alive' = Alive
    BY <2>1 DEF Alive
  <2>. QED
    BY <1>d, <2>1, <2>2 DEF Named
<1>e. ASSUME NEW s \in Slots, s \in Alive, NEW x \in States \ {"none"}, Becomes(s, x),
             UNCHANGED <<current, timer, strays, opens>>
      PROVE  Goal
  BY <1>e, <1>d, BecomesKeepsAlive DEF Named
<1>7. ASSUME NEW s \in Slots, Handshake(s) \/ Accept(s) \/ Reject(s) \/ ServerError(s)
      PROVE  Goal
  <2>1. s \in Alive
    BY <1>7 DEF Handshake, Accept, Reject, ServerError, Alive
  <2>2. UNCHANGED <<current, timer, strays, opens>>
    BY <1>7 DEF Handshake, Accept, Reject, ServerError
  <2>3. PICK x \in States \ {"none"} : Becomes(s, x)
    BY <1>7 DEF Handshake, Accept, Reject, ServerError, States
  <2>. QED
    BY <1>e, <2>1, <2>2, <2>3
<1>8. ASSUME NEW s \in Slots, ClosedForAuthentication(s) PROVE Goal
  <2>1. s \in Alive /\ OnClose(s)
    BY <1>8 DEF ClosedForAuthentication, Alive
  <2>2. Named' /\ Cardinality(Alive') = Cardinality(Alive) - 1
    BY <2>1, CloseTakesOne DEF Named, OnClose
  <2>3. Pending' = Pending /\ strays' = strays /\ opens' = opens
    BY <1>8, <1>b DEF ClosedForAuthentication, OnClose
  <2>. QED
    BY <1>a, <1>c, <2>2, <2>3 DEF Counted
<1>9. ASSUME NEW s \in Slots, ClosedOtherwise(s) PROVE Goal
  <2>1. s \in Alive /\ OnClose(s)
    BY <1>9 DEF ClosedOtherwise, Alive
  <2>2. Named' /\ Cardinality(Alive') = Cardinality(Alive) - 1
    BY <2>1, CloseTakesOne DEF Named, OnClose
  <2>3. strays' = strays + Pending
    BY <1>9 DEF ClosedOtherwise, Scheduled, Pending
  <2>4. Pending' = 1 /\ opens' = opens
    BY <1>9, <1>b DEF ClosedOtherwise, Scheduled, OnClose
  <2>. QED
    BY <1>a, <1>c, <2>2, <2>3, <2>4 DEF Counted
<1>. QED
  BY <1>1, <1>2, <1>3, <1>4, <1>5, <1>6, <1>7, <1>8, <1>9 DEF Next

(* Nor does any step break the whole invariant. *)
LEMMA StepBounded ==
    ASSUME MaxOpens \in Nat, IInv, [Next]_vars
    PROVE  IInv'
BY StepFlags, StepCounted DEF IInv

(* The invariant says more than the type invariant and the bound. *)
LEMMA BoundedImplies ==
    ASSUME MaxOpens \in Nat, IInv
    PROVE  TypeOK /\ ReconnectsOncePerOpening
<1>1. ReconnectsOncePerOpening
  BY DEF IInv, Counted, ReconnectsOncePerOpening, Pending
<1>2. strays \in 0 .. MaxOpens
  BY AliveFinite, PendingValue DEF IInv, Counted
<1>3. \A s \in Slots : sockets[s].state \in States
  BY DEF IInv, Named, Sockets
<1>. QED
  BY <1>1, <1>2, <1>3 DEF IInv, Flags, Named, Counted, TypeOK, States

(* However often the drawer is opened and closed, and whatever the server and
   the network do to its sockets, reconnections never multiply: sockets and
   pending timeouts together are no more than the openings. *)
THEOREM ReconnectionsBounded ==
    ASSUME MaxOpens \in Nat
    PROVE  Spec => [](TypeOK /\ ReconnectsOncePerOpening)
<1>1. Init => IInv
  BY InitBounded
<1>2. IInv /\ [Next]_vars => IInv'
  BY StepBounded
<1>3. IInv => TypeOK /\ ReconnectsOncePerOpening
  BY BoundedImplies
<1>. QED
  BY <1>1, <1>2, <1>3, PTL DEF Spec
=============================================================================
