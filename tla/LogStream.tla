------------------------------ MODULE LogStream ------------------------------
(***************************************************************************)
(* The live RADIUS log drawer (components/LogViewer.jsx), one mounted      *)
(* instance of it, and the WebSocket /system/logs/stream it listens to     *)
(* (routers/system.py).                                                    *)
(*                                                                         *)
(* connectWs is rebuilt when isOpen changes and called only where isOpen   *)
(* is true, so every onclose it installs sees isOpen as true, for good: a  *)
(* socket that closes after the drawer did reconnects all the same, and so *)
(* do those of an instance that was unmounted.  Delays are left out: a     *)
(* pending timeout fires some time.  So is what the events say.            *)
(***************************************************************************)
EXTENDS Integers, FiniteSets

CONSTANTS
    NULL,
    Jwts,       \* tokens that logins leave
    Streamers,  \* those of active administrators
    MaxOpens    \* bound: times the drawer is opened

VARIABLES
    jwt,        \* the 'token' of localStorage; other parts of the panel set it
    drawer,     \* "closed", "open", or "gone" once Layout is unmounted
    sockets,    \* the sockets not yet closed: their state, the token they send
    current,    \* wsRef, 0 for null
    timer,      \* is the timeout reconnectTimer names pending
    strays,     \* pending timeouts it does not name any more
    connected, error,
    opens       \* counts towards MaxOpens

vars == <<jwt, drawer, sockets, current, timer, strays, connected, error, opens>>

Slots == 1 .. MaxOpens + 1
None == [state |-> "none", token |-> NULL]
Alive == {s \in Slots : sockets[s].state # "none"}

GivenUp == {"no token", "unauthorized", "authentication failed"}

TypeOK ==
    /\ jwt \in Jwts \cup {NULL}
    /\ drawer \in {"closed", "open", "gone"}
    /\ \A s \in Slots :
        /\ sockets[s].state \in {"none", "connecting", "open", "streaming",
                                 "closing", "refused", "ended"}
        /\ sockets[s].token = NULL <=> sockets[s].state = "none"
    /\ current \in Alive \cup {0}
    /\ timer \in BOOLEAN /\ strays \in 0 .. MaxOpens
    /\ connected \in BOOLEAN /\ error \in GivenUp \cup {NULL, "server"}
    /\ opens \in 0 .. MaxOpens

Init ==
    /\ jwt = NULL
    /\ drawer = "closed" /\ sockets = [s \in Slots |-> None] /\ current = 0
    /\ timer = FALSE /\ strays = 0
    /\ connected = FALSE /\ error = NULL /\ opens = 0

-----------------------------------------------------------------------------
\* close() on the socket wsRef names; it does nothing once a close has begun.
CurrentClosed ==
    [s \in Slots |->
        IF s = current /\ sockets[s].state \in {"connecting", "open", "streaming"}
        THEN [sockets[s] EXCEPT !.state = "closing"] ELSE sockets[s]]

(* connectWs.                                                              *)
Connect ==
    IF jwt = NULL
    THEN /\ sockets' = CurrentClosed /\ error' = "no token"
         /\ UNCHANGED current
    ELSE \E s \in Slots \ Alive :
         /\ \A r \in Slots \ Alive : s <= r
         /\ sockets' = [CurrentClosed EXCEPT ![s] = [state |-> "connecting", token |-> jwt]]
         /\ current' = s
         /\ UNCHANGED error

(* isOpen becomes true: the clean-up of the effect before, then connectWs. *)
Open ==
    /\ drawer = "closed" /\ opens < MaxOpens
    /\ drawer' = "open" /\ opens' = opens + 1
    /\ Connect
    /\ timer' = FALSE
    /\ UNCHANGED <<jwt, strays, connected>>

Close ==
    /\ drawer = "open"
    /\ drawer' = "closed"
    /\ sockets' = CurrentClosed /\ current' = 0
    /\ timer' = FALSE
    /\ connected' = FALSE
    /\ UNCHANGED <<jwt, strays, error, opens>>

(* A logout takes Layout, and the drawer in it, off the page.              *)
Unmount ==
    /\ drawer # "gone"
    /\ drawer' = "gone"
    /\ sockets' = CurrentClosed
    /\ timer' = FALSE
    /\ UNCHANGED <<jwt, current, strays, connected, error, opens>>

TimerFires ==
    /\ timer /\ timer' = FALSE
    /\ Connect
    /\ UNCHANGED <<jwt, drawer, strays, connected, opens>>

StrayFires ==
    /\ strays > 0 /\ strays' = strays - 1
    /\ Connect
    /\ UNCHANGED <<jwt, drawer, timer, connected, opens>>

-----------------------------------------------------------------------------
Becomes(s, state) == sockets' = [sockets EXCEPT ![s].state = state]

(* onopen: the token goes out.                                             *)
Handshake(s) ==
    /\ sockets[s].state = "connecting"
    /\ Becomes(s, "open")
    /\ UNCHANGED <<jwt, drawer, current, timer, strays, connected, error, opens>>

(* stream_radius_logs accepts it.                                          *)
Accept(s) ==
    /\ sockets[s].state = "open" /\ sockets[s].token \in Streamers
    /\ Becomes(s, "streaming")
    /\ connected' = TRUE /\ error' = NULL
    /\ UNCHANGED <<jwt, drawer, current, timer, strays, opens>>

(* Or refuses it: no administrator's, expired, or the account was disabled. *)
Reject(s) ==
    /\ sockets[s].state = "open"
    /\ Becomes(s, "refused")
    /\ connected' = FALSE /\ error' = "unauthorized"
    /\ UNCHANGED <<jwt, drawer, current, timer, strays, opens>>

(* The container is gone or the log ended with an exception.               *)
ServerError(s) ==
    /\ sockets[s].state = "streaming"
    /\ Becomes(s, "ended")
    /\ connected' = FALSE /\ error' = "server"
    /\ UNCHANGED <<jwt, drawer, current, timer, strays, opens>>

\* Mutant: onerror reconnects, and onclose after it does too.
ScheduledTwice ==
    /\ timer' = TRUE
    /\ strays' = strays + 1 + (IF timer THEN 1 ELSE 0)

\* Mutant: isOpen of the closure is taken to be false.
NotScheduled == UNCHANGED <<timer, strays>>

Scheduled ==
    /\ timer' = TRUE
    /\ strays' = strays + (IF timer THEN 1 ELSE 0)

\* Mutant: wsRef goes on naming the socket.
OnCloseRemembered(s) ==
    /\ sockets' = [sockets EXCEPT ![s] = None]
    /\ connected' = FALSE
    /\ UNCHANGED <<jwt, drawer, current, opens>>

(* onclose.  wsRef is emptied whichever socket it names by now.            *)
OnClose(s) ==
    /\ sockets' = [sockets EXCEPT ![s] = None]
    /\ connected' = FALSE
    /\ current' = 0
    /\ UNCHANGED <<jwt, drawer, opens>>

\* Codes 4001 and 4003.
ClosedForAuthentication(s) ==
    /\ sockets[s].state \in {"open", "refused"}
    /\ OnClose(s)
    /\ error' = "authentication failed"
    /\ UNCHANGED <<timer, strays>>

\* Any other code: by close(), by the server, or a connection that failed.
ClosedOtherwise(s) ==
    /\ sockets[s].state \in {"connecting", "open", "streaming", "closing", "ended"}
    /\ OnClose(s)
    /\ Scheduled
    /\ UNCHANGED error

(* Logging in and out, in this tab or another.                             *)
TokenChanges ==
    /\ \E t \in Jwts \cup {NULL} : t # jwt /\ jwt' = t
    /\ UNCHANGED <<drawer, sockets, current, timer, strays, connected, error, opens>>

Next ==
    \/ Open \/ Close \/ Unmount \/ TimerFires \/ StrayFires \/ TokenChanges
    \/ \E s \in Slots :
        \/ Handshake(s) \/ Accept(s) \/ Reject(s) \/ ServerError(s)
        \/ ClosedForAuthentication(s) \/ ClosedOtherwise(s)

Spec == Init /\ [][Next]_vars

\* The close that a browser or server has begun.
Closes(s) ==
    sockets[s].state \in {"closing", "refused", "ended"}
    /\ (ClosedForAuthentication(s) \/ ClosedOtherwise(s))

-----------------------------------------------------------------------------
(* However often sockets drop and timeouts cross, each time the drawer was
   opened accounts for one socket or pending timeout at most: a reconnection
   replaces what it reconnects (LogViewer.jsx:94-116).  Those of a drawer
   that was closed are not taken back: see the README. *)
ReconnectsOncePerOpening ==
    Cardinality(Alive) + strays + (IF timer THEN 1 ELSE 0) <= opens

(* An open drawer gets its stream back after any drop, unless it says that
   authentication failed. *)
DrawerReconnects ==
    drawer = "open" /\ error \notin GivenUp ~>
        \/ \E s \in Slots : sockets[s].state = "streaming"
        \/ drawer # "open" \/ error \in GivenUp
=============================================================================
