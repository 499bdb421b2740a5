------------------------------- MODULE MCSession -------------------------------
(***************************************************************************)
(* BrowserSession and LogStream, one or the other in each behaviour: they  *)
(* meet in the token alone, and LogStream lets that change at any time.    *)
(***************************************************************************)
EXTENDS BrowserSession, TLC

CONSTANTS NULL, Jwts, Streamers, MaxOpens

VARIABLES
    part,
    jwt, drawer, sockets, current, timer, strays, connected, error, opens

\* The Dashboard, and a page of administrators.
TwoPages == ("/" :> {"admin", "auditor"}) @@ ("/network-segments" :> {"admin"})

ThreeClaims ==
    {[role |-> "auditor", force |-> FALSE], [role |-> "admin", force |-> FALSE],
     [role |-> "admin", force |-> TRUE]}

Stream == INSTANCE LogStream

streamVars == <<jwt, drawer, sockets, current, timer, strays, connected, error, opens>>
bothVars == <<part, vars, streamVars>>

BothInit == part \in {"session", "stream"} /\ Init /\ Stream!Init

InSession == part = "session" /\ UNCHANGED <<part, streamVars>>
InStream == part = "stream" /\ UNCHANGED <<part, vars>>

BothNext == (InSession /\ Next) \/ (InStream /\ Stream!Next)

(* Polls are sent, a navigation that began ends, and a tab is not loaded    *)
(* again and again before the answer to its polls can arrive.              *)
SessionFairness ==
    \A t \in Tabs :
        /\ WF_bothVars(InSession /\ Poll(t))
        /\ WF_bothVars(InSession /\ Load(t))
        /\ SF_bothVars(InSession /\ \E r \in flight[t] : Answer(t, r) \/ Declined(t, r))

(* Timeouts fire and a close that has begun ends; the server, tried again
   and again, is reached and answers in the end.                           *)
StreamFairness ==
    /\ WF_bothVars(InStream /\ Stream!TimerFires)
    /\ WF_bothVars(InStream /\ Stream!StrayFires)
    /\ \A s \in Stream!Slots : WF_bothVars(InStream /\ Stream!Closes(s))
    /\ SF_bothVars(InStream /\ \E s \in Stream!Slots : Stream!Handshake(s))
    /\ SF_bothVars(InStream /\ \E s \in Stream!Slots : Stream!Accept(s) \/ Stream!Reject(s))

BothSpec == BothInit /\ [][BothNext]_bothVars /\ SessionFairness /\ StreamFairness

-----------------------------------------------------------------------------
(* The type invariants of both. *)
SessionTypeOK == TypeOK /\ Stream!TypeOK
(* Drops and timeouts never multiply the sockets of the drawer. *)
ReconnectsOncePerOpening == Stream!ReconnectsOncePerOpening
(* An open drawer gets its stream back. *)
DrawerReconnects == Stream!DrawerReconnects
=============================================================================
