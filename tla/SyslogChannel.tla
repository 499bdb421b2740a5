----------------------------- MODULE SyslogChannel -----------------------------
(***************************************************************************)
(* What the syslog pipeline promises for a message the forwarder has read: *)
(* the forwarder holds it until its row is stored, and only a crash of the *)
(* forwarder gives up one that is not.  A row may appear late, or twice.   *)
(***************************************************************************)
EXTENDS Naturals

CONSTANT Messages

VARIABLES
    accepted,       \* messages read from the socket so far
    held,           \* those the forwarder still has a copy of
    stored,         \* those with a row in syslog_events
    crashes         \* how often the forwarder crashed

chanVars == <<accepted, held, stored, crashes>>

ChanInit == accepted = {} /\ held = {} /\ stored = {} /\ crashes = 0

Accept(m) ==
    /\ m \notin accepted
    /\ accepted' = accepted \cup {m}
    /\ held' = held \cup {m}
    /\ UNCHANGED <<stored, crashes>>

(* Rows are written; the forwarder may drop its copy of those at once. *)
Deliver ==
    \E S \in SUBSET accepted :
        /\ S # {}
        /\ stored' = stored \cup S
        /\ held' \in {held, held \ S}
        /\ UNCHANGED <<accepted, crashes>>

Crash ==
    \E S \in SUBSET held :
        /\ held' = held \ S
        /\ crashes' = crashes + 1
        /\ UNCHANGED <<accepted, stored>>

ChanNext == (\E m \in Messages : Accept(m)) \/ Deliver \/ Crash

ChanSpec == ChanInit /\ [][ChanNext]_chanVars
=============================================================================
