---------------------------- MODULE SyslogIntegrity ----------------------------
(***************************************************************************)
(* The hash chain over syslog_events: backfill_syslog_hashes, run by       *)
(* _syslog_integrity_loop every minute while POST /syslog/ingest adds      *)
(* rows.  SHA-256 over previous_hash and the row is taken as injective, so *)
(* a hash is the sequence of the rows behind it and GENESIS_HASH is <<>>.  *)
(* Two rows may hold the same text: the forwarder repeats a batch whose    *)
(* post timed out.                                                         *)
(***************************************************************************)
EXTENDS Integers, SequencesExt

CONSTANTS
    NULL,           \* no hash yet
    Texts,          \* device_ip, program and message of a row
    Times,          \* received_at, stamped by the forwarder
    MaxEvents,      \* bound: rows ever inserted
    BatchLimit,     \* batch_size
    MaxFail         \* bound: runs that end in an exception or a restart

Contents == [at : Times, text : Texts]
GENESIS_HASH == <<>>
Hashes == Seq(Contents)

ASSUME IntegrityAssumption ==
    /\ NULL \notin Hashes
    /\ Times \subseteq Nat
    /\ MaxEvents \in Nat /\ MaxFail \in Nat
    /\ BatchLimit \in Nat \ {0}

VARIABLES
    events,         \* syslog_events, by id
    pc,             \* the loop: "sleep", "select", "commit"
    last,           \* last_hash
    chosen,         \* the records of the current batch, as ids
    fails           \* runs that failed so far (bounded by MaxFail)

vars == <<events, pc, last, chosen, fails>>

Ids == 1 .. Len(events)
Content(e) == [at |-> e.at, text |-> e.text]
compute_syslog_hash(previous, e) == Append(previous, Content(e))

TypeOK ==
    /\ events \in Seq([at : Times, text : Texts,
                       previous_hash : Hashes \cup {NULL}, hash : Hashes \cup {NULL}])
    /\ pc \in {"sleep", "select", "commit"}
    /\ last \in Hashes
    /\ chosen \in Seq(Ids)
    /\ fails \in 0 .. MaxFail

Init ==
    /\ events = <<>>
    /\ pc = "sleep" /\ last = GENESIS_HASH /\ chosen = <<>>
    /\ fails = 0

-----------------------------------------------------------------------------
(* POST /syslog/ingest: a batch becomes rows without hashes, in one commit. *)
Ingest ==
    /\ \E n \in 1 .. 2 : \E b \in [1 .. n -> Contents] :
          /\ Len(events) + n <= MaxEvents
          /\ events' = events \o
                 [k \in 1 .. n |-> [at |-> b[k].at, text |-> b[k].text,
                                    previous_hash |-> NULL, hash |-> NULL]]
    /\ UNCHANGED <<pc, last, chosen, fails>>

\* Mutant: last_hash is not initialised.
RunStartNone == NULL

RunStart == GENESIS_HASH

(* The loop wakes up: a run starts from the genesis hash. *)
StartRun ==
    /\ pc = "sleep"
    /\ pc' = "select"
    /\ last' = RunStart
    /\ UNCHANGED <<events, chosen, fails>>

\* Mutant: rows that have a hash are selected again.
PendingAll == Ids

(* WHERE hash IS NULL ORDER BY received_at, id LIMIT batch_size. *)
Pending == {i \in Ids : events[i].hash = NULL}

Earlier(i, j) ==
    \/ events[i].at < events[j].at
    \/ events[i].at = events[j].at /\ i < j

\* The rows of the query's result: the earliest ones, in order.
Batches ==
    LET n == IF Cardinality(Pending) < BatchLimit THEN Cardinality(Pending) ELSE BatchLimit
    IN  {b \in [1 .. n -> Pending] :
            /\ \A j, k \in 1 .. n : j < k => Earlier(b[j], b[k])
            /\ \A k \in 1 .. n, i \in Pending \ ToSet(b) : Earlier(b[k], i)}

Select ==
    /\ pc = "select"
    /\ \E b \in Batches :
          /\ chosen' = b
          /\ pc' = IF b = <<>> THEN "sleep" ELSE "commit"
    /\ UNCHANGED <<events, last, fails>>

(* last_hash after k turns of the loop over the records: each turn applies
   compute_syslog_hash to the one before, so the k rows stand behind it. *)
Link(k) == last \o [n \in 1 .. k |-> Content(events[chosen[n]])]

\* Mutant: last_hash moves only once per batch.
LinkFrom(k) == last

Previous(k) == Link(k - 1)

Commit ==
    /\ pc = "commit"
    /\ events' =
          [i \in Ids |->
              IF i \notin ToSet(chosen) THEN events[i]
              ELSE LET k == CHOOSE n \in DOMAIN chosen : chosen[n] = i
                   IN  [events[i] EXCEPT
                           !.previous_hash = Previous(k),
                           !.hash = compute_syslog_hash(Previous(k), events[i])]]
    /\ last' = Link(Len(chosen))
    /\ chosen' = <<>>
    /\ pc' = IF Len(chosen) < BatchLimit THEN "sleep" ELSE "select"
    /\ UNCHANGED fails

\* Mutant: an exception ends the background task.
FailEnds ==
    /\ pc # "sleep"
    /\ fails < MaxFail
    /\ fails' = fails + 1
    /\ pc' = "ended" /\ chosen' = <<>>
    /\ UNCHANGED <<events, last>>

(* The commit raises and the loop logs it, or the backend restarts: the
   session is discarded, the loop sleeps and starts a new run. *)
Fail ==
    /\ pc # "sleep"
    /\ fails < MaxFail
    /\ fails' = fails + 1
    /\ pc' = "sleep" /\ chosen' = <<>>
    /\ UNCHANGED <<events, last>>

Next == Ingest \/ StartRun \/ Select \/ Commit \/ Fail

Spec == Init /\ [][Next]_vars

(* asyncio keeps scheduling the background task; the bound on failures says
   that the database is not down for ever. *)
FairSpec == Spec /\ WF_vars(StartRun) /\ WF_vars(Select) /\ WF_vars(Commit)

-----------------------------------------------------------------------------
Hashed == {i \in Ids : events[i].hash # NULL}
WithHash(h) == {i \in Hashed : events[i].hash = h}
After(h) == {i \in Hashed : events[i].previous_hash = h}

(* verify_syslog_record: a hash, once stored, still verifies; no later run
   links the row again, whatever arrives before it in time. *)
Rehashed ==
    \E i \in Hashed :
        events'[i].hash # events[i].hash
        \/ events'[i].previous_hash # events[i].previous_hash

NeverRehashed == [][~Rehashed]_vars

(* A previous_hash other than genesis is the hash of a stored row, and of at
   least as many rows as name it: links never dangle and chains never split,
   whichever rows are repeated and wherever a run broke off. *)
NoFork ==
    \A i \in Hashed :
        LET h == events[i].previous_hash
        IN  h # GENESIS_HASH => Cardinality(After(h)) <= Cardinality(WithHash(h))

(* Every row gets its hash, those inserted during a run included. *)
EventuallyHashed == \A i \in 1 .. MaxEvents : i \in Ids ~> i \in Hashed
=============================================================================
