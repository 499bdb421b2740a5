---------------------------- MODULE SyslogForwarder ----------------------------
(***************************************************************************)
(* rsyslog/syslog-forwarder.py and the endpoint it posts to.               *)
(*                                                                         *)
(* Two threads share message_buffer under buffer_lock: the main thread     *)
(* reads a datagram, appends it and flushes; flush_worker wakes every      *)
(* BATCH_TIMEOUT seconds and flushes a buffer of BATCH_SIZE or more.       *)
(* flush_buffer copies and clears the buffer inside the lock, posts        *)
(* outside it, and puts the copy back on any failure.  A post that timed   *)
(* out may still be running in the backend.                                *)
(***************************************************************************)
EXTENDS Naturals, SequencesExt

CONSTANTS
    Messages,       \* datagrams the devices send
    Poison,         \* those syslog_events refuses (a column too long)
    BatchSize,      \* BATCH_SIZE
    MaxFail,        \* bound: posts that fail although the batch is sound
    MaxCrash        \* bound: crashes of the forwarder

ASSUME ForwarderAssumption ==
    /\ Poison \subseteq Messages
    /\ BatchSize \in Nat \ {0}
    /\ MaxFail \in Nat
    /\ MaxCrash \in Nat

VARIABLES
    sent,           \* datagrams that left their device
    socket,         \* the kernel's receive buffer
    read,           \* observer: datagrams recvfrom returned
    buffer,         \* message_buffer
    pc,             \* where each thread stands
    batch,          \* to_send of each thread
    limbo,          \* batches the backend is still working on after a timeout
    copies,         \* rows of syslog_events per message
    fails,          \* failed posts so far (bounded by MaxFail)
    crashes         \* crashes so far (bounded by MaxCrash)

vars == <<sent, socket, read, buffer, pc, batch, limbo, copies, fails, crashes>>

Threads == {"main", "worker"}

TypeOK ==
    /\ sent \subseteq Messages /\ socket \subseteq sent /\ read \subseteq sent
    /\ buffer \in Seq(Messages)
    /\ pc \in [Threads -> {"idle", "flush", "post", "requeue"}]
    /\ batch \in [Threads -> Seq(Messages)]
    /\ limbo \in Seq(Seq(Messages))
    /\ copies \in [Messages -> Nat]
    /\ fails \in 0 .. MaxFail /\ crashes \in 0 .. MaxCrash

Init ==
    /\ sent = {} /\ socket = {} /\ read = {}
    /\ buffer = <<>>
    /\ pc = [t \in Threads |-> "idle"]
    /\ batch = [t \in Threads |-> <<>>]
    /\ limbo = <<>>
    /\ copies = [m \in Messages |-> 0]
    /\ fails = 0 /\ crashes = 0

-----------------------------------------------------------------------------
(* A device sends a datagram; the kernel queues it or drops it. *)
Send(m) ==
    /\ m \notin sent
    /\ sent' = sent \cup {m}
    /\ socket' \in {socket, socket \cup {m}}
    /\ UNCHANGED <<read, buffer, pc, batch, limbo, copies, fails, crashes>>

(* handle_client up to the append under the lock.  Datagrams may be read in
   any order: UDP keeps none. *)
Receive ==
    /\ pc["main"] = "idle"
    /\ \E m \in socket :
          /\ socket' = socket \ {m}
          /\ read' = read \cup {m}
          /\ buffer' = Append(buffer, m)
    /\ pc' = [pc EXCEPT !["main"] = "flush"]
    /\ UNCHANGED <<sent, batch, limbo, copies, fails, crashes>>

\* Mutant: a buffer of exactly BATCH_SIZE is left to wait.
WakeAbove ==
    /\ pc["worker"] = "idle"
    /\ Len(buffer) > BatchSize
    /\ pc' = [pc EXCEPT !["worker"] = "flush"]
    /\ UNCHANGED <<sent, socket, read, buffer, batch, limbo, copies, fails, crashes>>

(* flush_worker after its sleep: only a buffer of BATCH_SIZE is flushed. *)
Wake ==
    /\ pc["worker"] = "idle"
    /\ Len(buffer) >= BatchSize
    /\ pc' = [pc EXCEPT !["worker"] = "flush"]
    /\ UNCHANGED <<sent, socket, read, buffer, batch, limbo, copies, fails, crashes>>

\* Mutant: the buffer is copied but not cleared under the lock.
TakeCopy(t) == /\ batch' = [batch EXCEPT ![t] = buffer] /\ UNCHANGED buffer

(* The locked part of flush_buffer; the other thread may have emptied the
   buffer since this one looked at its length. *)
TakeAll(t) == /\ batch' = [batch EXCEPT ![t] = buffer] /\ buffer' = <<>>

Take(t) ==
    /\ pc[t] = "flush"
    /\ IF buffer = <<>>
       THEN /\ pc' = [pc EXCEPT ![t] = "idle"]
            /\ UNCHANGED <<buffer, batch>>
       ELSE /\ pc' = [pc EXCEPT ![t] = "post"]
            /\ TakeAll(t)
    /\ UNCHANGED <<sent, socket, read, limbo, copies, fails, crashes>>

(* POST /syslog/ingest inserts the whole batch in one transaction. *)
Ingestible(b) == b # <<>> /\ ToSet(b) \cap Poison = {}

Ingest(b) ==
    copies' = [m \in Messages |-> copies[m] + Cardinality({i \in DOMAIN b : b[i] = m})]

\* Mutant: only status 200 counts as success, and ingest answers 201.
Accepted200(t) ==
    /\ pc[t] = "post"
    /\ Ingestible(batch[t])
    /\ Ingest(batch[t])
    /\ pc' = [pc EXCEPT ![t] = "requeue"]
    /\ UNCHANGED <<sent, socket, read, buffer, batch, limbo, fails, crashes>>

(* The backend answers 201. *)
Accepted(t) ==
    /\ pc[t] = "post"
    /\ Ingestible(batch[t])
    /\ Ingest(batch[t])
    /\ pc' = [pc EXCEPT ![t] = "idle"]
    /\ batch' = [batch EXCEPT ![t] = <<>>]
    /\ UNCHANGED <<sent, socket, read, buffer, limbo, fails, crashes>>

(* Another status, or no connection: nothing was written. *)
Refused(t) ==
    /\ pc[t] = "post"
    /\ \/ ~Ingestible(batch[t]) /\ UNCHANGED fails
       \/ fails < MaxFail /\ fails' = fails + 1
    /\ pc' = [pc EXCEPT ![t] = "requeue"]
    /\ UNCHANGED <<sent, socket, read, buffer, batch, limbo, copies, crashes>>

(* timeout=10 expired, or the connection broke while the request ran. *)
TimedOut(t) ==
    /\ pc[t] = "post"
    /\ fails < MaxFail
    /\ fails' = fails + 1
    /\ pc' = [pc EXCEPT ![t] = "requeue"]
    /\ limbo' = Append(limbo, batch[t])
    /\ UNCHANGED <<sent, socket, read, buffer, batch, copies, crashes>>

\* Mutant: the copy replaces what arrived during the post.
RequeuedOver(t) == batch[t]

\* Mutant: append where extend is meant.
RequeuedWhole(t) == Append(buffer, batch[t])

(* Both failure branches of flush_buffer: extend, under the lock again. *)
Requeued(t) == buffer \o batch[t]

Requeue(t) ==
    /\ pc[t] = "requeue"
    /\ buffer' = Requeued(t)
    /\ batch' = [batch EXCEPT ![t] = <<>>]
    /\ pc' = [pc EXCEPT ![t] = "idle"]
    /\ UNCHANGED <<sent, socket, read, limbo, copies, fails, crashes>>

(* The request nobody waits for any more commits, or fails. *)
Settle ==
    /\ \E i \in DOMAIN limbo :
          /\ limbo' = RemoveAt(limbo, i)
          /\ \/ Ingestible(limbo[i]) /\ Ingest(limbo[i])
             \/ UNCHANGED copies
    /\ UNCHANGED <<sent, socket, read, buffer, pc, batch, fails, crashes>>

(* The container dies and is started again (restart: unless-stopped): the
   buffer and both batches are gone, a running post may still commit. *)
CrashForwarder ==
    /\ crashes < MaxCrash
    /\ crashes' = crashes + 1
    /\ limbo' = limbo \o SetToSeq({batch[t] : t \in {x \in Threads : pc[x] = "post"}})
    /\ socket' = {} /\ buffer' = <<>>
    /\ pc' = [t \in Threads |-> "idle"]
    /\ batch' = [t \in Threads |-> <<>>]
    /\ UNCHANGED <<sent, read, copies, fails>>

Next ==
    \/ \E m \in Messages : Send(m)
    \/ Receive \/ Wake \/ Settle \/ CrashForwarder
    \/ \E t \in Threads :
          Take(t) \/ Accepted(t) \/ Refused(t) \/ TimedOut(t) \/ Requeue(t)

(* The interpreter runs both threads; every post ends (requests.post has a
   timeout).  Devices, crashes and the backend's leftovers owe nothing. *)
Post(t) == Accepted(t) \/ Refused(t) \/ TimedOut(t)

Fairness ==
    /\ WF_vars(Receive) /\ WF_vars(Wake)
    /\ \A t \in Threads : WF_vars(Take(t)) /\ WF_vars(Post(t)) /\ WF_vars(Requeue(t))

Spec == Init /\ [][Next]_vars
FairSpec == Spec /\ Fairness

-----------------------------------------------------------------------------
Copies(m) ==
    Cardinality({i \in DOMAIN buffer : buffer[i] = m})
    + Cardinality({t \in Threads : m \in ToSet(batch[t])})

Unsettled(m) == {i \in DOMAIN limbo : m \in ToSet(limbo[i])}

(* However the two threads interleave in flush_buffer, the forwarder itself
   never holds a message twice. *)
HeldOnce == \A m \in Messages : Copies(m) <= 1

(* A second row for a message takes a post whose outcome the forwarder did
   not learn: with none, each message has a single copy, stored or held. *)
DuplicateNeedsFailure ==
    \A m \in Messages :
        copies[m] + Copies(m) + Cardinality(Unsettled(m)) <= 1 + fails

(* A message the forwarder read stays with it until its row is stored,
   unless the forwarder crashes; a message is read once. *)
Channel == INSTANCE SyslogChannel WITH
    accepted <- read,
    held <- {m \in Messages : Copies(m) > 0},
    stored <- {m \in Messages : copies[m] > 0}

ImplementsChannel == Channel!ChanSpec

(* flush_worker: once BATCH_SIZE messages wait in the buffer each of them is
   stored, however posts fail on the way and unless a crash loses it first.
   One message the table refuses is enough to hold back all the others. *)
Settled(m) == copies[m] > 0 \/ Copies(m) = 0

FullBufferDelivered ==
    \A m \in Messages :
        (m \in ToSet(buffer) /\ Len(buffer) >= BatchSize)
            ~> (Settled(m) \/ read \cap Poison # {})
=============================================================================
