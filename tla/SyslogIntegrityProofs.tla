------------------------- MODULE SyslogIntegrityProofs -------------------------
(***************************************************************************)
(* Theorems about SyslogIntegrity, for any rows, times and batch size: the *)
(* types, that a stored hash never changes, and that no chain splits.      *)
(***************************************************************************)
EXTENDS SyslogIntegrity, FiniteSetTheorems, SequenceTheorems, TLAPS

-----------------------------------------------------------------------------
(* The links of one batch. *)

Rows == [at : Times, text : Texts,
         previous_hash : Hashes \cup {NULL}, hash : Hashes \cup {NULL}]

(* A row's content is the part of it that is hashed. *)
LEMMA RowType ==
    ASSUME TypeOK, NEW i \in Ids
    PROVE  events[i] \in Rows /\ Content(events[i]) \in Contents
<1>1. events \in Seq(Rows)
  BY DEF TypeOK, Rows
<1>2. events[i] \in Rows
  BY <1>1 DEF Ids
<1>. QED
  BY <1>2 DEF Rows, Content, Contents

(* The chosen ids are ids of rows. *)
LEMMA ChosenType ==
    ASSUME TypeOK
    PROVE  /\ Len(chosen) \in Nat /\ DOMAIN chosen = 1 .. Len(chosen)
           /\ \A k \in 1 .. Len(chosen) : chosen[k] \in Ids
           /\ ToSet(chosen) = {chosen[k] : k \in 1 .. Len(chosen)}
<1>1. chosen \in Seq(Ids)
  BY DEF TypeOK
<1>. QED
  BY <1>1 DEF ToSet

(* Each link is a hash, one row longer than the one before it. *)
LEMMA LinkType ==
    ASSUME TypeOK, NEW k \in 0 .. Len(chosen)
    PROVE  Link(k) \in Hashes /\ Len(Link(k)) = Len(last) + k
<1>. DEFINE new == [n \in 1 .. k |-> Content(events[chosen[n]])]
<1>1. \A n \in 1 .. k : chosen[n] \in Ids
  BY ChosenType
<1>2. \A n \in 1 .. k : Content(events[chosen[n]]) \in Contents
  BY <1>1, RowType
<1>3. k \in Nat
  BY ChosenType
<1>4. new \in Seq(Contents) /\ Len(new) = k
  BY <1>2, <1>3
<1>5. last \in Seq(Contents)
  BY DEF TypeOK, Hashes
<1>6. Link(k) = last \o new
  BY DEF Link
<1>. HIDE DEF new
<1>7. last \o new \in Seq(Contents) /\ Len(last \o new) = Len(last) + Len(new)
  BY <1>4, <1>5, ConcatProperties
<1>. QED
  BY <1>4, <1>6, <1>7 DEF Hashes

(* So they are all different. *)
LEMMA LinksDiffer ==
    ASSUME TypeOK, NEW j \in 0 .. Len(chosen), NEW k \in 0 .. Len(chosen),
           Link(j) = Link(k)
    PROVE  j = k
<1>1. Len(last) \in Nat /\ j \in Nat /\ k \in Nat
  BY ChosenType DEF TypeOK, Hashes
<1>2. Len(Link(j)) = Len(last) + j /\ Len(Link(k)) = Len(last) + k
  BY LinkType
<1>. QED
  BY <1>1, <1>2

(* The loop of backfill_syslog_hashes: it starts from last_hash, and each turn
   applies compute_syslog_hash to the link before it. *)
LEMMA LinkStep ==
    ASSUME TypeOK
    PROVE  /\ Link(0) = last
           /\ \A k \in 1 .. Len(chosen) :
                Link(k) = compute_syslog_hash(Link(k - 1), events[chosen[k]])
<1>1. last \in Seq(Contents)
  BY DEF TypeOK, Hashes
<1>2. Link(0) = last
  BY <1>1 DEF Link
<1>3. ASSUME NEW k \in 1 .. Len(chosen)
      PROVE  Link(k) = compute_syslog_hash(Link(k - 1), events[chosen[k]])
  <2>. DEFINE c(n) == Content(events[chosen[n]])
              new == [n \in 1 .. k |-> c(n)]
              old == [n \in 1 .. k - 1 |-> c(n)]
  <2>1. k \in Nat \ {0} /\ k - 1 \in Nat
    BY ChosenType
  <2>2. \A n \in 1 .. k : c(n) \in Contents
    BY ChosenType, RowType
  <2>. HIDE DEF c
  <2>3. new \in Seq(Contents) /\ Len(new) = k
    BY <2>1, <2>2
  <2>4. old \in Seq(Contents) /\ Len(old) = k - 1
    BY <2>1, <2>2
  <2>5. new = Append(old, c(k))
    BY <2>1, <2>2, <2>3, <2>4
  <2>6. c(k) \in Contents
    BY <2>1, <2>2
  <2>7. Link(k) = last \o new /\ Link(k - 1) = last \o old
    BY DEF Link, c
  <2>. HIDE DEF new, old
  <2>8. last \o Append(old, c(k)) = Append(last \o old, c(k))
    BY <1>1, <2>4, <2>6
  <2>. QED
    BY <2>5, <2>7, <2>8 DEF compute_syslog_hash, c
<1>. QED
  BY <1>2, <1>3

-----------------------------------------------------------------------------
(* Type correctness. *)

(* The batch a run is about to commit: rows without a hash, each of them once. *)
Selected ==
    /\ pc = "commit" <=> chosen # <<>>
    /\ \A k \in 1 .. Len(chosen) : chosen[k] \in Pending
    /\ \A j, k \in 1 .. Len(chosen) : chosen[j] = chosen[k] => j = k

ChainInv == TypeOK /\ Selected

(* A row keeps its place, its content and its hash when others are ingested. *)
LEMMA IngestRows ==
    ASSUME TypeOK, Ingest
    PROVE  /\ events' \in Seq(Rows) /\ Ids \subseteq Ids'
           /\ \A i \in Ids : events'[i] = events[i]
           /\ \A i \in Ids' \ Ids : events'[i].hash = NULL
<1>1. PICK n \in 1 .. 2 : \E b \in [1 .. n -> Contents] :
         events' = events \o
                 [k \in 1 .. n |-> [at |-> b[k].at, text |-> b[k].text,
                                    previous_hash |-> NULL, hash |-> NULL]]
  BY DEF Ingest
<1>2. PICK b \in [1 .. n -> Contents] :
         events' = events \o
                 [k \in 1 .. n |-> [at |-> b[k].at, text |-> b[k].text,
                                    previous_hash |-> NULL, hash |-> NULL]]
  BY <1>1
<1>. DEFINE row(k) == [at |-> b[k].at, text |-> b[k].text,
                       previous_hash |-> NULL, hash |-> NULL]
            new == [k \in 1 .. n |-> row(k)]
<1>3. \A k \in 1 .. n : row(k) \in Rows /\ row(k).hash = NULL
  BY DEF Rows, Contents
<1>. HIDE DEF row
<1>4. new \in Seq(Rows) /\ Len(new) = n /\ \A k \in 1 .. n : new[k].hash = NULL
  BY <1>3
<1>5. events \in Seq(Rows) /\ Len(events) \in Nat
  BY DEF TypeOK, Rows
<1>6. events' = events \o new
  BY <1>2 DEF row
<1>. HIDE DEF new
<1>7. /\ events' \in Seq(Rows) /\ Len(events') = Len(events) + Len(new)
      /\ \A i \in 1 .. Len(events) + Len(new) :
           events'[i] = IF i <= Len(events) THEN events[i] ELSE new[i - Len(events)]
  BY <1>4, <1>5, <1>6, ConcatProperties
<1>8. Ids = 1 .. Len(events) /\ Ids' = 1 .. Len(events) + n
  BY <1>4, <1>7 DEF Ids
<1>9. \A i \in Ids : i \in Ids' /\ events'[i] = events[i]
  BY <1>4, <1>5, <1>7, <1>8
<1>10. ASSUME NEW i \in Ids' \ Ids
       PROVE  events'[i].hash = NULL
  <2>1. i - Len(events) \in 1 .. n /\ events'[i] = new[i - Len(events)]
    BY <1>4, <1>5, <1>7, <1>8
  <2>. QED
    BY <1>4, <2>1
<1>. QED
  BY <1>7, <1>9, <1>10

(* A batch is a sequence of pending rows without repetition. *)
LEMMA BatchType ==
    ASSUME TypeOK, NEW b \in Batches
    PROVE  /\ b \in Seq(Ids)
           /\ \A k \in 1 .. Len(b) : b[k] \in Pending
           /\ \A j, k \in 1 .. Len(b) : b[j] = b[k] => j = k
<1>. DEFINE n == IF Cardinality(Pending) < BatchLimit THEN Cardinality(Pending) ELSE BatchLimit
<1>1. Len(events) \in Nat
  BY DEF TypeOK
<1>2. IsFiniteSet(Ids)
  BY <1>1, FS_Interval DEF Ids
<1>3. Pending \in SUBSET Ids
  BY DEF Pending
<1>4. Cardinality(Pending) \in Nat
  BY <1>2, <1>3, FS_Subset, FS_CardinalityType
<1>5. n \in Nat
  BY <1>4, IntegrityAssumption
<1>6. b \in [1 .. n -> Pending] /\ \A j, k \in 1 .. n : j < k => Earlier(b[j], b[k])
  BY DEF Batches
<1>. HIDE DEF n
<1>7. b \in Seq(Ids) /\ Len(b) = n
  BY <1>3, <1>5, <1>6
<1>8. ASSUME NEW i \in Ids
      PROVE  ~Earlier(i, i)
  <2>1. events[i].at \in Nat /\ i \in Nat
    <3>1. events[i] \in Rows /\ i \in Nat
      BY RowType DEF Ids
    <3>2. events[i].at \in Times
      BY <3>1 DEF Rows
    <3>. QED
      BY <3>1, <3>2, IntegrityAssumption
  <2>. QED
    BY <2>1 DEF Earlier
<1>9. ASSUME NEW j \in 1 .. n, NEW k \in 1 .. n, b[j] = b[k]
      PROVE  j = k
  <2>1. b[j] \in Ids
    BY <1>3, <1>6
  <2>2. ~(j < k) /\ ~(k < j)
    BY <1>6, <1>8, <1>9, <2>1
  <2>. QED
    BY <1>5, <2>2
<1>. QED
  BY <1>6, <1>7, <1>9

(* What a commit writes: link k into the k-th record, nothing anywhere else. *)
LEMMA CommitRows ==
    ASSUME ChainInv, Commit
    PROVE  /\ events' \in Seq(Rows) /\ Ids' = Ids
           /\ \A i \in Ids \ ToSet(chosen) : events'[i] = events[i]
           /\ \A k \in 1 .. Len(chosen) :
                /\ events'[chosen[k]].previous_hash = Link(k - 1)
                /\ events'[chosen[k]].hash = Link(k)
                /\ Content(events'[chosen[k]]) = Content(events[chosen[k]])
<1>. DEFINE turn(i) == CHOOSE n \in DOMAIN chosen : chosen[n] = i
            written(i) == [events[i] EXCEPT
                             !.previous_hash = Previous(turn(i)),
                             !.hash = compute_syslog_hash(Previous(turn(i)), events[i])]
<1>1. TypeOK
  BY DEF ChainInv
<1>2. events' = [i \in Ids |-> IF i \notin ToSet(chosen) THEN events[i] ELSE written(i)]
  BY DEF Commit
<1>3. \A k \in 1 .. Len(chosen) : turn(chosen[k]) = k
  BY <1>1, ChosenType DEF ChainInv, Selected
<1>. HIDE DEF turn
<1>4. ASSUME NEW k \in 1 .. Len(chosen)
      PROVE  /\ chosen[k] \in Ids
             /\ Link(k - 1) \in Hashes /\ Link(k) \in Hashes
             /\ written(chosen[k])
                  = [events[chosen[k]] EXCEPT !.previous_hash = Link(k - 1), !.hash = Link(k)]
  <2>1. k - 1 \in 0 .. Len(chosen) /\ k \in 0 .. Len(chosen)
    BY <1>1, ChosenType
  <2>2. Link(k) = compute_syslog_hash(Link(k - 1), events[chosen[k]])
    BY <1>1, LinkStep
  <2>3. Link(k - 1) \in Hashes /\ Link(k) \in Hashes
    BY <1>1, <2>1, LinkType
  <2>4. chosen[k] \in Ids
    BY <1>1, ChosenType
  <2>5. Previous(turn(chosen[k])) = Link(k - 1)
    BY <1>3 DEF Previous
  <2>. QED
    BY <2>2, <2>3, <2>4, <2>5
<1>. HIDE DEF written
<1>5. ASSUME NEW k \in 1 .. Len(chosen)
      PROVE  /\ written(chosen[k]) \in Rows
             /\ written(chosen[k]).previous_hash = Link(k - 1)
             /\ written(chosen[k]).hash = Link(k)
             /\ Content(written(chosen[k])) = Content(events[chosen[k]])
  <2>1. events[chosen[k]] \in Rows
    BY <1>1, <1>4, RowType
  <2>. DEFINE e == events[chosen[k]]
              g == Link(k - 1)
              h == Link(k)
  <2>2. written(chosen[k]) = [e EXCEPT !.previous_hash = g, !.hash = h]
    BY <1>4
  <2>3. e \in Rows /\ g \in Hashes /\ h \in Hashes
    BY <1>4, <2>1
  <2>. HIDE DEF e, g, h
  <2>4. /\ [e EXCEPT !.previous_hash = g, !.hash = h] \in Rows
        /\ [e EXCEPT !.previous_hash = g, !.hash = h].previous_hash = g
        /\ [e EXCEPT !.previous_hash = g, !.hash = h].hash = h
        /\ [e EXCEPT !.previous_hash = g, !.hash = h].at = e.at
        /\ [e EXCEPT !.previous_hash = g, !.hash = h].text = e.text
    BY <2>3 DEF Rows
  <2>5. /\ written(chosen[k]) \in Rows
        /\ written(chosen[k]).previous_hash = g /\ written(chosen[k]).hash = h
        /\ Content(written(chosen[k])) = Content(e)
    BY <2>2, <2>4 DEF Content
  <2>. QED
    BY <2>5 DEF e, g, h
<1>6. ToSet(chosen) = {chosen[k] : k \in 1 .. Len(chosen)}
  BY <1>1, ChosenType
<1>7. \A i \in Ids : (IF i \notin ToSet(chosen) THEN events[i] ELSE written(i)) \in Rows
  BY <1>1, <1>5, <1>6, RowType
<1>8. Len(events) \in Nat /\ Ids = 1 .. Len(events)
  BY <1>1 DEF TypeOK, Ids
<1>9. events' \in Seq(Rows) /\ Len(events') = Len(events)
  BY <1>2, <1>7, <1>8
<1>10. Ids' = Ids
  BY <1>9 DEF Ids
<1>11. \A k \in 1 .. Len(chosen) : events'[chosen[k]] = written(chosen[k])
  BY <1>2, <1>4, <1>6
<1>12. \A i \in Ids \ ToSet(chosen) : events'[i] = events[i]
  BY <1>2
<1>. QED
  BY <1>5, <1>9, <1>10, <1>11, <1>12

LEMMA InitChain == Init => ChainInv
<1>. SUFFICES ASSUME Init
              PROVE  ChainInv
  OBVIOUS
<1>1. fails \in 0 .. MaxFail
  BY IntegrityAssumption DEF Init
<1>. QED
  BY <1>1 DEF Init, ChainInv, TypeOK, Selected, GENESIS_HASH, Hashes, Contents

LEMMA StepChain == ChainInv /\ [Next]_vars => ChainInv'
<1>. SUFFICES ASSUME ChainInv, [Next]_vars
              PROVE  ChainInv'
  OBVIOUS
<1>1. TypeOK /\ Selected
  BY DEF ChainInv
<1>2. /\ events \in Seq(Rows) /\ last \in Hashes /\ chosen \in Seq(Ids)
      /\ pc \in {"sleep", "select", "commit"} /\ fails \in 0 .. MaxFail
  BY <1>1 DEF TypeOK, Rows
<1>3. CASE Ingest
  <2>1. /\ events' \in Seq(Rows) /\ Ids \subseteq Ids'
        /\ \A i \in Ids : events'[i] = events[i]
    BY <1>1, <1>3, IngestRows
  <2>2. UNCHANGED <<pc, last, chosen, fails>>
    BY <1>3 DEF Ingest
  <2>3. chosen' \in Seq(Ids')
    BY <1>2, <2>1, <2>2
  <2>4. Pending \subseteq Pending'
    BY <2>1 DEF Pending
  <2>5. Selected'
    BY <1>1, <2>2, <2>4 DEF Selected
  <2>. QED
    BY <1>2, <2>1, <2>2, <2>3, <2>5 DEF ChainInv, TypeOK, Rows
<1>4. CASE StartRun
  <2>1. /\ pc = "sleep" /\ pc' = "select" /\ last' = <<>>
        /\ UNCHANGED <<events, chosen, fails>>
    BY <1>4 DEF StartRun, RunStart, GENESIS_HASH
  <2>2. last' \in Hashes
    BY <2>1 DEF Hashes
  <2>3. Ids' = Ids /\ Pending' = Pending
    BY <2>1 DEF Ids, Pending
  <2>. QED
    BY <1>1, <1>2, <2>1, <2>2, <2>3 DEF ChainInv, TypeOK, Selected, Rows
<1>5. CASE Select
  <2>1. PICK b \in Batches :
          chosen' = b /\ pc' = IF b = <<>> THEN "sleep" ELSE "commit"
    BY <1>5 DEF Select
  <2>2. UNCHANGED <<events, last, fails>>
    BY <1>5 DEF Select
  <2>3. Ids' = Ids /\ Pending' = Pending
    BY <2>2 DEF Ids, Pending
  <2>4. /\ b \in Seq(Ids)
        /\ \A k \in 1 .. Len(b) : b[k] \in Pending
        /\ \A j, k \in 1 .. Len(b) : b[j] = b[k] => j = k
    BY <1>1, BatchType
  <2>5. Selected'
    BY <2>1, <2>3, <2>4 DEF Selected
  <2>. QED
    BY <1>2, <2>1, <2>2, <2>3, <2>4, <2>5 DEF ChainInv, TypeOK, Rows
<1>6. CASE Commit
  <2>1. events' \in Seq(Rows) /\ Ids' = Ids
    BY <1>6, CommitRows
  <2>2. /\ last' = Link(Len(chosen)) /\ chosen' = <<>> /\ fails' = fails
        /\ pc' = IF Len(chosen) < BatchLimit THEN "sleep" ELSE "select"
    BY <1>6 DEF Commit
  <2>3. Len(chosen) \in 0 .. Len(chosen)
    BY <1>1, ChosenType
  <2>4. last' \in Hashes
    BY <1>1, <2>2, <2>3, LinkType
  <2>5. Selected'
    BY <2>2 DEF Selected
  <2>. QED
    BY <1>2, <2>1, <2>2, <2>4, <2>5 DEF ChainInv, TypeOK, Rows
<1>7. CASE Fail
  <2>1. /\ fails < MaxFail /\ fails' = fails + 1 /\ pc' = "sleep" /\ chosen' = <<>>
        /\ UNCHANGED <<events, last>>
    BY <1>7 DEF Fail
  <2>2. fails' \in 0 .. MaxFail
    BY <1>2, <2>1, IntegrityAssumption
  <2>3. Ids' = Ids /\ Selected'
    BY <2>1 DEF Ids, Selected
  <2>. QED
    BY <1>2, <2>1, <2>2, <2>3 DEF ChainInv, TypeOK, Rows
<1>8. CASE UNCHANGED vars
  BY <1>1, <1>8 DEF vars, ChainInv, TypeOK, Selected, Ids, Pending
<1>. QED
  BY <1>3, <1>4, <1>5, <1>6, <1>7, <1>8 DEF Next

(* Rows, links, batches and the control state of the loop keep their types. *)
THEOREM ChainTypeCorrect == Spec => []TypeOK
<1>1. ChainInv => TypeOK
  BY DEF ChainInv
<1>. QED
  BY <1>1, InitChain, StepChain, PTL DEF Spec

(* A row that has a hash is in no batch, so nothing rewrites its hash, whatever
   is ingested before it in time and however often the loop starts again. *)
THEOREM HashesAreFinal == Spec => NeverRehashed
<1>1. ChainInv /\ [Next]_vars => [~Rehashed]_vars
  <2>. SUFFICES ASSUME ChainInv, [Next]_vars
                PROVE  ~Rehashed
    OBVIOUS
  <2>1. ASSUME NEW i \in Hashed
        PROVE  events'[i] = events[i]
    <3>1. i \in Ids /\ events[i].hash # NULL
      BY DEF Hashed
    <3>2. CASE Ingest
      BY <3>1, <3>2, IngestRows DEF ChainInv
    <3>3. CASE Commit
      <4>1. i \notin Pending
        BY <3>1 DEF Pending
      <4>2. i \notin ToSet(chosen)
        BY <4>1, ChosenType DEF ChainInv, Selected
      <4>. QED
        BY <3>1, <3>3, <4>2, CommitRows
    <3>4. CASE StartRun \/ Select \/ Fail \/ UNCHANGED vars
      BY <3>4 DEF StartRun, Select, Fail, vars
    <3>. QED
      BY <3>2, <3>3, <3>4 DEF Next
  <2>. QED
    BY <2>1 DEF Rehashed
<1>. QED
  BY <1>1, InitChain, StepChain, PTL DEF Spec, NeverRehashed

-----------------------------------------------------------------------------
(* What stands in a row's two columns. *)

(* verify_syslog_record succeeds on every row that has a hash. *)
Verifies ==
    \A i \in Hashed :
        /\ events[i].previous_hash \in Hashes
        /\ events[i].hash = compute_syslog_hash(events[i].previous_hash, events[i])

VerifyInv == ChainInv /\ Verifies

LEMMA InitVerifies == Init => VerifyInv
<1>1. Init => Verifies
  BY DEF Init, Verifies, Hashed, Ids
<1>. QED
  BY <1>1, InitChain DEF VerifyInv

LEMMA StepVerifies == VerifyInv /\ [Next]_vars => VerifyInv'
<1>. SUFFICES ASSUME VerifyInv, [Next]_vars
              PROVE  VerifyInv'
  OBVIOUS
<1>1. ChainInv' /\ ChainInv /\ TypeOK
  BY StepChain DEF VerifyInv, ChainInv
<1>2. ASSUME NEW i \in Hashed, events'[i] = events[i]
      PROVE  /\ events'[i].previous_hash \in Hashes
             /\ events'[i].hash = compute_syslog_hash(events'[i].previous_hash, events'[i])
  BY <1>2 DEF VerifyInv, Verifies
<1>3. CASE Ingest
  <2>1. ASSUME NEW i \in Hashed'
        PROVE  i \in Hashed /\ events'[i] = events[i]
    BY <1>1, <1>3, IngestRows DEF Hashed
  <2>. QED
    BY <1>1, <1>2, <2>1 DEF VerifyInv, Verifies, compute_syslog_hash, Content
<1>4. CASE Commit
  <2>1. ASSUME NEW i \in Hashed', i \notin ToSet(chosen)
        PROVE  i \in Hashed /\ events'[i] = events[i]
    BY <1>1, <1>4, <2>1, CommitRows DEF Hashed
  <2>2. ASSUME NEW k \in 1 .. Len(chosen)
        PROVE  /\ events'[chosen[k]].previous_hash \in Hashes
               /\ events'[chosen[k]].hash
                    = compute_syslog_hash(events'[chosen[k]].previous_hash, events'[chosen[k]])
    <3>1. /\ events'[chosen[k]].previous_hash = Link(k - 1)
          /\ events'[chosen[k]].hash = Link(k)
          /\ Content(events'[chosen[k]]) = Content(events[chosen[k]])
      BY <1>1, <1>4, CommitRows
    <3>2. Link(k) = compute_syslog_hash(Link(k - 1), events[chosen[k]])
      BY <1>1, LinkStep
    <3>3. k - 1 \in 0 .. Len(chosen)
      BY <1>1, ChosenType
    <3>4. Link(k - 1) \in Hashes
      BY <1>1, <3>3, LinkType
    <3>. QED
      BY <3>1, <3>2, <3>4 DEF compute_syslog_hash
  <2>3. ToSet(chosen) = {chosen[k] : k \in 1 .. Len(chosen)}
    BY <1>1, ChosenType
  <2>4. ASSUME NEW i \in Hashed'
        PROVE  /\ events'[i].previous_hash \in Hashes
               /\ events'[i].hash = compute_syslog_hash(events'[i].previous_hash, events'[i])
    BY <1>2, <2>1, <2>2, <2>3
  <2>. QED
    BY <1>1, <2>4 DEF VerifyInv, Verifies, compute_syslog_hash, Content
<1>5. CASE StartRun \/ Select \/ Fail \/ UNCHANGED vars
  <2>1. events' = events
    BY <1>5 DEF StartRun, Select, Fail, vars
  <2>2. Hashed' = Hashed
    BY <2>1 DEF Hashed, Ids
  <2>. QED
    BY <1>1, <2>1, <2>2 DEF VerifyInv, Verifies, compute_syslog_hash, Content
<1>. QED
  BY <1>3, <1>4, <1>5 DEF Next

(* Every hash the loop stores verifies, in every state that follows. *)
THEOREM HashesVerify == Spec => []Verifies
<1>1. VerifyInv => Verifies
  BY DEF VerifyInv
<1>. QED
  BY <1>1, InitVerifies, StepVerifies, PTL DEF Spec

-----------------------------------------------------------------------------
(* Chains do not split. *)

(* The run in progress is about to put a row after its last link. *)
Spare(h) == IF pc # "sleep" /\ last = h THEN 1 ELSE 0

(* Each row that has a hash leaves room for one row after it. *)
Room ==
    \A h \in Hashes \ {GENESIS_HASH} :
        Cardinality(After(h)) + Spare(h) <= Cardinality(WithHash(h))

ForkInv == VerifyInv /\ Room

(* Rows can be counted. *)
LEMMA ChainFinite ==
    ASSUME TypeOK, NEW h
    PROVE  /\ IsFiniteSet(After(h)) /\ Cardinality(After(h)) \in Nat
           /\ IsFiniteSet(WithHash(h)) /\ Cardinality(WithHash(h)) \in Nat
<1>1. Len(events) \in Nat
  BY DEF TypeOK
<1>2. IsFiniteSet(Ids)
  BY <1>1, FS_Interval DEF Ids
<1>3. After(h) \in SUBSET Ids /\ WithHash(h) \in SUBSET Ids
  BY DEF After, WithHash, Hashed
<1>. QED
  BY <1>2, <1>3, FS_Subset, FS_CardinalityType

(* The same of the state after a step. *)
LEMMA ChainFiniteNext ==
    ASSUME TypeOK', NEW h
    PROVE  /\ IsFiniteSet(After(h)') /\ Cardinality(After(h)') \in Nat
           /\ IsFiniteSet(WithHash(h)') /\ Cardinality(WithHash(h)') \in Nat
<1>1. Len(events') \in Nat
  BY DEF TypeOK
<1>2. IsFiniteSet(1 .. Len(events'))
  BY <1>1, FS_Interval
<1>3. After(h)' \in SUBSET (1 .. Len(events')) /\ WithHash(h)' \in SUBSET (1 .. Len(events'))
  BY DEF After, WithHash, Hashed, Ids
<1>. QED
  BY <1>2, <1>3, FS_Subset, FS_CardinalityType

(* A commit adds the record of each turn after the link before it, and with
   the link it computed. *)
LEMMA CommitSets ==
    ASSUME ChainInv, Commit, NEW h
    PROVE  /\ After(h)' \subseteq After(h)
                  \cup {chosen[k] : k \in {j \in 1 .. Len(chosen) : Link(j - 1) = h}}
           /\ WithHash(h) \subseteq WithHash(h)'
           /\ \A k \in 1 .. Len(chosen) :
                Link(k) = h => chosen[k] \in WithHash(h)' \ WithHash(h)
<1>1. TypeOK
  BY DEF ChainInv
<1>2. /\ Ids' = Ids
      /\ \A i \in Ids \ ToSet(chosen) : events'[i] = events[i]
      /\ \A k \in 1 .. Len(chosen) :
            /\ events'[chosen[k]].previous_hash = Link(k - 1)
            /\ events'[chosen[k]].hash = Link(k)
  BY CommitRows
<1>3. /\ ToSet(chosen) = {chosen[k] : k \in 1 .. Len(chosen)}
      /\ \A k \in 1 .. Len(chosen) : chosen[k] \in Ids
  BY <1>1, ChosenType
<1>4. \A k \in 1 .. Len(chosen) : chosen[k] \notin Hashed
  BY DEF ChainInv, Selected, Pending, Hashed
<1>5. \A i \in Hashed : i \in Hashed' /\ events'[i] = events[i]
  BY <1>2, <1>3, <1>4 DEF Hashed
<1>6. \A k \in 1 .. Len(chosen) : chosen[k] \in Hashed'
  <2>1. ASSUME NEW k \in 1 .. Len(chosen)
        PROVE  chosen[k] \in Hashed'
    <3>1. k \in 0 .. Len(chosen)
      BY <1>1, ChosenType
    <3>2. Link(k) # NULL
      BY <1>1, <3>1, LinkType, IntegrityAssumption
    <3>. QED
      BY <1>2, <1>3, <3>2 DEF Hashed
  <2>. QED
    BY <2>1
<1>7. \A i \in Hashed' : i \in Hashed \/ i \in ToSet(chosen)
  BY <1>2 DEF Hashed
<1>8. After(h)' \subseteq After(h)
                  \cup {chosen[k] : k \in {j \in 1 .. Len(chosen) : Link(j - 1) = h}}
  <2>1. ASSUME NEW i \in After(h)', i \notin After(h)
        PROVE  \E k \in 1 .. Len(chosen) : Link(k - 1) = h /\ i = chosen[k]
    <3>1. i \in Hashed' /\ events'[i].previous_hash = h
      BY DEF After
    <3>2. i \notin Hashed
      BY <1>5, <2>1, <3>1 DEF After
    <3>3. PICK k \in 1 .. Len(chosen) : i = chosen[k]
      BY <1>3, <1>7, <3>1, <3>2
    <3>. QED
      BY <1>2, <3>1, <3>3
  <2>. QED
    BY <2>1
<1>9. WithHash(h) \subseteq WithHash(h)'
  BY <1>5 DEF WithHash
<1>10. \A k \in 1 .. Len(chosen) : Link(k) = h => chosen[k] \in WithHash(h)' \ WithHash(h)
  BY <1>2, <1>4, <1>6 DEF WithHash
<1>. QED
  BY <1>8, <1>9, <1>10

(* Between commits no row moves and no run gains a link. *)
LEMMA RoomKept ==
    ASSUME ForkInv, NEW h \in Hashes \ {GENESIS_HASH},
           Ingest \/ StartRun \/ Select \/ Fail \/ UNCHANGED vars
    PROVE  After(h)' = After(h) /\ WithHash(h)' = WithHash(h) /\ Spare(h)' <= Spare(h)
<1>1. TypeOK
  BY DEF ForkInv, VerifyInv, ChainInv
<1>2. Hashed' = Hashed /\ \A i \in Hashed : events'[i] = events[i]
  <2>1. CASE Ingest
    BY <1>1, <2>1, IngestRows DEF Hashed
  <2>2. CASE StartRun \/ Select \/ Fail \/ UNCHANGED vars
    BY <2>2 DEF StartRun, Select, Fail, vars, Hashed, Ids
  <2>. QED
    BY <2>1, <2>2
<1>3. After(h)' = After(h) /\ WithHash(h)' = WithHash(h)
  BY <1>2 DEF After, WithHash
<1>4. Spare(h) \in {0, 1} /\ Spare(h)' \in {0, 1}
  BY DEF Spare
<1>5. Spare(h)' = 1 => Spare(h) = 1
  <2>1. CASE Ingest \/ UNCHANGED vars
    BY <2>1 DEF Ingest, vars, Spare
  <2>2. CASE StartRun
    BY <2>2 DEF StartRun, RunStart, Spare
  <2>3. CASE Select
    BY <2>3 DEF Select, Spare
  <2>4. CASE Fail
    BY <2>4 DEF Fail, Spare
  <2>. QED
    BY <2>1, <2>2, <2>3, <2>4
<1>. QED
  BY <1>3, <1>4, <1>5

(* A commit adds at most one row after each link, and only after a link it
   wrote itself or the one its run ended with before. *)
LEMMA RoomCommitted ==
    ASSUME ForkInv, TypeOK', Commit, NEW h \in Hashes \ {GENESIS_HASH}
    PROVE  Cardinality(After(h))' + Spare(h)' <= Cardinality(WithHash(h))'
<1>. DEFINE n == Len(chosen)
<1>1. ChainInv /\ TypeOK
  BY DEF ForkInv, VerifyInv, ChainInv
<1>2. n \in Nat \ {0}
  <2>1. chosen \in Seq(Ids) /\ chosen # <<>>
    BY <1>1 DEF ChainInv, Selected, TypeOK, Commit
  <2>. QED
    BY <2>1
<1>3. Spare(h)' \in {0, 1} /\ (Spare(h)' = 1 => Link(n) = h)
  <2>1. last' = Link(n)
    BY DEF Commit
  <2>. HIDE DEF n
  <2>. QED
    BY <2>1 DEF Spare
<1>4. Spare(h) \in {0, 1} /\ (Link(0) = h => Spare(h) = 1)
  <2>1. Link(0) = last /\ pc = "commit"
    BY <1>1, LinkStep DEF Commit
  <2>. QED
    BY <2>1 DEF Spare
<1>. DEFINE New == {chosen[k] : k \in {j \in 1 .. n : Link(j - 1) = h}}
<1>5. /\ After(h)' \subseteq After(h) \cup New
      /\ WithHash(h) \subseteq WithHash(h)'
      /\ \A k \in 1 .. n : Link(k) = h => chosen[k] \in WithHash(h)' \ WithHash(h)
  BY <1>1, CommitSets
<1>6. \A j, k \in 0 .. n : Link(j) = h /\ Link(k) = h => j = k
  BY <1>1, LinksDiffer
<1>7. /\ IsFiniteSet(After(h)) /\ Cardinality(After(h)) \in Nat
      /\ IsFiniteSet(WithHash(h)) /\ Cardinality(WithHash(h)) \in Nat
  BY <1>1, ChainFinite
<1>8. /\ IsFiniteSet(After(h)') /\ Cardinality(After(h)') \in Nat
      /\ IsFiniteSet(WithHash(h)') /\ Cardinality(WithHash(h)') \in Nat
  BY ChainFiniteNext
<1>9. Cardinality(WithHash(h)) <= Cardinality(WithHash(h)')
  BY <1>5, <1>8, FS_Subset
<1>10. Cardinality(After(h)) + Spare(h) <= Cardinality(WithHash(h))
  BY DEF ForkInv, Room
<1>11. ASSUME NEW k \in 1 .. n, Link(k) = h
       PROVE  Cardinality(WithHash(h)) + 1 <= Cardinality(WithHash(h)')
  <2>1. WithHash(h) \cup {chosen[k]} \subseteq WithHash(h)' /\ chosen[k] \notin WithHash(h)
    BY <1>5, <1>11
  <2>2. Cardinality(WithHash(h) \cup {chosen[k]}) = Cardinality(WithHash(h)) + 1
    BY <1>7, <2>1, FS_AddElement
  <2>. QED
    BY <1>8, <2>1, <2>2, FS_Subset
<1>12. ASSUME NEW k \in 1 .. n, Link(k - 1) = h
       PROVE  Cardinality(After(h)') <= Cardinality(After(h)) + 1
  <2>1. \A j \in 1 .. n : Link(j - 1) = h => j = k
    <3>1. ASSUME NEW j \in 1 .. n, Link(j - 1) = h
          PROVE  j = k
      <4>1. j - 1 \in 0 .. n /\ k - 1 \in 0 .. n
        BY <1>2
      <4>2. j - 1 = k - 1
        BY <1>6, <1>12, <3>1, <4>1
      <4>. QED
        BY <1>2, <4>2
    <3>. QED
      BY <3>1
  <2>2. After(h)' \subseteq After(h) \cup {chosen[k]}
    BY <1>5, <2>1
  <2>3. /\ IsFiniteSet(After(h) \cup {chosen[k]})
        /\ \/ Cardinality(After(h) \cup {chosen[k]}) = Cardinality(After(h))
           \/ Cardinality(After(h) \cup {chosen[k]}) = Cardinality(After(h)) + 1
    BY <1>7, FS_AddElement
  <2>4. Cardinality(After(h)') <= Cardinality(After(h) \cup {chosen[k]})
    BY <2>2, <2>3, FS_Subset
  <2>. QED
    BY <1>7, <1>8, <2>3, <2>4
<1>13. ASSUME \A k \in 1 .. n : Link(k - 1) # h
       PROVE  Cardinality(After(h)') <= Cardinality(After(h))
  <2>1. After(h)' \subseteq After(h)
    BY <1>5, <1>13
  <2>. QED
    BY <1>7, <2>1, FS_Subset
<1>. HIDE DEF New
<1>14. CASE Link(n) = h
  <2>1. \A k \in 1 .. n : Link(k - 1) # h
    <3>1. ASSUME NEW k \in 1 .. n, Link(k - 1) = h
          PROVE  FALSE
      <4>1. k - 1 \in 0 .. n /\ n \in 0 .. n /\ k - 1 # n
        BY <1>2
      <4>. QED
        BY <1>6, <1>14, <3>1, <4>1
    <3>. QED
      BY <3>1
  <2>2. Cardinality(After(h)') <= Cardinality(After(h))
    BY <1>13, <2>1
  <2>3. n \in 1 .. n
    BY <1>2
  <2>4. Cardinality(WithHash(h)) + 1 <= Cardinality(WithHash(h)')
    BY <1>11, <1>14, <2>3
  <2>. QED
    BY <1>3, <1>4, <1>7, <1>8, <1>10, <2>2, <2>4
<1>15. CASE Link(n) # h
  <2>1. Spare(h)' = 0
    BY <1>3, <1>15
  <2>2. CASE \A k \in 1 .. n : Link(k - 1) # h
    BY <1>4, <1>7, <1>8, <1>9, <1>10, <1>13, <2>1, <2>2
  <2>3. ASSUME NEW k \in 1 .. n, Link(k - 1) = h
        PROVE  Cardinality(After(h)') + Spare(h)' <= Cardinality(WithHash(h)')
    <3>1. Cardinality(After(h)') <= Cardinality(After(h)) + 1
      BY <1>12, <2>3
    <3>2. CASE k = 1
      <4>1. Spare(h) = 1
        BY <1>4, <2>3, <3>2
      <4>. QED
        BY <1>7, <1>8, <1>9, <1>10, <2>1, <3>1, <4>1
    <3>3. CASE k # 1
      <4>1. k - 1 \in 1 .. n
        BY <1>2, <3>3
      <4>2. Cardinality(WithHash(h)) + 1 <= Cardinality(WithHash(h)')
        BY <1>11, <2>3, <4>1
      <4>. QED
        BY <1>4, <1>7, <1>8, <1>10, <2>1, <3>1, <4>2
    <3>. QED
      BY <3>2, <3>3
  <2>. QED
    BY <2>2, <2>3
<1>. QED
  BY <1>14, <1>15

LEMMA StepRoom == ForkInv /\ [Next]_vars => ForkInv'
<1>. SUFFICES ASSUME ForkInv, [Next]_vars
              PROVE  ForkInv'
  OBVIOUS
<1>1. VerifyInv'
  BY StepVerifies DEF ForkInv
<1>2. ASSUME NEW h \in Hashes \ {GENESIS_HASH}
      PROVE  Cardinality(After(h))' + Spare(h)' <= Cardinality(WithHash(h))'
  <2>1. CASE Commit
    BY <1>1, <2>1, RoomCommitted DEF VerifyInv, ChainInv
  <2>2. CASE Ingest \/ StartRun \/ Select \/ Fail \/ UNCHANGED vars
    <3>1. After(h)' = After(h) /\ WithHash(h)' = WithHash(h) /\ Spare(h)' <= Spare(h)
      BY <2>2, RoomKept
    <3>2. Cardinality(After(h)) + Spare(h) <= Cardinality(WithHash(h))
      BY DEF ForkInv, Room
    <3>3. Cardinality(After(h)) \in Nat /\ Cardinality(WithHash(h)) \in Nat
      BY ChainFinite DEF ForkInv, VerifyInv, ChainInv
    <3>4. Spare(h) \in {0, 1} /\ Spare(h)' \in {0, 1}
      BY DEF Spare
    <3>. QED
      BY <3>1, <3>2, <3>3, <3>4
  <2>. QED
    BY <2>1, <2>2 DEF Next
<1>. QED
  BY <1>1, <1>2 DEF ForkInv, Room

(* Chains never split and never dangle: every previous_hash but the genesis
   hash is the hash of at least as many rows as name it. *)
THEOREM ChainsNeverFork == Spec => []NoFork
<1>1. Init => ForkInv
  <2>. SUFFICES ASSUME Init
                PROVE  ForkInv
    OBVIOUS
  <2>1. VerifyInv
    BY InitVerifies
  <2>2. ASSUME NEW h
        PROVE  After(h) = {} /\ WithHash(h) = {} /\ Spare(h) = 0
    BY DEF Init, After, WithHash, Hashed, Ids, Spare
  <2>. QED
    BY <2>1, <2>2, FS_EmptySet DEF ForkInv, Room
<1>2. ForkInv => NoFork
  <2>. SUFFICES ASSUME ForkInv, NEW i \in Hashed, events[i].previous_hash # GENESIS_HASH
                PROVE  Cardinality(After(events[i].previous_hash))
                         <= Cardinality(WithHash(events[i].previous_hash))
    BY DEF NoFork
  <2>1. events[i].previous_hash \in Hashes
    BY DEF ForkInv, VerifyInv, Verifies
  <2>. DEFINE h == events[i].previous_hash
  <2>2. Cardinality(After(h)) + Spare(h) <= Cardinality(WithHash(h))
    BY <2>1 DEF ForkInv, Room
  <2>3. Cardinality(After(h)) \in Nat /\ Cardinality(WithHash(h)) \in Nat
    BY ChainFinite DEF ForkInv, VerifyInv, ChainInv
  <2>4. Spare(h) \in {0, 1}
    BY DEF Spare
  <2>. HIDE DEF h
  <2>5. Cardinality(After(h)) <= Cardinality(WithHash(h))
    BY <2>2, <2>3, <2>4
  <2>. QED
    BY <2>5 DEF h
<1>. QED
  BY <1>1, <1>2, StepRoom, PTL DEF Spec
=============================================================================
