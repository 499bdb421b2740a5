------------------------- MODULE SyslogForwarderProofs -------------------------
(***************************************************************************)
(* Theorems about SyslogForwarder, for any messages, batch size and bounds *)
(* on failures: the buffer never holds a message twice, a message has      *)
(* another row only after a failed post, and the forwarder implements      *)
(* SyslogChannel.                                                          *)
(***************************************************************************)
EXTENDS SyslogForwarder, FiniteSetTheorems, SequenceTheorems, TLAPS

-----------------------------------------------------------------------------
(* Counting the elements of a sequence that lie in a set. *)

Places(s, V) == {i \in DOMAIN s : s[i] \in V}
Count(s, V) == Cardinality(Places(s, V))

(* Counts are numbers. *)
LEMMA CountNat ==
    ASSUME NEW S, NEW s \in Seq(S), NEW V
    PROVE  IsFiniteSet(Places(s, V)) /\ Count(s, V) \in Nat
<1>1. IsFiniteSet(1 .. Len(s))
  BY FS_Interval
<1>2. Places(s, V) \in SUBSET (1 .. Len(s))
  BY DEF Places
<1>3. IsFiniteSet(Places(s, V))
  BY <1>1, <1>2, FS_Subset
<1>. QED
  BY <1>3, FS_CardinalityType DEF Count

(* Nothing is counted just when there is nothing. *)
LEMMA CountZero ==
    ASSUME NEW S, NEW s \in Seq(S), NEW V
    PROVE  Count(s, V) = 0 <=> \A i \in DOMAIN s : s[i] \notin V
<1>1. Count(s, V) = 0 <=> Places(s, V) = {}
  BY CountNat, FS_EmptySet DEF Count
<1>. QED
  BY <1>1 DEF Places

(* The empty sequence counts nothing. *)
LEMMA CountEmpty ==
    ASSUME NEW V
    PROVE  Count(<<>>, V) = 0
<1>1. Places(<<>>, V) = {}
  BY DEF Places
<1>. QED
  BY <1>1, FS_EmptySet DEF Count

(* A set shifted by a number is as large as it was. *)
LEMMA ShiftedCardinality ==
    ASSUME NEW A \in SUBSET Nat, IsFiniteSet(A), NEW n \in Nat
    PROVE  /\ IsFiniteSet({a + n : a \in A})
           /\ Cardinality({a + n : a \in A}) = Cardinality(A)
<1>. DEFINE B == {a + n : a \in A}
            f == [a \in A |-> a + n]
<1>1. f \in [A -> B]
  OBVIOUS
<1>2. \A a, b \in A : f[a] = f[b] => a = b
  OBVIOUS
<1>3. \A b \in B : \E a \in A : f[a] = b
  OBVIOUS
<1>4. f \in Bijection(A, B)
  BY <1>1, <1>2, <1>3 DEF Bijection, Injection, Surjection, IsInjective
<1>. QED
  BY <1>4, FS_Bijection DEF ExistsBijection

(* Concatenation adds the counts. *)
LEMMA CountConcat ==
    ASSUME NEW S, NEW s \in Seq(S), NEW t \in Seq(S), NEW V
    PROVE  Count(s \o t, V) = Count(s, V) + Count(t, V)
<1>. DEFINE shifted == {i + Len(s) : i \in Places(t, V)}
<1>1. /\ s \o t \in Seq(S)
      /\ Len(s \o t) = Len(s) + Len(t)
      /\ \A i \in 1 .. Len(s) + Len(t) :
            (s \o t)[i] = IF i <= Len(s) THEN s[i] ELSE t[i - Len(s)]
  BY ConcatProperties
<1>2. Places(s \o t, V) \subseteq Places(s, V) \cup shifted
  <2>. SUFFICES ASSUME NEW i \in Places(s \o t, V), i \notin Places(s, V)
                PROVE  i \in shifted
    OBVIOUS
  <2>1. i \in 1 .. Len(s) + Len(t) /\ (s \o t)[i] \in V
    BY <1>1 DEF Places
  <2>2. ~(i <= Len(s))
    BY <1>1, <2>1 DEF Places
  <2>3. i - Len(s) \in 1 .. Len(t) /\ t[i - Len(s)] \in V
    BY <1>1, <2>1, <2>2
  <2>4. i - Len(s) \in Places(t, V)
    BY <2>3 DEF Places
  <2>5. i = (i - Len(s)) + Len(s)
    BY <2>1
  <2>. QED
    BY <2>4, <2>5
<1>3. Places(s, V) \subseteq Places(s \o t, V)
  BY <1>1 DEF Places
<1>4. shifted \subseteq Places(s \o t, V)
  BY <1>1 DEF Places
<1>5. Places(s, V) \cap shifted = {}
  BY DEF Places
<1>6. Places(s \o t, V) = Places(s, V) \cup shifted
  BY <1>2, <1>3, <1>4
<1>7. Places(t, V) \in SUBSET Nat
  BY DEF Places
<1>8. IsFiniteSet(shifted) /\ Cardinality(shifted) = Count(t, V)
  <2>1. IsFiniteSet(Places(t, V)) /\ Len(s) \in Nat
    BY CountNat
  <2>. QED
    BY <1>7, <2>1, ShiftedCardinality DEF Count
<1>9. Cardinality(Places(s, V) \cup shifted)
        = Cardinality(Places(s, V)) + Cardinality(shifted)
          - Cardinality(Places(s, V) \cap shifted)
  BY <1>8, CountNat, FS_Union
<1>10. Cardinality(Places(s, V) \cap shifted) = 0
  BY <1>5, FS_EmptySet
<1>. QED
  BY <1>6, <1>8, <1>9, <1>10, CountNat DEF Count

(* A sequence of one element counts it or not. *)
LEMMA CountSingle ==
    ASSUME NEW e, NEW V
    PROVE  Count(<<e>>, V) = IF e \in V THEN 1 ELSE 0
<1>1. CASE e \in V
  <2>1. Places(<<e>>, V) = {1}
    BY <1>1 DEF Places
  <2>. QED
    BY <1>1, <2>1, FS_Singleton DEF Count
<1>2. CASE e \notin V
  <2>1. Places(<<e>>, V) = {}
    BY <1>2 DEF Places
  <2>. QED
    BY <1>2, <2>1, FS_EmptySet DEF Count
<1>. QED
  BY <1>1, <1>2

(* Append adds one or nothing. *)
LEMMA CountAppend ==
    ASSUME NEW S, NEW s \in Seq(S), NEW e \in S, NEW V
    PROVE  Count(Append(s, e), V) = Count(s, V) + (IF e \in V THEN 1 ELSE 0)
<1>1. Append(s, e) = s \o <<e>>
  BY AppendIsConcat
<1>2. <<e>> \in Seq(S)
  OBVIOUS
<1>3. Count(s \o <<e>>, V) = Count(s, V) + Count(<<e>>, V)
  BY <1>2, CountConcat
<1>. QED
  BY <1>1, <1>3, CountSingle

(* What RemoveAt leaves, and what it takes away. *)
LEMMA CountRemoveAt ==
    ASSUME NEW S, NEW s \in Seq(S), NEW k \in DOMAIN s, NEW V
    PROVE  /\ RemoveAt(s, k) \in Seq(S)
           /\ \A i \in DOMAIN RemoveAt(s, k) : \E j \in DOMAIN s : RemoveAt(s, k)[i] = s[j]
           /\ Count(s, V) = Count(RemoveAt(s, k), V) + (IF s[k] \in V THEN 1 ELSE 0)
<1>. DEFINE a == SubSeq(s, 1, k - 1)
            b == SubSeq(s, k + 1, Len(s))
<1>0. k \in 1 .. Len(s) /\ Len(s) \in Nat
  OBVIOUS
<1>1. a \in Seq(S) /\ Len(a) = k - 1 /\ \A i \in 1 .. k - 1 : a[i] = s[i]
  <2>1. \A i \in 1 .. k - 1 : s[i] \in S
    BY <1>0
  <2>. QED
    BY <1>0, <2>1, SubSeqProperties
<1>2. b \in Seq(S) /\ Len(b) = Len(s) - k /\ \A i \in 1 .. Len(s) - k : b[i] = s[k + i]
  <2>1. \A i \in k + 1 .. Len(s) : s[i] \in S
    BY <1>0
  <2>2. /\ b \in Seq(S)
        /\ Len(b) = IF k + 1 <= Len(s) THEN Len(s) - (k + 1) + 1 ELSE 0
        /\ \A i \in 1 .. Len(s) - (k + 1) + 1 : b[i] = s[k + 1 + i - 1]
    BY <1>0, <2>1, SubSeqProperties
  <2>. QED
    BY <1>0, <2>2
<1>3. RemoveAt(s, k) = a \o b
  BY DEF RemoveAt
<1>. HIDE DEF a, b
<1>4. RemoveAt(s, k) \in Seq(S)
  BY <1>1, <1>2, <1>3
<1>5. \A i \in DOMAIN RemoveAt(s, k) : \E j \in DOMAIN s : RemoveAt(s, k)[i] = s[j]
  <2>. SUFFICES ASSUME NEW i \in DOMAIN (a \o b)
                PROVE  \E j \in DOMAIN s : (a \o b)[i] = s[j]
    BY <1>3
  <2>1. /\ i \in 1 .. (k - 1) + (Len(s) - k)
        /\ (a \o b)[i] = IF i <= k - 1 THEN a[i] ELSE b[i - (k - 1)]
    <3>1. /\ Len(a \o b) = Len(a) + Len(b)
          /\ \A n \in 1 .. Len(a) + Len(b) :
                (a \o b)[n] = IF n <= Len(a) THEN a[n] ELSE b[n - Len(a)]
      BY <1>1, <1>2, ConcatProperties
    <3>2. i \in 1 .. (k - 1) + (Len(s) - k)
      BY <1>0, <1>1, <1>2, <3>1
    <3>. QED
      BY <1>0, <1>1, <1>2, <3>1, <3>2
  <2>2. CASE i <= k - 1
    BY <1>0, <1>1, <2>1, <2>2
  <2>3. CASE ~(i <= k - 1)
    <3>1. i - (k - 1) \in 1 .. Len(s) - k
      BY <1>0, <2>1, <2>3
    <3>2. b[i - (k - 1)] = s[k + (i - (k - 1))] /\ k + (i - (k - 1)) \in DOMAIN s
      BY <1>0, <1>2, <3>1
    <3>. QED
      BY <2>1, <2>3, <3>2
  <2>. QED
    BY <2>2, <2>3
<1>6. s = (a \o <<s[k]>>) \o b
  <2>. DEFINE d == a \o <<s[k]>>
              c == d \o b
  <2>1. <<s[k]>> \in Seq(S) /\ Len(<<s[k]>>) = 1 /\ <<s[k]>>[1] = s[k]
    BY <1>0
  <2>2. /\ d \in Seq(S) /\ Len(d) = k
        /\ \A i \in 1 .. k : d[i] = s[i]
    BY <1>0, <1>1, <2>1
  <2>. HIDE DEF d
  <2>3. /\ c \in Seq(S) /\ Len(c) = Len(d) + Len(b)
        /\ \A i \in 1 .. Len(d) + Len(b) : c[i] = IF i <= Len(d) THEN d[i] ELSE b[i - Len(d)]
    BY <1>2, <2>2, ConcatProperties
  <2>4. Len(d) + Len(b) = Len(s)
    BY <1>0, <1>2, <2>2
  <2>. HIDE DEF c
  <2>5. \A i \in 1 .. Len(s) : s[i] = c[i]
    <3>. SUFFICES ASSUME NEW i \in 1 .. Len(s)
                  PROVE  s[i] = c[i]
      OBVIOUS
    <3>1. CASE i <= k
      BY <1>0, <2>2, <2>3, <2>4, <3>1
    <3>2. CASE ~(i <= k)
      <4>1. i - k \in 1 .. Len(s) - k
        BY <1>0, <3>2
      <4>2. b[i - k] = s[k + (i - k)] /\ k + (i - k) = i
        BY <1>0, <1>2, <4>1
      <4>. QED
        BY <1>0, <2>2, <2>3, <2>4, <3>2, <4>2
    <3>. QED
      BY <3>1, <3>2
  <2>6. s = c
    BY <2>3, <2>4, <2>5, SeqEqual
  <2>. QED
    BY <2>6 DEF c, d
<1>7. <<s[k]>> \in Seq(S) /\ a \o <<s[k]>> \in Seq(S)
  BY <1>0, <1>1
<1>8. Count(s, V) = (Count(a, V) + Count(<<s[k]>>, V)) + Count(b, V)
  <2>1. Count((a \o <<s[k]>>) \o b, V) = Count(a \o <<s[k]>>, V) + Count(b, V)
    BY <1>2, <1>7, CountConcat
  <2>2. Count(a \o <<s[k]>>, V) = Count(a, V) + Count(<<s[k]>>, V)
    BY <1>1, <1>7, CountConcat
  <2>3. Count(s, V) = Count((a \o <<s[k]>>) \o b, V)
    BY <1>6
  <2>. QED
    BY <2>1, <2>2, <2>3
<1>9. Count(a \o b, V) = Count(a, V) + Count(b, V)
  BY <1>1, <1>2, CountConcat
<1>10. Count(a, V) \in Nat /\ Count(b, V) \in Nat
  BY <1>1, <1>2, CountNat
<1>11. Count(<<s[k]>>, V) = IF s[k] \in V THEN 1 ELSE 0
  BY CountSingle
<1>. QED
  BY <1>3, <1>4, <1>5, <1>8, <1>9, <1>10, <1>11

(* A sequence that shows an element at most once counts its presence. *)
Held(s, m) == IF m \in ToSet(s) THEN 1 ELSE 0

LEMMA CountOnce ==
    ASSUME NEW S, NEW s \in Seq(S), NEW m, Count(s, {m}) <= 1
    PROVE  Count(s, {m}) = Held(s, m)
<1>1. Count(s, {m}) \in Nat
  BY CountNat
<1>2. Count(s, {m}) = 0 <=> m \notin ToSet(s)
  BY CountZero DEF ToSet
<1>. QED
  BY <1>1, <1>2 DEF Held

(* SetToSeq lists the elements of a finite set, each once. *)
LEMMA SetToSeqCount ==
    ASSUME NEW S, NEW B \in SUBSET S, IsFiniteSet(B), NEW V
    PROVE  /\ SetToSeq(B) \in Seq(S)
           /\ \A i \in DOMAIN SetToSeq(B) : SetToSeq(B)[i] \in B
           /\ Count(SetToSeq(B), V) <= Cardinality(B \cap V)
<1>. DEFINE n == Cardinality(B)
            f == SetToSeq(B)
            g == [i \in Places(f, V) |-> f[i]]
<1>1. n \in Nat /\ \E h \in [1 .. n -> B] : IsInjective(h)
  BY FS_CardinalityType DEF ExistsBijection, Bijection, Injection
<1>2. f \in [1 .. n -> B] /\ IsInjective(f)
  BY <1>1 DEF SetToSeq
<1>. HIDE DEF f, n
<1>3. f \in Seq(S)
  BY <1>1, <1>2
<1>4. IsFiniteSet(B \cap V)
  BY FS_Intersection
<1>5. g \in Injection(Places(f, V), B \cap V)
  BY <1>2 DEF Injection, IsInjective, Places
<1>6. Cardinality(Places(f, V)) <= Cardinality(B \cap V)
  BY <1>4, <1>5, FS_Injection
<1>. QED
  BY <1>2, <1>3, <1>6 DEF Count, f

-----------------------------------------------------------------------------
(* Type correctness. *)

(* The threads are two, so what they hold can be counted. *)
LEMMA ThreadsFinite == IsFiniteSet(Threads)
<1>1. Threads = {"main"} \cup {"worker"}
  BY DEF Threads
<1>2. IsFiniteSet({"main"}) /\ IsFiniteSet({"worker"})
  BY FS_Singleton
<1>. QED
  BY <1>1, <1>2, FS_Union

(* The batches that are being posted. *)
Posted == {batch[t] : t \in {x \in Threads : pc[x] = "post"}}

LEMMA PostedFinite ==
    ASSUME TypeOK
    PROVE  Posted \in SUBSET Seq(Messages) /\ IsFiniteSet(Posted)
<1>. DEFINE P == {x \in Threads : pc[x] = "post"}
            f == [t \in P |-> batch[t]]
<1>1. IsFiniteSet(P)
  BY ThreadsFinite, FS_Subset
<1>2. f \in Surjection(P, Posted)
  BY DEF Surjection, Posted
<1>3. IsFiniteSet(Posted)
  BY <1>1, <1>2, FS_Surjection
<1>. QED
  BY <1>3 DEF Posted, TypeOK

(* POST /syslog/ingest adds what the batch counts. *)
LEMMA IngestCounts ==
    ASSUME TypeOK, NEW b \in Seq(Messages), Ingest(b)
    PROVE  /\ copies' \in [Messages -> Nat]
           /\ \A m \in Messages : copies'[m] = copies[m] + Count(b, {m})
<1>1. \A m \in Messages : {i \in DOMAIN b : b[i] = m} = Places(b, {m})
  BY DEF Places
<1>2. copies' = [m \in Messages |-> copies[m] + Count(b, {m})]
  BY <1>1 DEF Ingest, Count
<1>3. \A m \in Messages : Count(b, {m}) \in Nat
  BY CountNat
<1>4. copies \in [Messages -> Nat]
  BY DEF TypeOK
<1>. QED
  BY <1>2, <1>3, <1>4

LEMMA InitType == Init => TypeOK
BY ForwarderAssumption DEF Init, TypeOK, Threads

(* Every step of the threads, the devices and the backend keeps the types. *)
LEMMA StepType == TypeOK /\ [Next]_vars => TypeOK'
<1>. SUFFICES ASSUME TypeOK, [Next]_vars
              PROVE  TypeOK'
  OBVIOUS
<1>. USE DEF TypeOK
<1>1. CASE \E m \in Messages : Send(m)
  BY <1>1 DEF Send
<1>2. CASE Receive
  BY <1>2 DEF Receive, Threads
<1>3. CASE Wake
  BY <1>3 DEF Wake, Threads
<1>4. CASE Settle
  <2>1. PICK i \in DOMAIN limbo :
            /\ limbo' = RemoveAt(limbo, i)
            /\ Ingest(limbo[i]) \/ UNCHANGED copies
    BY <1>4 DEF Settle
  <2>2. limbo' \in Seq(Seq(Messages))
    BY <2>1, CountRemoveAt
  <2>3. limbo[i] \in Seq(Messages)
    BY <2>1
  <2>4. copies' \in [Messages -> Nat]
    BY <2>1, <2>3, IngestCounts
  <2>. QED
    BY <1>4, <2>2, <2>4 DEF Settle
<1>5. CASE CrashForwarder
  <2>1. SetToSeq(Posted) \in Seq(Seq(Messages))
    BY PostedFinite, SetToSeqCount
  <2>2. limbo' = limbo \o SetToSeq(Posted)
    BY <1>5 DEF CrashForwarder, Posted
  <2>3. limbo' \in Seq(Seq(Messages))
    BY <2>1, <2>2
  <2>4. crashes' \in 0 .. MaxCrash
    BY <1>5, ForwarderAssumption DEF CrashForwarder
  <2>5. buffer' \in Seq(Messages) /\ batch' \in [Threads -> Seq(Messages)]
    BY <1>5 DEF CrashForwarder
  <2>6. pc' \in [Threads -> {"idle", "flush", "post", "requeue"}]
    BY <1>5 DEF CrashForwarder
  <2>. QED
    BY <1>5, <2>3, <2>4, <2>5, <2>6 DEF CrashForwarder
<1>6. ASSUME NEW t \in Threads, Take(t)
      PROVE  TypeOK'
  <2>1. buffer' \in Seq(Messages) /\ batch' \in [Threads -> Seq(Messages)]
    <3>1. CASE buffer = <<>>
      BY <1>6, <3>1 DEF Take
    <3>2. CASE buffer # <<>>
      <4>1. buffer' = <<>> /\ batch' = [batch EXCEPT ![t] = buffer]
        BY <1>6, <3>2 DEF Take, TakeAll
      <4>. QED
        BY <4>1
    <3>. QED
      BY <3>1, <3>2
  <2>2. pc' \in [Threads -> {"idle", "flush", "post", "requeue"}]
    BY <1>6 DEF Take
  <2>. QED
    BY <1>6, <2>1, <2>2 DEF Take
<1>7. ASSUME NEW t \in Threads, Accepted(t)
      PROVE  TypeOK'
  <2>1. copies' \in [Messages -> Nat]
    BY <1>7, IngestCounts DEF Accepted
  <2>. QED
    BY <1>7, <2>1 DEF Accepted
<1>8. ASSUME NEW t \in Threads, Refused(t)
      PROVE  TypeOK'
  BY <1>8, ForwarderAssumption DEF Refused
<1>9. ASSUME NEW t \in Threads, TimedOut(t)
      PROVE  TypeOK'
  BY <1>9, ForwarderAssumption DEF TimedOut
<1>10. ASSUME NEW t \in Threads, Requeue(t)
       PROVE  TypeOK'
  <2>1. buffer' = buffer \o batch[t]
    BY <1>10 DEF Requeue, Requeued
  <2>. QED
    BY <1>10, <2>1 DEF Requeue
<1>11. CASE UNCHANGED vars
  BY <1>11 DEF vars
<1>. QED
  BY <1>1, <1>2, <1>3, <1>4, <1>5, <1>6, <1>7, <1>8, <1>9, <1>10, <1>11 DEF Next

(* The variables keep their types: flush_buffer never mixes up a message and
   a batch, and every batch that outlives its post is a list of messages. *)
THEOREM ForwarderTypeCorrect == Spec => []TypeOK
<1>. QED
  BY InitType, StepType, PTL DEF Spec

-----------------------------------------------------------------------------
(* The inductive invariant. *)

Holders(bat, m) == {t \in Threads : m \in ToSet(bat[t])}
With(m) == {b \in Seq(Messages) : m \in ToSet(b)}

(* A thread has a batch only from Take to the end of its post. *)
Phases == \A t \in Threads : pc[t] \in {"idle", "flush"} => batch[t] = <<>>

(* A message that was not read is nowhere; one that was is not read again. *)
ReadFirst ==
    /\ socket \cap read = {}
    /\ \A m \in Messages \ read :
          Copies(m) = 0 /\ copies[m] = 0 /\ Cardinality(Unsettled(m)) = 0

(* No batch shows a message twice, whoever has it. *)
OnceEach ==
    \A m \in Messages :
        /\ \A t \in Threads : Count(batch[t], {m}) <= 1
        /\ \A i \in DOMAIN limbo : Count(limbo[i], {m}) <= 1

IInv == TypeOK /\ Phases /\ ReadFirst /\ OnceEach /\ HeldOnce /\ DuplicateNeedsFailure

-----------------------------------------------------------------------------
(* How what the forwarder holds is counted, and what its steps change. *)

(* Copies and Unsettled in terms of Count, for this state and the next. *)
LEMMA CopiesCounted ==
    ASSUME TypeOK, NEW m \in Messages
    PROVE  /\ Copies(m) = Count(buffer, {m}) + Cardinality(Holders(batch, m))
           /\ Cardinality(Unsettled(m)) = Count(limbo, With(m))
<1>1. {i \in DOMAIN buffer : buffer[i] = m} = Places(buffer, {m})
  BY DEF Places
<1>2. Unsettled(m) = Places(limbo, With(m))
  BY DEF Places, Unsettled, With, TypeOK
<1>. QED
  BY <1>1, <1>2 DEF Copies, Holders, Count

LEMMA CopiesCountedNext ==
    ASSUME TypeOK', NEW m \in Messages
    PROVE  /\ Copies(m)' = Count(buffer', {m}) + Cardinality(Holders(batch', m))
           /\ Cardinality(Unsettled(m))' = Count(limbo', With(m))
<1>1. {i \in DOMAIN buffer' : buffer'[i] = m} = Places(buffer', {m})
  BY DEF Places
<1>2. Unsettled(m)' = Places(limbo', With(m))
  BY DEF Places, Unsettled, With, TypeOK
<1>. QED
  BY <1>1, <1>2 DEF Copies, Holders, Count

LEMMA HoldersFinite ==
    ASSUME NEW bat, NEW m
    PROVE  IsFiniteSet(Holders(bat, m)) /\ Cardinality(Holders(bat, m)) \in Nat
<1>1. Holders(bat, m) \in SUBSET Threads
  BY DEF Holders
<1>. QED
  BY <1>1, ThreadsFinite, FS_Subset, FS_CardinalityType

(* A thread that takes a batch holds its messages, *)
LEMMA BatchFilled ==
    ASSUME NEW bat \in [Threads -> Seq(Messages)], NEW t \in Threads, bat[t] = <<>>,
           NEW b \in Seq(Messages), NEW m
    PROVE  Cardinality(Holders([bat EXCEPT ![t] = b], m))
             = Cardinality(Holders(bat, m)) + Held(b, m)
<1>1. t \notin Holders(bat, m)
  BY DEF Holders, ToSet
<1>2. CASE m \in ToSet(b)
  <2>1. Holders([bat EXCEPT ![t] = b], m) = Holders(bat, m) \cup {t}
    BY <1>2 DEF Holders
  <2>2. Cardinality(Holders(bat, m) \cup {t}) = Cardinality(Holders(bat, m)) + 1
    BY <1>1, HoldersFinite, FS_AddElement
  <2>. QED
    BY <1>2, <2>1, <2>2 DEF Held
<1>3. CASE m \notin ToSet(b)
  <2>1. Holders([bat EXCEPT ![t] = b], m) = Holders(bat, m)
    BY <1>1, <1>3 DEF Holders
  <2>. QED
    BY <1>3, <2>1, HoldersFinite DEF Held
<1>. QED
  BY <1>2, <1>3

(* and one that drops its batch no longer does. *)
LEMMA BatchCleared ==
    ASSUME NEW bat \in [Threads -> Seq(Messages)], NEW t \in Threads, NEW m
    PROVE  Cardinality(Holders([bat EXCEPT ![t] = <<>>], m))
             = Cardinality(Holders(bat, m)) - Held(bat[t], m)
<1>1. Holders([bat EXCEPT ![t] = <<>>], m) = Holders(bat, m) \ {t}
  BY DEF Holders, ToSet
<1>2. Cardinality(Holders(bat, m) \ {t})
        = IF t \in Holders(bat, m) THEN Cardinality(Holders(bat, m)) - 1
          ELSE Cardinality(Holders(bat, m))
  BY HoldersFinite, FS_RemoveElement
<1>3. t \in Holders(bat, m) <=> m \in ToSet(bat[t])
  BY DEF Holders
<1>4. Cardinality(Holders(bat, m)) \in Nat
  BY HoldersFinite
<1>5. CASE m \in ToSet(bat[t])
  BY <1>1, <1>2, <1>3, <1>5 DEF Held
<1>6. CASE m \notin ToSet(bat[t])
  <2>1. Holders([bat EXCEPT ![t] = <<>>], m) = Holders(bat, m)
    BY <1>1, <1>3, <1>6
  <2>2. Held(bat[t], m) = 0
    BY <1>6 DEF Held
  <2>. QED
    BY <1>4, <2>1, <2>2
<1>. QED
  BY <1>5, <1>6

(* Every number the invariant adds up is a natural number. *)
LEMMA LedgerNat ==
    ASSUME TypeOK, NEW m \in Messages
    PROVE  /\ Count(buffer, {m}) \in Nat /\ Cardinality(Holders(batch, m)) \in Nat
           /\ Copies(m) \in Nat
           /\ Count(limbo, With(m)) \in Nat
           /\ Cardinality(Unsettled(m)) \in Nat
           /\ copies[m] \in Nat
           /\ fails \in Nat
<1>1. Count(buffer, {m}) \in Nat
  BY CountNat DEF TypeOK
<1>2. Count(limbo, With(m)) \in Nat
  BY CountNat DEF TypeOK
<1>3. copies[m] \in Nat /\ fails \in Nat
  BY ForwarderAssumption DEF TypeOK
<1>. QED
  BY <1>1, <1>2, <1>3, HoldersFinite, CopiesCounted

(* flush_buffer moves the buffer into the batch of its thread, *)
LEMMA TakeMoves ==
    ASSUME IInv, TypeOK', NEW t \in Threads, Take(t), NEW m \in Messages
    PROVE  /\ Copies(m)' = Copies(m)
           /\ \A x \in Threads : Count(batch'[x], {m}) <= 1
<1>. USE DEF IInv
<1>1. /\ Copies(m) = Count(buffer, {m}) + Cardinality(Holders(batch, m))
      /\ Copies(m)' = Count(buffer', {m}) + Cardinality(Holders(batch', m))
  BY CopiesCounted, CopiesCountedNext
<1>2. CASE buffer = <<>>
  <2>1. buffer' = buffer /\ batch' = batch
    BY <1>2 DEF Take
  <2>. QED
    BY <1>1, <2>1 DEF OnceEach
<1>3. CASE buffer # <<>>
  <2>1. buffer' = <<>> /\ batch' = [batch EXCEPT ![t] = buffer]
    BY <1>3 DEF Take, TakeAll
  <2>2. batch \in [Threads -> Seq(Messages)] /\ buffer \in Seq(Messages)
    BY DEF TypeOK
  <2>3. batch[t] = <<>>
    BY DEF Phases, Take
  <2>4. Count(buffer, {m}) <= 1
    BY <1>1, LedgerNat DEF HeldOnce
  <2>5. Count(buffer, {m}) = Held(buffer, m)
    BY <2>2, <2>4, CountOnce
  <2>6. Cardinality(Holders(batch', m)) = Cardinality(Holders(batch, m)) + Held(buffer, m)
    BY <2>1, <2>2, <2>3, BatchFilled
  <2>7. Count(buffer', {m}) = 0
    BY <2>1, CountEmpty
  <2>8. Copies(m)' = Copies(m)
    BY <1>1, <2>5, <2>6, <2>7, LedgerNat
  <2>9. \A x \in Threads : Count(batch'[x], {m}) <= 1
    BY <2>1, <2>2, <2>4 DEF OnceEach
  <2>. QED
    BY <2>8, <2>9
<1>. QED
  BY <1>2, <1>3

(* and Requeue puts it back. *)
LEMMA RequeueMoves ==
    ASSUME IInv, TypeOK', NEW t \in Threads, Requeue(t), NEW m \in Messages
    PROVE  /\ Copies(m)' = Copies(m)
           /\ \A x \in Threads : Count(batch'[x], {m}) <= 1
<1>. USE DEF IInv
<1>1. /\ Copies(m) = Count(buffer, {m}) + Cardinality(Holders(batch, m))
      /\ Copies(m)' = Count(buffer', {m}) + Cardinality(Holders(batch', m))
  BY CopiesCounted, CopiesCountedNext
<1>2. buffer' = buffer \o batch[t] /\ batch' = [batch EXCEPT ![t] = <<>>]
  BY DEF Requeue, Requeued
<1>3. batch \in [Threads -> Seq(Messages)] /\ buffer \in Seq(Messages)
  BY DEF TypeOK
<1>4. Count(buffer', {m}) = Count(buffer, {m}) + Count(batch[t], {m})
  BY <1>2, <1>3, CountConcat
<1>5. Count(batch[t], {m}) = Held(batch[t], m)
  BY <1>3, CountOnce DEF OnceEach
<1>6. Cardinality(Holders(batch', m)) = Cardinality(Holders(batch, m)) - Held(batch[t], m)
  BY <1>2, <1>3, BatchCleared
<1>7. Copies(m)' = Copies(m)
  BY <1>1, <1>4, <1>5, <1>6, LedgerNat DEF Held
<1>8. \A x \in Threads : Count(batch'[x], {m}) <= 1
  <2>1. Count(<<>>, {m}) = 0
    BY CountEmpty
  <2>2. \A x \in Threads : batch'[x] = <<>> \/ batch'[x] = batch[x]
    BY <1>2, <1>3
  <2>3. \A x \in Threads : Count(batch[x], {m}) <= 1
    BY DEF OnceEach
  <2>4. Count(<<>>, {m}) <= 1
    BY <2>1
  <2>. QED
    BY <2>2, <2>3, <2>4
<1>. QED
  BY <1>7, <1>8

(* A post that is answered turns the copy into a row. *)
LEMMA AcceptedMoves ==
    ASSUME IInv, TypeOK', NEW t \in Threads, Accepted(t), NEW m \in Messages
    PROVE  /\ Copies(m)' = Copies(m) - Held(batch[t], m)
           /\ copies'[m] = copies[m] + Held(batch[t], m)
           /\ \A x \in Threads : Count(batch'[x], {m}) <= 1
<1>. USE DEF IInv
<1>1. /\ Copies(m) = Count(buffer, {m}) + Cardinality(Holders(batch, m))
      /\ Copies(m)' = Count(buffer', {m}) + Cardinality(Holders(batch', m))
  BY CopiesCounted, CopiesCountedNext
<1>2. buffer' = buffer /\ batch' = [batch EXCEPT ![t] = <<>>] /\ Ingest(batch[t])
  BY DEF Accepted
<1>3. batch \in [Threads -> Seq(Messages)] /\ buffer \in Seq(Messages)
  BY DEF TypeOK
<1>4. Count(batch[t], {m}) = Held(batch[t], m)
  BY <1>3, CountOnce DEF OnceEach
<1>5. Cardinality(Holders(batch', m)) = Cardinality(Holders(batch, m)) - Held(batch[t], m)
  BY <1>2, <1>3, BatchCleared
<1>6. Copies(m)' = Copies(m) - Held(batch[t], m)
  BY <1>1, <1>2, <1>5, LedgerNat DEF Held
<1>7. copies'[m] = copies[m] + Held(batch[t], m)
  BY <1>2, <1>3, <1>4, IngestCounts
<1>8. \A x \in Threads : Count(batch'[x], {m}) <= 1
  <2>1. Count(<<>>, {m}) = 0
    BY CountEmpty
  <2>2. \A x \in Threads : batch'[x] = <<>> \/ batch'[x] = batch[x]
    BY <1>2, <1>3
  <2>3. \A x \in Threads : Count(batch[x], {m}) <= 1
    BY DEF OnceEach
  <2>4. Count(<<>>, {m}) <= 1
    BY <2>1
  <2>. QED
    BY <2>2, <2>3, <2>4
<1>. QED
  BY <1>6, <1>7, <1>8

(* What a thread holds is among what the forwarder holds. *)
LEMMA HeldBound ==
    ASSUME TypeOK, NEW t \in Threads, NEW m \in Messages
    PROVE  Held(batch[t], m) <= Copies(m)
<1>1. CASE m \in ToSet(batch[t])
  <2>1. Holders(batch, m) # {}
    BY <1>1 DEF Holders
  <2>2. Cardinality(Holders(batch, m)) # 0
    BY <2>1, HoldersFinite, FS_EmptySet
  <2>3. Copies(m) = Count(buffer, {m}) + Cardinality(Holders(batch, m))
    BY CopiesCounted
  <2>4. Count(buffer, {m}) \in Nat /\ Cardinality(Holders(batch, m)) \in Nat
    BY LedgerNat
  <2>5. Held(batch[t], m) = 1
    BY <1>1 DEF Held
  <2>. QED
    BY <2>2, <2>3, <2>4, <2>5
<1>2. CASE m \notin ToSet(batch[t])
  <2>1. Held(batch[t], m) = 0 /\ Copies(m) \in Nat
    BY <1>2, LedgerNat DEF Held
  <2>. QED
    BY <2>1
<1>. QED
  BY <1>1, <1>2

(* A datagram is read into the buffer. *)
LEMMA ReceiveMoves ==
    ASSUME IInv, TypeOK', NEW n \in socket, buffer' = Append(buffer, n),
           UNCHANGED batch, NEW m \in Messages
    PROVE  Copies(m)' = Copies(m) + (IF m = n THEN 1 ELSE 0)
<1>1. /\ Copies(m) = Count(buffer, {m}) + Cardinality(Holders(batch, m))
      /\ Copies(m)' = Count(buffer', {m}) + Cardinality(Holders(batch, m))
  BY CopiesCounted, CopiesCountedNext DEF IInv
<1>2. buffer \in Seq(Messages) /\ n \in Messages
  BY DEF IInv, TypeOK
<1>3. Count(Append(buffer, n), {m}) = Count(buffer, {m}) + (IF n \in {m} THEN 1 ELSE 0)
  BY <1>2, CountAppend
<1>. QED
  BY <1>1, <1>3, LedgerNat DEF IInv

(* A post that timed out leaves its batch with the backend. *)
LEMMA TimedOutMoves ==
    ASSUME IInv, TypeOK', NEW t \in Threads, TimedOut(t), NEW m \in Messages
    PROVE  /\ Cardinality(Unsettled(m))' = Cardinality(Unsettled(m)) + Held(batch[t], m)
           /\ \A i \in DOMAIN limbo' : Count(limbo'[i], {m}) <= 1
<1>. USE DEF IInv
<1>1. /\ Cardinality(Unsettled(m)) = Count(limbo, With(m))
      /\ Cardinality(Unsettled(m))' = Count(limbo', With(m))
  BY CopiesCounted, CopiesCountedNext
<1>2. batch[t] \in Seq(Messages) /\ limbo \in Seq(Seq(Messages))
  BY DEF TypeOK
<1>3. limbo' = Append(limbo, batch[t])
  BY DEF TimedOut
<1>4. Count(limbo', With(m))
        = Count(limbo, With(m)) + (IF batch[t] \in With(m) THEN 1 ELSE 0)
  BY <1>2, <1>3, CountAppend
<1>5. batch[t] \in With(m) <=> m \in ToSet(batch[t])
  BY <1>2 DEF With
<1>6. \A i \in DOMAIN limbo' : limbo'[i] = batch[t] \/ \E j \in DOMAIN limbo : limbo'[i] = limbo[j]
  BY <1>2, <1>3
<1>7. \A i \in DOMAIN limbo' : Count(limbo'[i], {m}) <= 1
  BY <1>6 DEF OnceEach
<1>. QED
  BY <1>1, <1>4, <1>5, <1>7 DEF Held

(* A request nobody waits for leaves the backend, with or without its rows. *)
LEMMA SettleMoves ==
    ASSUME IInv, TypeOK', NEW k \in DOMAIN limbo, limbo' = RemoveAt(limbo, k),
           Ingest(limbo[k]) \/ UNCHANGED copies, NEW m \in Messages
    PROVE  /\ Cardinality(Unsettled(m)) = Cardinality(Unsettled(m))' + Held(limbo[k], m)
           /\ \/ copies'[m] = copies[m] + Held(limbo[k], m)
              \/ copies'[m] = copies[m]
           /\ \A i \in DOMAIN limbo' : Count(limbo'[i], {m}) <= 1
<1>. USE DEF IInv
<1>1. /\ Cardinality(Unsettled(m)) = Count(limbo, With(m))
      /\ Cardinality(Unsettled(m))' = Count(limbo', With(m))
  BY CopiesCounted, CopiesCountedNext
<1>2. limbo[k] \in Seq(Messages) /\ limbo \in Seq(Seq(Messages))
  BY DEF TypeOK
<1>3. /\ Count(limbo, With(m))
           = Count(limbo', With(m)) + (IF limbo[k] \in With(m) THEN 1 ELSE 0)
      /\ \A i \in DOMAIN limbo' : \E j \in DOMAIN limbo : limbo'[i] = limbo[j]
  BY <1>2, CountRemoveAt
<1>4. limbo[k] \in With(m) <=> m \in ToSet(limbo[k])
  BY <1>2 DEF With
<1>5. Count(limbo[k], {m}) = Held(limbo[k], m)
  BY <1>2, CountOnce DEF OnceEach
<1>6. copies'[m] = copies[m] + Held(limbo[k], m) \/ copies'[m] = copies[m]
  BY <1>2, <1>5, IngestCounts
<1>7. \A i \in DOMAIN limbo' : Count(limbo'[i], {m}) <= 1
  BY <1>3 DEF OnceEach
<1>. QED
  BY <1>1, <1>3, <1>4, <1>6, <1>7 DEF Held

(* A crash gives up what the forwarder holds; what it was posting goes on. *)
LEMMA CrashMoves ==
    ASSUME IInv, TypeOK', CrashForwarder, NEW m \in Messages
    PROVE  /\ Copies(m)' = 0
           /\ Cardinality(Unsettled(m))' <= Cardinality(Unsettled(m)) + Copies(m)
           /\ \A t \in Threads : Count(batch'[t], {m}) <= 1
           /\ \A i \in DOMAIN limbo' : Count(limbo'[i], {m}) <= 1
<1>. USE DEF IInv
<1>1. /\ Copies(m) = Count(buffer, {m}) + Cardinality(Holders(batch, m))
      /\ Copies(m)' = Count(buffer', {m}) + Cardinality(Holders(batch', m))
      /\ Cardinality(Unsettled(m)) = Count(limbo, With(m))
      /\ Cardinality(Unsettled(m))' = Count(limbo', With(m))
  BY CopiesCounted, CopiesCountedNext
<1>2. /\ buffer' = <<>> /\ batch' = [t \in Threads |-> <<>>]
      /\ limbo' = limbo \o SetToSeq(Posted)
  BY DEF CrashForwarder, Posted
<1>3. Count(<<>>, {m}) = 0
  BY CountEmpty
<1>4. Copies(m)' = 0
  <2>1. Holders(batch', m) = {}
    BY <1>2 DEF Holders, ToSet
  <2>2. Cardinality(Holders(batch', m)) = 0
    BY <2>1, FS_EmptySet
  <2>3. Count(buffer', {m}) = 0
    BY <1>2, <1>3
  <2>. QED
    BY <1>1, <2>2, <2>3
<1>5. /\ SetToSeq(Posted) \in Seq(Seq(Messages))
      /\ \A i \in DOMAIN SetToSeq(Posted) : SetToSeq(Posted)[i] \in Posted
      /\ Count(SetToSeq(Posted), With(m)) <= Cardinality(Posted \cap With(m))
  BY PostedFinite, SetToSeqCount
<1>6. limbo \in Seq(Seq(Messages))
  BY DEF TypeOK
<1>7. Count(limbo', With(m)) = Count(limbo, With(m)) + Count(SetToSeq(Posted), With(m))
  BY <1>2, <1>5, <1>6, CountConcat
<1>8. Cardinality(Posted \cap With(m)) <= Cardinality(Holders(batch, m))
  <2>. DEFINE B == {batch[t] : t \in Holders(batch, m)}
              f == [t \in Holders(batch, m) |-> batch[t]]
  <2>1. f \in Surjection(Holders(batch, m), B)
    BY DEF Surjection
  <2>2. IsFiniteSet(B) /\ Cardinality(B) <= Cardinality(Holders(batch, m))
    BY <2>1, HoldersFinite, FS_Surjection
  <2>3. Posted \cap With(m) \in SUBSET B
    BY DEF Posted, With, Holders
  <2>4. Cardinality(Posted \cap With(m)) <= Cardinality(B)
    BY <2>2, <2>3, FS_Subset
  <2>5. Cardinality(B) \in Nat /\ Cardinality(Posted \cap With(m)) \in Nat
    BY <2>2, <2>3, FS_Subset, FS_CardinalityType
  <2>. QED
    BY <2>2, <2>4, <2>5, HoldersFinite
<1>9. /\ Cardinality(Posted \cap With(m)) \in Nat
      /\ Count(SetToSeq(Posted), With(m)) \in Nat
  <2>1. IsFiniteSet(Posted \cap With(m))
    BY PostedFinite, FS_Intersection
  <2>. QED
    BY <1>5, <2>1, CountNat, FS_CardinalityType
<1>10. Cardinality(Unsettled(m))' <= Cardinality(Unsettled(m)) + Copies(m)
  BY <1>1, <1>5, <1>7, <1>8, <1>9, LedgerNat
<1>11. \A t \in Threads : Count(batch'[t], {m}) <= 1
  BY <1>2, <1>3
<1>12. \A i \in DOMAIN limbo' : Count(limbo'[i], {m}) <= 1
  <2>1. \A b \in Posted : Count(b, {m}) <= 1
    BY DEF Posted, OnceEach
  <2>2. \A i \in DOMAIN limbo' :
            limbo'[i] \in Posted \/ \E j \in DOMAIN limbo : limbo'[i] = limbo[j]
    <3>. SUFFICES ASSUME NEW i \in DOMAIN limbo'
                  PROVE  limbo'[i] \in Posted \/ \E j \in DOMAIN limbo : limbo'[i] = limbo[j]
      OBVIOUS
    <3>. DEFINE q == SetToSeq(Posted)
    <3>1. q \in Seq(Seq(Messages)) /\ \A j \in DOMAIN q : q[j] \in Posted
      BY <1>5
    <3>2. limbo' = limbo \o q
      BY <1>2
    <3>. HIDE DEF q
    <3>3. i \in 1 .. Len(limbo) + Len(q)
          /\ limbo'[i] = IF i <= Len(limbo) THEN limbo[i] ELSE q[i - Len(limbo)]
      BY <1>6, <3>1, <3>2, ConcatProperties
    <3>4. CASE i <= Len(limbo)
      BY <1>6, <3>3, <3>4
    <3>5. CASE ~(i <= Len(limbo))
      <4>1. i - Len(limbo) \in 1 .. Len(q)
        BY <1>6, <3>1, <3>3, <3>5
      <4>2. i - Len(limbo) \in DOMAIN q
        BY <3>1, <4>1
      <4>. QED
        BY <3>1, <3>3, <3>5, <4>2
    <3>. QED
      BY <3>4, <3>5
  <2>. QED
    BY <2>1, <2>2 DEF OnceEach
<1>. QED
  BY <1>4, <1>10, <1>11, <1>12

-----------------------------------------------------------------------------
(* The invariant is inductive. *)

(* ReadFirst, HeldOnce and DuplicateNeedsFailure, of one message. *)
Ledger(m) ==
    /\ m \notin read => Copies(m) = 0 /\ copies[m] = 0 /\ Cardinality(Unsettled(m)) = 0
    /\ Copies(m) <= 1
    /\ copies[m] + Copies(m) + Cardinality(Unsettled(m)) <= 1 + fails

LEMMA LedgerHere ==
    ASSUME IInv, NEW m \in Messages
    PROVE  Ledger(m)
BY DEF IInv, ReadFirst, HeldOnce, DuplicateNeedsFailure, Ledger

LEMMA LedgerNatNext ==
    ASSUME TypeOK', NEW m \in Messages
    PROVE  Copies(m)' \in Nat /\ Cardinality(Unsettled(m))' \in Nat
<1>1. Count(buffer', {m}) \in Nat
  BY CountNat DEF TypeOK
<1>2. Count(limbo', With(m)) \in Nat
  BY CountNat DEF TypeOK
<1>3. Cardinality(Holders(batch', m)) \in Nat
  BY HoldersFinite
<1>. QED
  BY <1>1, <1>2, <1>3, CopiesCountedNext

LEMMA InitInv == Init => IInv
<1>. SUFFICES ASSUME Init
              PROVE  IInv
  OBVIOUS
<1>1. TypeOK
  BY InitType
<1>2. \A m \in Messages : Copies(m) = 0 /\ copies[m] = 0 /\ Cardinality(Unsettled(m)) = 0
  <2>. SUFFICES ASSUME NEW m \in Messages
                PROVE  Copies(m) = 0 /\ copies[m] = 0 /\ Cardinality(Unsettled(m)) = 0
    OBVIOUS
  <2>1. Count(buffer, {m}) = 0 /\ Count(limbo, With(m)) = 0
    BY CountEmpty DEF Init
  <2>2. Holders(batch, m) = {}
    BY DEF Init, Holders, ToSet
  <2>3. Cardinality(Holders(batch, m)) = 0
    BY <2>2, FS_EmptySet
  <2>. QED
    BY <1>1, <2>1, <2>3, CopiesCounted DEF Init
<1>3. fails = 0 /\ socket = {}
  BY DEF Init
<1>4. Phases
  BY DEF Init, Phases
<1>5. OnceEach
  <2>1. \A t \in Threads : batch[t] = <<>>
    BY DEF Init
  <2>2. DOMAIN limbo = {}
    BY DEF Init
  <2>3. \A m \in Messages : Count(<<>>, {m}) <= 1
    BY CountEmpty
  <2>. QED
    BY <2>1, <2>2, <2>3 DEF OnceEach
<1>6. ReadFirst
  BY <1>2, <1>3 DEF ReadFirst
<1>7. HeldOnce /\ DuplicateNeedsFailure
  BY <1>2, <1>3 DEF HeldOnce, DuplicateNeedsFailure
<1>. QED
  BY <1>1, <1>4, <1>5, <1>6, <1>7 DEF IInv

(* Each step moves copies of a message about, and adds one only where a post
   failed or its first datagram is read. *)
LEMMA StepLedger ==
    ASSUME IInv, TypeOK', [Next]_vars, NEW m \in Messages
    PROVE  Ledger(m)'
<1>. USE DEF Ledger
<1>1. /\ Ledger(m)
      /\ Copies(m) \in Nat /\ Cardinality(Unsettled(m)) \in Nat
      /\ copies[m] \in Nat /\ fails \in Nat
  BY LedgerHere, LedgerNat DEF IInv
<1>2. Copies(m)' \in Nat /\ Cardinality(Unsettled(m))' \in Nat
  BY LedgerNatNext
<1>3. UNCHANGED <<buffer, batch>> => Copies(m)' = Copies(m)
  BY DEF Copies
<1>4. UNCHANGED limbo => Cardinality(Unsettled(m))' = Cardinality(Unsettled(m))
  BY DEF Unsettled
<1>5. CASE \E n \in Messages : Send(n)
  BY <1>1, <1>3, <1>4, <1>5 DEF Send
<1>6. CASE Receive
  <2>1. PICK n \in socket : read' = read \cup {n} /\ buffer' = Append(buffer, n)
    BY <1>6 DEF Receive
  <2>2. UNCHANGED <<batch, limbo, copies, fails>>
    BY <1>6 DEF Receive
  <2>3. Copies(m)' = Copies(m) + (IF m = n THEN 1 ELSE 0)
    BY <2>1, <2>2, ReceiveMoves
  <2>4. m = n => m \notin read
    BY <2>1 DEF IInv, ReadFirst
  <2>. QED
    BY <1>1, <1>4, <2>1, <2>2, <2>3, <2>4
<1>7. CASE Wake
  BY <1>1, <1>3, <1>4, <1>7 DEF Wake
<1>8. CASE Settle
  <2>1. PICK k \in DOMAIN limbo :
            /\ limbo' = RemoveAt(limbo, k)
            /\ Ingest(limbo[k]) \/ UNCHANGED copies
    BY <1>8 DEF Settle
  <2>2. UNCHANGED <<read, buffer, batch, fails>>
    BY <1>8 DEF Settle
  <2>3. /\ Cardinality(Unsettled(m)) = Cardinality(Unsettled(m))' + Held(limbo[k], m)
        /\ copies'[m] = copies[m] + Held(limbo[k], m) \/ copies'[m] = copies[m]
    BY <2>1, SettleMoves
  <2>4. Held(limbo[k], m) \in {0, 1}
    BY DEF Held
  <2>. QED
    BY <1>1, <1>2, <1>3, <2>2, <2>3, <2>4
<1>9. CASE CrashForwarder
  <2>1. UNCHANGED <<read, copies, fails>>
    BY <1>9 DEF CrashForwarder
  <2>2. /\ Copies(m)' = 0
        /\ Cardinality(Unsettled(m))' <= Cardinality(Unsettled(m)) + Copies(m)
    BY <1>9, CrashMoves
  <2>. QED
    BY <1>1, <1>2, <2>1, <2>2
<1>10. ASSUME NEW t \in Threads, Take(t)
       PROVE  Ledger(m)'
  <2>1. UNCHANGED <<read, limbo, copies, fails>>
    BY <1>10 DEF Take
  <2>. QED
    BY <1>1, <1>4, <1>10, <2>1, TakeMoves
<1>11. ASSUME NEW t \in Threads, Accepted(t)
       PROVE  Ledger(m)'
  <2>1. UNCHANGED <<read, limbo, fails>>
    BY <1>11 DEF Accepted
  <2>2. /\ Copies(m)' = Copies(m) - Held(batch[t], m)
        /\ copies'[m] = copies[m] + Held(batch[t], m)
    BY <1>11, AcceptedMoves
  <2>3. Held(batch[t], m) \in {0, 1}
    BY DEF Held
  <2>. QED
    BY <1>1, <1>2, <1>4, <2>1, <2>2, <2>3
<1>12. ASSUME NEW t \in Threads, Refused(t)
       PROVE  Ledger(m)'
  <2>1. UNCHANGED <<read, buffer, batch, limbo, copies>> /\ (fails' = fails \/ fails' = fails + 1)
    BY <1>12 DEF Refused
  <2>. QED
    BY <1>1, <1>3, <1>4, <2>1
<1>13. ASSUME NEW t \in Threads, TimedOut(t)
       PROVE  Ledger(m)'
  <2>1. UNCHANGED <<read, buffer, batch, copies>> /\ fails' = fails + 1
    BY <1>13 DEF TimedOut
  <2>2. Cardinality(Unsettled(m))' = Cardinality(Unsettled(m)) + Held(batch[t], m)
    BY <1>13, TimedOutMoves
  <2>3. Held(batch[t], m) \in {0, 1}
    BY DEF Held
  <2>4. Held(batch[t], m) <= Copies(m)
    BY HeldBound DEF IInv
  <2>. QED
    BY <1>1, <1>3, <2>1, <2>2, <2>3, <2>4
<1>14. ASSUME NEW t \in Threads, Requeue(t)
       PROVE  Ledger(m)'
  <2>1. UNCHANGED <<read, limbo, copies, fails>>
    BY <1>14 DEF Requeue
  <2>. QED
    BY <1>1, <1>4, <1>14, <2>1, RequeueMoves
<1>15. CASE UNCHANGED vars
  BY <1>1, <1>3, <1>4, <1>15 DEF vars
<1>. QED
  BY <1>5, <1>6, <1>7, <1>8, <1>9, <1>10, <1>11, <1>12, <1>13, <1>14, <1>15 DEF Next

(* No step puts a message into a batch that has it. *)
LEMMA StepOnce ==
    ASSUME IInv, TypeOK', [Next]_vars
    PROVE  OnceEach'
<1>. SUFFICES ASSUME NEW m \in Messages
              PROVE  /\ \A t \in Threads : Count(batch'[t], {m}) <= 1
                     /\ \A i \in DOMAIN limbo' : Count(limbo'[i], {m}) <= 1
  BY DEF OnceEach
<1>1. UNCHANGED batch => \A t \in Threads : Count(batch'[t], {m}) <= 1
  BY DEF IInv, OnceEach
<1>2. UNCHANGED limbo => \A i \in DOMAIN limbo' : Count(limbo'[i], {m}) <= 1
  BY DEF IInv, OnceEach
<1>3. CASE (\E n \in Messages : Send(n)) \/ Receive \/ Wake
  BY <1>1, <1>2, <1>3 DEF Send, Receive, Wake
<1>4. CASE Settle
  <2>1. PICK k \in DOMAIN limbo :
            /\ limbo' = RemoveAt(limbo, k)
            /\ Ingest(limbo[k]) \/ UNCHANGED copies
    BY <1>4 DEF Settle
  <2>2. UNCHANGED batch
    BY <1>4 DEF Settle
  <2>. QED
    BY <1>1, <2>1, <2>2, SettleMoves
<1>5. CASE CrashForwarder
  BY <1>5, CrashMoves
<1>6. ASSUME NEW t \in Threads, Take(t)
      PROVE  /\ UNCHANGED limbo
             /\ \A x \in Threads : Count(batch'[x], {m}) <= 1
  BY <1>6, TakeMoves DEF Take
<1>7. ASSUME NEW t \in Threads, Accepted(t)
      PROVE  /\ UNCHANGED limbo
             /\ \A x \in Threads : Count(batch'[x], {m}) <= 1
  BY <1>7, AcceptedMoves DEF Accepted
<1>8. ASSUME NEW t \in Threads, Refused(t)
      PROVE  UNCHANGED <<batch, limbo>>
  BY <1>8 DEF Refused
<1>9. ASSUME NEW t \in Threads, TimedOut(t)
      PROVE  /\ UNCHANGED batch
             /\ \A i \in DOMAIN limbo' : Count(limbo'[i], {m}) <= 1
  BY <1>9, TimedOutMoves DEF TimedOut
<1>10. ASSUME NEW t \in Threads, Requeue(t)
       PROVE  /\ UNCHANGED limbo
              /\ \A x \in Threads : Count(batch'[x], {m}) <= 1
  BY <1>10, RequeueMoves DEF Requeue
<1>11. CASE UNCHANGED vars
  BY <1>1, <1>2, <1>11 DEF vars
<1>. QED
  BY <1>1, <1>2, <1>3, <1>4, <1>5, <1>6, <1>7, <1>8, <1>9, <1>10, <1>11 DEF Next

LEMMA StepPhases ==
    ASSUME IInv, [Next]_vars
    PROVE  Phases'
<1>. USE DEF IInv, Phases, TypeOK
<1>1. CASE (\E n \in Messages : Send(n)) \/ Receive \/ Wake \/ Settle
  BY <1>1 DEF Send, Receive, Wake, Settle, Threads
<1>2. CASE CrashForwarder
  BY <1>2 DEF CrashForwarder
<1>3. ASSUME NEW t \in Threads,
             Take(t) \/ Accepted(t) \/ Refused(t) \/ TimedOut(t) \/ Requeue(t)
      PROVE  Phases'
  BY <1>3 DEF Take, TakeAll, Accepted, Refused, TimedOut, Requeue
<1>4. CASE UNCHANGED vars
  BY <1>4 DEF vars
<1>. QED
  BY <1>1, <1>2, <1>3, <1>4 DEF Next

LEMMA StepInv == IInv /\ [Next]_vars => IInv'
<1>. SUFFICES ASSUME IInv, [Next]_vars
              PROVE  IInv'
  OBVIOUS
<1>1. TypeOK'
  BY StepType DEF IInv
<1>2. \A m \in Messages : Ledger(m)'
  BY <1>1, StepLedger
<1>3. (socket \cap read = {})'
  BY DEF IInv, ReadFirst, TypeOK, Next, vars, Send, Receive, Wake, Settle, CrashForwarder,
         Take, Accepted, Refused, TimedOut, Requeue
<1>4. ReadFirst'
  BY <1>2, <1>3 DEF ReadFirst, Ledger
<1>5. HeldOnce' /\ DuplicateNeedsFailure'
  BY <1>2 DEF HeldOnce, DuplicateNeedsFailure, Ledger
<1>. QED
  BY <1>1, <1>4, <1>5, StepOnce, StepPhases DEF IInv

(* However the two threads interleave in flush_buffer, and whatever becomes
   of their posts, the forwarder never holds a message twice. *)
THEOREM ForwarderHoldsOnce == Spec => []HeldOnce
<1>1. IInv => HeldOnce
  BY DEF IInv
<1>. QED
  BY <1>1, InitInv, StepInv, PTL DEF Spec

(* Rows of a message, copies held and requests under way together exceed one
   only by the number of posts that failed. *)
THEOREM DuplicatesAreRetries == Spec => []DuplicateNeedsFailure
<1>1. IInv => DuplicateNeedsFailure
  BY DEF IInv
<1>. QED
  BY <1>1, InitInv, StepInv, PTL DEF Spec

-----------------------------------------------------------------------------
(* The forwarder implements SyslogChannel. *)

held == {m \in Messages : Copies(m) > 0}
stored == {m \in Messages : copies[m] > 0}
chan == <<read, held, stored, crashes>>

(* The initial states map to the initial state of the channel. *)
LEMMA InitChannel == Init => Channel!ChanInit
<1>. SUFFICES ASSUME Init
              PROVE  Channel!ChanInit
  OBVIOUS
<1>1. \A m \in Messages : Copies(m) = 0 /\ copies[m] = 0
  BY InitInv DEF IInv, ReadFirst, Init
<1>2. held = {} /\ stored = {}
  BY <1>1 DEF held, stored
<1>. QED
  BY <1>2 DEF Channel!ChanInit, Init, held, stored

(* Rows appear for what a batch holds, and for nothing else. *)
LEMMA StoredBy ==
    ASSUME IInv, NEW b \in Seq(Messages), Ingest(b),
           \A m \in Messages : Count(b, {m}) <= 1
    PROVE  stored' = stored \cup ToSet(b)
<1>1. ToSet(b) \subseteq Messages
  BY DEF ToSet
<1>2. \A m \in Messages : copies'[m] = copies[m] + Held(b, m)
  <2>1. \A m \in Messages : Count(b, {m}) = Held(b, m)
    BY CountOnce
  <2>. QED
    BY <2>1, IngestCounts DEF IInv
<1>3. \A m \in Messages : copies[m] \in Nat
  BY DEF IInv, TypeOK
<1>4. \A m \in Messages : copies'[m] > 0 <=> copies[m] > 0 \/ m \in ToSet(b)
  BY <1>2, <1>3 DEF Held
<1>. QED
  BY <1>1, <1>4 DEF stored

(* A batch that can be stored has something in it. *)
LEMMA IngestibleHas ==
    ASSUME NEW b \in Seq(Messages), Ingestible(b)
    PROVE  ToSet(b) # {}
<1>1. Len(b) \in Nat \ {0}
  BY EmptySeq DEF Ingestible
<1>2. 1 \in DOMAIN b
  BY <1>1
<1>. QED
  BY <1>2 DEF ToSet

(* Every step of the forwarder is a step of the channel, or none. *)
LEMMA StepChannel ==
    ASSUME IInv, IInv', [Next]_vars
    PROVE  \/ \E m \in Messages : Channel!Accept(m)
           \/ Channel!Deliver \/ Channel!Crash
           \/ UNCHANGED chan
<1>1. (\A m \in Messages : Copies(m)' = Copies(m)) => held' = held
  BY DEF held
<1>2. UNCHANGED <<buffer, batch>> => held' = held
  BY DEF held, Copies
<1>3. UNCHANGED copies => stored' = stored
  BY DEF stored
<1>4. \A m \in Messages : Copies(m) \in Nat /\ Copies(m) <= 1
  BY LedgerNat DEF IInv, HeldOnce
<1>5. stored \subseteq read /\ held \subseteq read
  <2>1. \A m \in Messages \ read : Copies(m) = 0 /\ copies[m] = 0
    BY DEF IInv, ReadFirst
  <2>. QED
    BY <2>1 DEF stored, held
<1>6. CASE (\E n \in Messages : Send(n)) \/ Wake
  BY <1>2, <1>3, <1>6 DEF Send, Wake, chan
<1>7. CASE Receive
  <2>1. PICK n \in socket : read' = read \cup {n} /\ buffer' = Append(buffer, n)
    BY <1>7 DEF Receive
  <2>2. UNCHANGED <<batch, copies, crashes>>
    BY <1>7 DEF Receive
  <2>3. n \in Messages /\ n \notin read
    BY <2>1 DEF IInv, TypeOK, ReadFirst
  <2>4. \A m \in Messages : Copies(m)' = Copies(m) + (IF m = n THEN 1 ELSE 0)
    BY <2>1, <2>2, ReceiveMoves DEF IInv
  <2>5. \A m \in Messages : Copies(m)' > 0 <=> Copies(m) > 0 \/ m = n
    BY <1>4, <2>4
  <2>6. held' = held \cup {n}
    BY <2>3, <2>5 DEF held
  <2>7. Channel!Accept(n)
    BY <1>3, <2>1, <2>2, <2>3, <2>6 DEF Channel!Accept, held, stored
  <2>. QED
    BY <2>3, <2>7
<1>8. CASE Settle
  <2>1. PICK k \in DOMAIN limbo : (Ingest(limbo[k]) /\ Ingestible(limbo[k])) \/ UNCHANGED copies
    BY <1>8 DEF Settle
  <2>2. UNCHANGED <<read, crashes>> /\ held' = held
    BY <1>2, <1>8 DEF Settle
  <2>3. CASE UNCHANGED copies
    BY <1>3, <2>2, <2>3 DEF chan
  <2>4. CASE Ingest(limbo[k]) /\ Ingestible(limbo[k])
    <3>1. limbo[k] \in Seq(Messages) /\ \A m \in Messages : Count(limbo[k], {m}) <= 1
      <4>1. limbo[k] \in Seq(Messages)
        BY DEF IInv, TypeOK
      <4>. QED
        BY <4>1 DEF IInv, OnceEach
    <3>2. stored' = stored \cup ToSet(limbo[k])
      BY <2>4, <3>1, StoredBy
    <3>3. ToSet(limbo[k]) # {} /\ ToSet(limbo[k]) \subseteq read
      <4>1. ToSet(limbo[k]) # {}
        <5>1. Ingestible(limbo[k]) /\ limbo[k] \in Seq(Messages)
          BY <2>4, <3>1
        <5>. QED
          BY <5>1, IngestibleHas
      <4>2. stored' \subseteq read'
        <5>1. \A m \in Messages \ read' : copies'[m] = 0
          BY DEF IInv, ReadFirst
        <5>. QED
          BY <5>1 DEF stored
      <4>. QED
        BY <2>2, <3>2, <4>1, <4>2
    <3>4. Channel!Deliver
      BY <2>2, <3>2, <3>3 DEF Channel!Deliver, held, stored
    <3>. QED
      BY <3>4
  <2>. QED
    BY <2>1, <2>3, <2>4
<1>9. CASE CrashForwarder
  <2>1. \A m \in Messages : Copies(m)' = 0
    BY <1>9, CrashMoves DEF IInv
  <2>2. held' = held \ held
    BY <2>1 DEF held
  <2>3. UNCHANGED <<read, copies>> /\ crashes' = crashes + 1
    BY <1>9 DEF CrashForwarder
  <2>4. Channel!Crash
    BY <1>3, <2>2, <2>3 DEF Channel!Crash, held, stored
  <2>. QED
    BY <2>4
<1>10. ASSUME NEW t \in Threads, Take(t)
       PROVE  UNCHANGED chan
  <2>1. UNCHANGED <<read, copies, crashes>>
    BY <1>10 DEF Take
  <2>. QED
    BY <1>1, <1>3, <1>10, <2>1, TakeMoves DEF IInv, chan
<1>11. ASSUME NEW t \in Threads, Accepted(t)
       PROVE  Channel!Deliver
  <2>. DEFINE S == ToSet(batch[t])
  <2>1. UNCHANGED <<read, crashes>> /\ Ingest(batch[t]) /\ Ingestible(batch[t])
    BY <1>11 DEF Accepted
  <2>2. batch[t] \in Seq(Messages) /\ \A m \in Messages : Count(batch[t], {m}) <= 1
    BY DEF IInv, TypeOK, OnceEach
  <2>3. stored' = stored \cup S
    BY <2>1, <2>2, StoredBy
  <2>4. \A m \in Messages : Copies(m)' = Copies(m) - Held(batch[t], m)
    BY <1>11, AcceptedMoves DEF IInv
  <2>5. \A m \in Messages : Held(batch[t], m) <= Copies(m)
    BY HeldBound DEF IInv
  <2>6. \A m \in Messages : Copies(m)' > 0 <=> Copies(m) > 0 /\ m \notin S
    BY <1>4, <2>4, <2>5 DEF Held
  <2>7. held' = held \ S
    BY <2>6 DEF held
  <2>8. S # {} /\ S \subseteq held
    <3>1. S # {}
      BY <2>1, <2>2, IngestibleHas
    <3>2. \A m \in S : m \in Messages /\ Held(batch[t], m) = 1
      BY <2>2 DEF Held, ToSet
    <3>3. \A m \in S : Copies(m) > 0
      BY <1>4, <2>5, <3>2
    <3>. QED
      BY <3>1, <3>2, <3>3 DEF held
  <2>. QED
    BY <1>5, <2>1, <2>3, <2>7, <2>8 DEF Channel!Deliver, held, stored
<1>12. ASSUME NEW t \in Threads, Refused(t) \/ TimedOut(t)
       PROVE  UNCHANGED chan
  <2>1. UNCHANGED <<read, buffer, batch, copies, crashes>>
    BY <1>12 DEF Refused, TimedOut
  <2>. QED
    BY <1>2, <1>3, <2>1 DEF chan
<1>13. ASSUME NEW t \in Threads, Requeue(t)
       PROVE  UNCHANGED chan
  <2>1. UNCHANGED <<read, copies, crashes>>
    BY <1>13 DEF Requeue
  <2>. QED
    BY <1>1, <1>3, <1>13, <2>1, RequeueMoves DEF IInv, chan
<1>14. CASE UNCHANGED vars
  BY <1>2, <1>3, <1>14 DEF vars, chan
<1>. QED
  BY <1>6, <1>7, <1>8, <1>9, <1>10, <1>11, <1>12, <1>13, <1>14 DEF Next

(* What the forwarder has read stays with it until its row is stored, and
   only a crash gives up what is not: two threads, failed posts, timeouts and
   late commits included. *)
THEOREM ForwarderImplementsChannel == Spec => ImplementsChannel
<1>1. IInv /\ IInv' /\ [Next]_vars => [Channel!ChanNext]_(Channel!chanVars)
  BY StepChannel DEF Channel!ChanNext, Channel!chanVars, chan, held, stored
<1>. QED
  BY <1>1, InitChannel, InitInv, StepInv, PTL
  DEF Spec, ImplementsChannel, Channel!ChanSpec
=============================================================================
