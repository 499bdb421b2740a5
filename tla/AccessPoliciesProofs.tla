------------------------ MODULE AccessPoliciesProofs ------------------------
(***************************************************************************)
(* Theorems about AccessPolicies, the agreement of policy and preview on   *)
(* its tables, and RadiusAuthorization beside it, for every value of their *)
(* constants.                                                              *)
(***************************************************************************)
EXTENDS RadiusAuthorization, WellFoundedInduction, TLAPS

-----------------------------------------------------------------------------
(* What the row-building operators return. *)

(* compute_target_key returns a key. *)
LEMMA TargetKeyType ==
    ASSUME NEW t,
           t.user \in Users, t.ip \in Opt(Ips), t.mac \in Opt(Macs),
           t.cat \in Opt(CatIds), t.seg \in Opt(SegIds), t.cir \in Opt(Cirs),
           t.lo \in Bound, t.hi \in Bound
    PROVE  TargetKey(t) \in TargetKeys
BY DEF TargetKey, TargetKeys

(* _build_segment_target_key returns one of its three kinds of key. *)
LEMMA SegmentTargetKeyType ==
    ASSUME NEW t, t.lo \in Bound, t.hi \in Bound
    PROVE  SegmentTargetKey(t) \in SegmentTargetKeys
BY DEF SegmentTargetKey, SegmentTargetKeys

(* The listeners turn a payload into a row. *)
LEMMA AsRowType ==
    ASSUME NEW p \in Payloads
    PROVE  AsRow(p) \in Rows
<1>1. TargetKey(p) \in TargetKeys
  BY TargetKeyType DEF Payloads
<1>2. SegmentTargetKey(p) \in SegmentTargetKeys
  BY SegmentTargetKeyType DEF Payloads
<1>. QED
  BY <1>1, <1>2 DEF AsRow, Rows, Payloads

(* A bulk entry is a row. *)
LEMMA BulkRowType ==
    ASSUME NEW u \in Users, NEW a \in Ips
    PROVE  BulkRow(u, a) \in Rows
<1>. DEFINE p == [user |-> u, ip |-> a, mac |-> NULL, cat |-> NULL, seg |-> NULL,
                  cir |-> NULL, lo |-> NULL, hi |-> NULL, active |-> TRUE]
<1>1. p \in Payloads
  BY DEF Payloads, Opt, Bound
<1>. QED
  BY <1>1, AsRowType DEF BulkRow

(* A column-wise UPDATE of a row by a row leaves a row. *)
LEMMA MergeRowType ==
    ASSUME NEW cur \in Rows, NEW old \in Rows, NEW new \in Rows
    PROVE  MergeRow(cur, old, new) \in Rows
BY DEF MergeRow, Changed, Rows

(* A cascaded NAS rename leaves a row. *)
LEMMA MovedType ==
    ASSUME NEW r \in Rows, NEW a \in Ips
    PROVE  Moved(r, a) \in Rows
<1>. DEFINE m == [r EXCEPT !.ip = a]
<1>1. m \in Rows
  BY DEF Rows, Opt
<1>2. TargetKey(m) \in TargetKeys
  BY <1>1, TargetKeyType DEF Rows
<1>. QED
  BY <1>1, <1>2 DEF Moved, Rows

-----------------------------------------------------------------------------
(* Type correctness. *)

(* What a plan of each kind carries, read off the union Plans. *)
LEMMA PlanType ==
    ASSUME NEW plan \in Plans
    PROVE  /\ plan.op = "insert" => plan.batch \in Seq(Rows)
           /\ plan.op = "update" =>
                plan.id \in RowIds /\ plan.old \in Rows /\ plan.new \in Rows
           /\ plan.op = "delete" => plan.id \in RowIds
           /\ plan.op = "segInsert" => plan.new \in Segments
           /\ plan.op = "segUpdate" =>
                plan.id \in SegIds /\ plan.old \in Segments /\ plan.new \in Segments
           /\ plan.op = "segDelete" => plan.id \in SegIds
           /\ plan.op = "catInsert" => plan.new \in Names
           /\ plan.op = "catUpdate" =>
                plan.id \in CatIds /\ plan.old \in Names /\ plan.new \in Names
           /\ plan.op = "catDelete" => plan.id \in CatIds
           /\ plan.op = "nasInsert" => plan.new \in NasRows
           /\ plan.op = "nasUpdate" =>
                /\ plan.id \in NasIds /\ plan.old \in NasRows /\ plan.new \in NasRows
                /\ plan.touched \in [RowIds -> Opt(Rows)]
           /\ plan.op = "nasDelete" => plan.id \in NasIds
           /\ plan.op = "audit" => plan.ids \in SUBSET Nat
BY DEF Plans, Idle

(* The initial tables are empty and well typed. *)
LEMMA InitType == Init => TypeOK
<1>1. Idle \in Plans
  BY DEF Plans
<1>2. [row |-> 1, seg |-> 1, cat |-> 1, nas |-> 1] \in
        [row : Nat \ {0}, seg : Nat \ {0}, cat : Nat \ {0}, nas : Nat \ {0}]
  OBVIOUS
<1>. QED
  BY <1>1, <1>2 DEF Init, TypeOK, Opt

(* Holding a well-typed plan keeps the types. *)
LEMMA HoldType ==
    ASSUME TypeOK, NEW w \in Workers, NEW plan \in Plans, Hold(w, plan)
    PROVE  TypeOK'
BY DEF Hold, TypeOK, tables, observers

(* The read phase of each handler keeps the types. *)
LEMMA ReadsType ==
    ASSUME TypeOK, RequestsAssumption, TablesAssumption, NEW w \in Workers,
           \/ CreateOrReplace(w) \/ CreateBulk(w) \/ UpdateAssignment(w)
           \/ DeleteAssignment(w)
           \/ CreateSegment(w) \/ UpdateSegment(w) \/ DeleteSegment(w)
           \/ CreateCategory(w) \/ UpdateCategory(w) \/ DeleteCategory(w)
           \/ CreateNas(w) \/ UpdateNas(w) \/ DeleteNas(w)
    PROVE  TypeOK'
<1>. SUFFICES \E plan \in Plans : Hold(w, plan)
  BY HoldType
<1>1. CASE CreateOrReplace(w)
  <2>1. PICK p \in Posts :
          \/ Hold(w, [op |-> "insert", batch |-> <<AsRow(p)>>])
          \/ \E i \in {j \in Live(rows) : Replaces(p, rows[j])} :
               Hold(w, [op |-> "update", id |-> i, old |-> rows[i],
                        new |-> AsRow(p), logged |-> FALSE])
    BY <1>1 DEF CreateOrReplace
  <2>2. AsRow(p) \in Rows
    BY AsRowType DEF RequestsAssumption
  <2>3. \A i \in Live(rows) : i \in RowIds /\ rows[i] \in Rows
    BY DEF Live, TypeOK, Opt
  <2>4. [op |-> "insert", batch |-> <<AsRow(p)>>] \in Plans
    BY <2>2 DEF Plans
  <2>5. \A i \in Live(rows) :
          [op |-> "update", id |-> i, old |-> rows[i], new |-> AsRow(p),
           logged |-> FALSE] \in Plans
    BY <2>2, <2>3 DEF Plans
  <2>. QED
    BY <2>1, <2>4, <2>5
<1>2. CASE CreateBulk(w)
  <2>1. PICK u \in Users, b \in Bulks :
          Hold(w, [op |-> "insert", batch |-> [k \in DOMAIN b |-> BulkRow(u, b[k])]])
    BY <1>2 DEF CreateBulk
  <2>. DEFINE batch == [k \in DOMAIN b |-> BulkRow(u, b[k])]
  <2>2. b \in Seq(Ips)
    BY DEF RequestsAssumption
  <2>3. batch \in Seq(Rows)
    <3>1. \A k \in DOMAIN b : BulkRow(u, b[k]) \in Rows
      BY <2>2, BulkRowType
    <3>2. PICK n \in Nat : DOMAIN b = 1 .. n
      BY <2>2
    <3>. QED
      BY <3>1, <3>2
  <2>4. [op |-> "insert", batch |-> batch] \in Plans
    BY <2>3 DEF Plans
  <2>. QED
    BY <2>1, <2>4
<1>3. CASE UpdateAssignment(w)
  <2>1. PICK i \in RowIds, p \in Puts :
          /\ rows[i] # NULL
          /\ Hold(w, [op |-> "update", id |-> i, old |-> rows[i],
                      new |-> AsRow(p), logged |-> TRUE])
    BY <1>3 DEF UpdateAssignment
  <2>2. AsRow(p) \in Rows
    BY AsRowType DEF RequestsAssumption
  <2>3. rows[i] \in Rows
    BY <2>1 DEF TypeOK, Opt
  <2>4. [op |-> "update", id |-> i, old |-> rows[i], new |-> AsRow(p),
         logged |-> TRUE] \in Plans
    BY <2>2, <2>3 DEF Plans
  <2>. QED
    BY <2>1, <2>4
<1>4. CASE DeleteAssignment(w)
  BY <1>4 DEF DeleteAssignment, Live, TypeOK, Plans
<1>5. CASE CreateSegment(w)
  <2>1. PICK n \in Names, net \in Nets :
          Hold(w, [op |-> "segInsert", new |-> [name |-> n, net |-> net]])
    BY <1>5 DEF CreateSegment
  <2>2. [name |-> n, net |-> net] \in Segments
    BY DEF RequestsAssumption, Segments
  <2>. QED
    BY <2>1, <2>2 DEF Plans
<1>6. CASE UpdateSegment(w)
  <2>1. PICK s \in Live(segs), n \in Opt(Names), net \in Opt(Nets) :
          Hold(w, [op |-> "segUpdate", id |-> s, old |-> segs[s],
                   new |-> [name |-> IF n = NULL THEN segs[s].name ELSE n,
                            net |-> IF net = NULL THEN segs[s].net ELSE net]])
    BY <1>6 DEF UpdateSegment
  <2>. DEFINE new == [name |-> IF n = NULL THEN segs[s].name ELSE n,
                      net |-> IF net = NULL THEN segs[s].net ELSE net]
  <2>2. s \in SegIds /\ segs[s] \in Segments
    BY DEF Live, TypeOK, Opt
  <2>3. new \in Segments
    BY <2>2 DEF RequestsAssumption, Segments, Opt
  <2>4. [op |-> "segUpdate", id |-> s, old |-> segs[s], new |-> new] \in Plans
    BY <2>2, <2>3 DEF Plans
  <2>. QED
    BY <2>1, <2>4
<1>7. CASE DeleteSegment(w)
  BY <1>7 DEF DeleteSegment, Live, TypeOK, Plans
<1>8. CASE CreateCategory(w)
  BY <1>8 DEF CreateCategory, RequestsAssumption, Plans
<1>9. CASE UpdateCategory(w)
  <2>1. PICK c \in Live(cats), n \in CatNames :
          Hold(w, [op |-> "catUpdate", id |-> c, old |-> cats[c], new |-> n])
    BY <1>9 DEF UpdateCategory
  <2>2. c \in CatIds /\ cats[c] \in Names /\ n \in Names
    BY DEF Live, TypeOK, Opt, RequestsAssumption
  <2>. QED
    BY <2>1, <2>2 DEF Plans
<1>10. CASE DeleteCategory(w)
  BY <1>10 DEF DeleteCategory, Live, TypeOK, Plans
<1>11. CASE CreateNas(w)
  BY <1>11 DEF CreateNas, RequestsAssumption, Plans
<1>12. CASE UpdateNas(w)
  <2>1. PICK n \in Live(nas), b \in NasBodies :
          Hold(w, [op |-> "nasUpdate", id |-> n, old |-> nas[n], new |-> b,
                   touched |-> [i \in RowIds |->
                       IF b.ip # nas[n].ip /\ rows[i] # NULL /\ rows[i].ip = nas[n].ip
                       THEN rows[i] ELSE NULL]])
    BY <1>12 DEF UpdateNas
  <2>. DEFINE touched == [i \in RowIds |->
                IF b.ip # nas[n].ip /\ rows[i] # NULL /\ rows[i].ip = nas[n].ip
                THEN rows[i] ELSE NULL]
  <2>2. n \in NasIds /\ nas[n] \in NasRows /\ b \in NasRows
    BY DEF Live, TypeOK, Opt, RequestsAssumption
  <2>3. touched \in [RowIds -> Opt(Rows)]
    BY DEF TypeOK, Opt
  <2>4. [op |-> "nasUpdate", id |-> n, old |-> nas[n], new |-> b,
         touched |-> touched] \in Plans
    BY <2>2, <2>3 DEF Plans
  <2>. QED
    BY <2>1, <2>4
<1>13. CASE DeleteNas(w)
  BY <1>13 DEF DeleteNas, Live, TypeOK, Plans
<1>. QED
  BY <1>1, <1>2, <1>3, <1>4, <1>5, <1>6, <1>7, <1>8, <1>9, <1>10, <1>11, <1>12, <1>13

(* An error response, or a handler that logs nothing, keeps the types. *)
LEMMA EndType ==
    ASSUME TypeOK, NEW w \in Workers, End(w)
    PROVE  req' \in [Workers -> Plans]
<1>1. Idle \in Plans
  BY DEF Plans
<1>. QED
  BY <1>1 DEF End, TypeOK

(* So does moving on to log_audit. *)
LEMMA CommittedType ==
    ASSUME TypeOK, NEW w \in Workers, NEW t \in {"rows", "segs", "cats", "nas"},
           NEW i \in SUBSET Nat, Committed(w, t, i)
    PROVE  req' \in [Workers -> Plans]
<1>1. [op |-> "audit", table |-> t, ids |-> i] \in Plans
  BY DEF Plans
<1>. QED
  BY <1>1 DEF Committed, TypeOK

(* The commits of the assignment handlers keep the types. *)
LEMMA AssignmentCommitsType ==
    ASSUME TypeOK, TablesAssumption, NEW w \in Workers,
           CommitInsert(w) \/ CommitUpdate(w) \/ CommitDelete(w)
    PROVE  TypeOK'
<1>. DEFINE plan == req[w]
<1>0. plan \in Plans
  BY DEF TypeOK
<1>1. CASE CommitInsert(w)
  <2>. DEFINE n == Len(plan.batch)
              new == next.row .. next.row + n - 1
              after == [i \in RowIds |->
                  IF i \in new THEN plan.batch[i - next.row + 1] ELSE rows[i]]
  <2>1. /\ plan.op = "insert"
        /\ \/ /\ rows' = after
              /\ next' = [next EXCEPT !.row = @ + n]
              /\ Committed(w, "rows", new)
           \/ /\ End(w)
              /\ UNCHANGED <<rows, next>>
        /\ UNCHANGED <<segs, cats, nas, clients, reloadLost>>
    BY <1>1 DEF CommitInsert, tables, observers
  <2>2. plan.batch \in Seq(Rows)
    BY <1>0, <2>1, PlanType
  <2>3. n \in Nat /\ next.row \in Nat \ {0} /\ new \in SUBSET Nat
    BY <2>2 DEF TypeOK
  <2>4. after \in [RowIds -> Opt(Rows)]
    <3>1. \A i \in RowIds : i \in new => plan.batch[i - next.row + 1] \in Rows
      BY <2>2, <2>3 DEF RowIds, TablesAssumption
    <3>. QED
      BY <3>1 DEF TypeOK, Opt
  <2>5. req' \in [Workers -> Plans]
    BY <2>1, <2>3, EndType, CommittedType
  <2>6. [next EXCEPT !.row = @ + n] \in
          [row : Nat \ {0}, seg : Nat \ {0}, cat : Nat \ {0}, nas : Nat \ {0}]
    BY <2>3 DEF TypeOK
  <2>. QED
    BY <2>1, <2>4, <2>5, <2>6 DEF TypeOK
<1>2. CASE CommitUpdate(w)
  <2>. DEFINE i == plan.id
              merged == MergeRow(rows[i], plan.old, plan.new)
  <2>1. /\ plan.op = "update"
        /\ \/ /\ rows[i] # NULL
              /\ rows' = [rows EXCEPT ![i] = merged]
           \/ UNCHANGED rows
        /\ Committed(w, "rows", {i}) \/ End(w)
        /\ UNCHANGED <<segs, cats, nas, next, clients, reloadLost>>
    BY <1>2 DEF CommitUpdate, observers
  <2>2. plan.id \in RowIds /\ plan.old \in Rows /\ plan.new \in Rows
    BY <1>0, <2>1, PlanType
  <2>3. {i} \in SUBSET Nat
    BY <2>2 DEF RowIds
  <2>4. rows[i] # NULL => merged \in Rows
    BY <2>2, MergeRowType DEF TypeOK, Opt
  <2>5. rows' \in [RowIds -> Opt(Rows)]
    BY <2>1, <2>2, <2>4 DEF TypeOK, Opt
  <2>6. req' \in [Workers -> Plans]
    BY <2>1, <2>3, EndType, CommittedType
  <2>. QED
    BY <2>1, <2>5, <2>6 DEF TypeOK
<1>3. CASE CommitDelete(w)
  <2>1. req' \in [Workers -> Plans]
    BY <1>3, CommittedType DEF CommitDelete
  <2>. QED
    BY <1>3, <2>1 DEF CommitDelete, TypeOK, Opt, observers
<1>. QED
  BY <1>1, <1>2, <1>3

(* The commits of the segment and category handlers keep the types. *)
LEMMA ParentCommitsType ==
    ASSUME TypeOK, TablesAssumption, NEW w \in Workers,
           \/ CommitSegmentInsert(w) \/ CommitSegmentUpdate(w)
           \/ CommitSegmentDelete(w)
           \/ CommitCategoryInsert(w) \/ CommitCategoryUpdate(w)
           \/ CommitCategoryDelete(w)
    PROVE  TypeOK'
<1>. DEFINE plan == req[w]
<1>0. plan \in Plans
  BY DEF TypeOK
<1>1. CASE CommitSegmentInsert(w)
  <2>1. plan.new \in Segments
    BY <1>0, <1>1, PlanType DEF CommitSegmentInsert
  <2>2. {next.seg} \in SUBSET Nat
    BY DEF TypeOK
  <2>3. req' \in [Workers -> Plans]
    BY <1>1, <2>2, EndType, CommittedType DEF CommitSegmentInsert
  <2>4. segs' \in [SegIds -> Opt(Segments)]
    BY <1>1, <2>1 DEF CommitSegmentInsert, TypeOK, Opt
  <2>5. next' \in [row : Nat \ {0}, seg : Nat \ {0}, cat : Nat \ {0}, nas : Nat \ {0}]
    BY <1>1 DEF CommitSegmentInsert, TypeOK
  <2>. QED
    BY <1>1, <2>3, <2>4, <2>5 DEF CommitSegmentInsert, TypeOK, observers
<1>2. CASE CommitSegmentUpdate(w)
  <2>. DEFINE merged == MergeSegment(segs[plan.id], plan.old, plan.new)
  <2>1. plan.id \in SegIds /\ plan.old \in Segments /\ plan.new \in Segments
    BY <1>0, <1>2, PlanType DEF CommitSegmentUpdate
  <2>2. segs[plan.id] # NULL => merged \in Segments
    BY <2>1 DEF TypeOK, Opt, MergeSegment, Changed, Segments
  <2>3. {plan.id} \in SUBSET Nat
    BY <2>1 DEF SegIds
  <2>4. req' \in [Workers -> Plans]
    BY <1>2, <2>3, EndType, CommittedType DEF CommitSegmentUpdate
  <2>5. segs' \in [SegIds -> Opt(Segments)]
    BY <1>2, <2>1, <2>2 DEF CommitSegmentUpdate, TypeOK, Opt
  <2>. QED
    BY <1>2, <2>4, <2>5 DEF CommitSegmentUpdate, TypeOK, observers
<1>3. CASE CommitSegmentDelete(w)
  <2>1. req' \in [Workers -> Plans]
    BY <1>3, EndType, CommittedType DEF CommitSegmentDelete
  <2>. QED
    BY <1>3, <2>1 DEF CommitSegmentDelete, TypeOK, Opt, observers
<1>4. CASE CommitCategoryInsert(w)
  <2>1. plan.new \in Names
    BY <1>0, <1>4, PlanType DEF CommitCategoryInsert
  <2>2. {next.cat} \in SUBSET Nat
    BY DEF TypeOK
  <2>3. req' \in [Workers -> Plans]
    BY <1>4, <2>2, EndType, CommittedType DEF CommitCategoryInsert
  <2>4. cats' \in [CatIds -> Opt(Names)]
    BY <1>4, <2>1 DEF CommitCategoryInsert, TypeOK, Opt
  <2>5. next' \in [row : Nat \ {0}, seg : Nat \ {0}, cat : Nat \ {0}, nas : Nat \ {0}]
    BY <1>4 DEF CommitCategoryInsert, TypeOK
  <2>. QED
    BY <1>4, <2>3, <2>4, <2>5 DEF CommitCategoryInsert, TypeOK, observers
<1>5. CASE CommitCategoryUpdate(w)
  <2>. DEFINE merged == Changed(cats[plan.id], plan.old, plan.new)
  <2>1. plan.id \in CatIds /\ plan.old \in Names /\ plan.new \in Names
    BY <1>0, <1>5, PlanType DEF CommitCategoryUpdate
  <2>2. cats[plan.id] # NULL => merged \in Names
    BY <2>1 DEF TypeOK, Opt, Changed
  <2>3. {plan.id} \in SUBSET Nat
    BY <2>1 DEF CatIds
  <2>4. req' \in [Workers -> Plans]
    BY <1>5, <2>3, EndType, CommittedType DEF CommitCategoryUpdate
  <2>5. cats' \in [CatIds -> Opt(Names)]
    BY <1>5, <2>1, <2>2 DEF CommitCategoryUpdate, TypeOK, Opt
  <2>. QED
    BY <1>5, <2>4, <2>5 DEF CommitCategoryUpdate, TypeOK, observers
<1>6. CASE CommitCategoryDelete(w)
  <2>. DEFINE c == plan.id
              Forget(t) == [k \in DOMAIN t |->
                  IF t[k] # NULL /\ t[k].cat = c THEN [t[k] EXCEPT !.cat = NULL]
                  ELSE t[k]]
  <2>1. req' \in [Workers -> Plans]
    BY <1>6, CommittedType DEF CommitCategoryDelete
  <2>2. Forget(rows) \in [RowIds -> Opt(Rows)]
    <3>1. \A r \in Rows : [r EXCEPT !.cat = NULL] \in Rows
      BY DEF Rows, Opt
    <3>. QED
      BY <3>1 DEF TypeOK, Opt
  <2>3. Forget(nas) \in [NasIds -> Opt(NasRows)]
    <3>1. \A r \in NasRows : [r EXCEPT !.cat = NULL] \in NasRows
      BY DEF NasRows, Opt
    <3>. QED
      BY <3>1 DEF TypeOK, Opt
  <2>4. /\ rows' \in {rows, Forget(rows)}
        /\ nas' \in {nas, Forget(nas)}
        /\ cats' = [cats EXCEPT ![c] = NULL]
        /\ UNCHANGED <<segs, next, clients, reloadLost>>
    BY <1>6 DEF CommitCategoryDelete, observers
  <2>. QED
    BY <2>1, <2>2, <2>3, <2>4 DEF TypeOK, Opt
<1>. QED
  BY <1>1, <1>2, <1>3, <1>4, <1>5, <1>6

(* The commits of the NAS handlers keep the types. *)
LEMMA NasCommitsType ==
    ASSUME TypeOK, TablesAssumption, NEW w \in Workers,
           CommitNasInsert(w) \/ CommitNasUpdate(w) \/ CommitNasDelete(w)
    PROVE  TypeOK'
<1>. DEFINE plan == req[w]
<1>0. plan \in Plans
  BY DEF TypeOK
<1>1. CASE CommitNasInsert(w)
  <2>1. plan.new \in NasRows
    BY <1>0, <1>1, PlanType DEF CommitNasInsert
  <2>2. {next.nas} \in SUBSET Nat
    BY DEF TypeOK
  <2>3. req' \in [Workers -> Plans]
    BY <1>1, <2>2, EndType, CommittedType DEF CommitNasInsert
  <2>4. nas' \in [NasIds -> Opt(NasRows)]
    BY <1>1, <2>1 DEF CommitNasInsert, TypeOK, Opt
  <2>5. next' \in [row : Nat \ {0}, seg : Nat \ {0}, cat : Nat \ {0}, nas : Nat \ {0}]
    BY <1>1 DEF CommitNasInsert, TypeOK
  <2>. QED
    BY <1>1, <2>3, <2>4, <2>5 DEF CommitNasInsert, TypeOK, observers
<1>2. CASE CommitNasUpdate(w)
  <2>. DEFINE n == plan.id
              moving == Live(plan.touched)
              merged == MergeNas(nas[n], plan.old, plan.new)
              after == [i \in RowIds |->
                  IF i \in moving
                  THEN MergeRow(rows[i], plan.touched[i],
                                Moved(plan.touched[i], plan.new.ip))
                  ELSE rows[i]]
  <2>1. /\ plan.op = "nasUpdate"
        /\ \/ /\ nas[n] # NULL /\ moving \subseteq Live(rows)
              /\ nas' = [nas EXCEPT ![n] = merged]
              /\ rows' = after
              /\ Committed(w, "nas", {n})
           \/ End(w) /\ UNCHANGED <<nas, rows>>
        /\ UNCHANGED <<segs, cats, next, clients, reloadLost>>
    BY <1>2 DEF CommitNasUpdate, observers
  <2>2. /\ n \in NasIds /\ plan.old \in NasRows /\ plan.new \in NasRows
        /\ plan.touched \in [RowIds -> Opt(Rows)]
    BY <1>0, <2>1, PlanType
  <2>3. nas[n] # NULL => merged \in NasRows
    BY <2>2 DEF TypeOK, Opt, MergeNas, Changed, NasRows
  <2>4. moving \subseteq Live(rows) => after \in [RowIds -> Opt(Rows)]
    <3>1. ASSUME moving \subseteq Live(rows), NEW i \in RowIds, i \in moving
          PROVE  MergeRow(rows[i], plan.touched[i],
                          Moved(plan.touched[i], plan.new.ip)) \in Rows
      <4>1. plan.touched[i] \in Rows /\ rows[i] \in Rows /\ plan.new.ip \in Ips
        BY <2>2, <3>1 DEF Live, Opt, TypeOK, NasRows
      <4>. QED
        BY <4>1, MovedType, MergeRowType
    <3>. QED
      BY <3>1 DEF TypeOK, Opt
  <2>5. {n} \in SUBSET Nat
    BY <2>2 DEF NasIds
  <2>6. req' \in [Workers -> Plans]
    BY <2>1, <2>5, EndType, CommittedType
  <2>. QED
    BY <2>1, <2>2, <2>3, <2>4, <2>6 DEF TypeOK, Opt
<1>3. CASE CommitNasDelete(w)
  <2>1. req' \in [Workers -> Plans]
    BY <1>3, CommittedType DEF CommitNasDelete
  <2>. QED
    BY <1>3, <2>1 DEF CommitNasDelete, TypeOK, Opt, observers
<1>. QED
  BY <1>1, <1>2, <1>3

(* A restart of FreeRADIUS reads addresses. *)
LEMMA NasNamesType == TypeOK => NasNames \in SUBSET Ips
BY DEF TypeOK, NasNames, Live, Opt, NasRows

(* Every step keeps the types. *)
LEMMA NextType ==
    ASSUME TypeOK, RequestsAssumption, TablesAssumption, [Next]_vars
    PROVE  TypeOK'
<1>1. ASSUME NEW w \in Workers, LogAudit(w)
      PROVE  TypeOK'
  <2>1. req' \in [Workers -> Plans]
    BY <1>1, EndType DEF LogAudit
  <2>2. clients' \in SUBSET Ips /\ reloadLost' \in BOOLEAN
    BY <1>1, NasNamesType DEF LogAudit, TypeOK
  <2>. QED
    BY <1>1, <2>1, <2>2 DEF LogAudit, TypeOK, tables
<1>2. CASE RadiusRestart
  BY <1>2, NasNamesType DEF RadiusRestart, TypeOK, tables
<1>3. CASE Crash
  <2>1. req' \in [Workers -> Plans]
    BY <1>3 DEF Crash, Plans
  <2>2. reloadLost' \in BOOLEAN
    BY <1>3 DEF Crash
  <2>. QED
    BY <1>3, <2>1, <2>2 DEF Crash, TypeOK, tables
<1>4. CASE UNCHANGED vars
  BY <1>4 DEF vars, TypeOK
<1>. QED
  BY <1>1, <1>2, <1>3, <1>4, ReadsType, AssignmentCommitsType, ParentCommitsType,
     NasCommitsType DEF Next

(* THE TYPE INVARIANT.  Whatever the requests, the interleaving of their
   reads and commits and the crashes, the tables hold well-formed rows and
   every worker holds a well-formed unit of work. *)
THEOREM TypeCorrect == Spec => []TypeOK
<1>1. Init => TypeOK
  BY InitType
<1>2. TypeOK /\ [Next]_vars => TypeOK'
  BY NextType, RequestsAssumption, TablesAssumption
<1>. QED
  BY <1>1, <1>2, PTL DEF Spec

-----------------------------------------------------------------------------
(* Requests served one at a time. *)

(* The ids network_segments has not handed out are free. *)
FreshSegIds == \A s \in SegIds : s >= next.seg => segs[s] = NULL

(* What the validators of access_policies.py and network_segments.py promise
   together about the segments and the rows that target them. *)
SegmentInv ==
    /\ SegmentsDisjoint
    /\ ExceptionsInSegment
    /\ ExceptionsDisjoint
    /\ OneBasePerSegment

(* What the segment invariants rest on when requests are served one at a
   time: what a handler validated on its reads still holds when its
   unit of work commits (access_policies.py, network_segments.py). *)
PlanCurrent(plan) ==
    /\ plan.op = "insert" =>
        /\ \A k \in DOMAIN plan.batch : SegmentTargetAllowed(plan.batch[k], NULL)
        /\ Len(plan.batch) = 1 \/ \A k \in DOMAIN plan.batch : plan.batch[k].seg = NULL
    /\ plan.op = "update" =>
        rows[plan.id] = plan.old /\ SegmentTargetAllowed(plan.new, plan.id)
    /\ plan.op = "segInsert" => CidrFree(plan.new.net, NULL)
    /\ plan.op = "segUpdate" =>
        /\ segs[plan.id] = plan.old
        /\ CidrFree(plan.new.net, plan.id)
        /\ plan.new.net = plan.old.net \/ ExceptionsFit(plan.id, plan.new.net)
    /\ plan.op = "nasUpdate" =>
        \A i \in Live(plan.touched) : plan.touched[i] = rows[i]

PlansCurrent == \A w \in Workers : PlanCurrent(req[w])

SerialInv == TypeOK /\ FreshSegIds /\ SegmentInv /\ PlansCurrent

(* A live row of t' that targets what the live row of t under its id did. *)
SameSegmentTarget(r, q) ==
    r.user = q.user /\ r.seg = q.seg /\ r.lo = q.lo /\ r.hi = q.hi

(* A step that only removes rows, or changes columns other than the user and
   the segment target, keeps the segment invariants. *)
LEMMA RowsKeepTargets ==
    ASSUME TypeOK, TypeOK', SegmentInv, UNCHANGED segs,
           \A i \in Live(rows') :
               i \in Live(rows) /\ SameSegmentTarget(rows'[i], rows[i])
    PROVE  SegmentInv'
<1>1. SegmentsDisjoint'
  BY DEF SegmentInv, SegmentsDisjoint, Live
<1>2. ExceptionsInSegment'
  BY DEF SegmentInv, ExceptionsInSegment, IsException, Given, SameSegmentTarget
<1>3. ExceptionsDisjoint'
  BY DEF SegmentInv, ExceptionsDisjoint, IsException, Given, RangesOverlap,
         SameSegmentTarget
<1>4. OneBasePerSegment'
  BY DEF SegmentInv, OneBasePerSegment, IsBase, SameSegmentTarget
<1>. QED
  BY <1>1, <1>2, <1>3, <1>4 DEF SegmentInv

(* Range overlap is symmetric. *)
LEMMA RangesOverlapSymmetric ==
    ASSUME NEW p, NEW r, p.lo \in Int, p.hi \in Int, r.lo \in Int, r.hi \in Int
    PROVE  RangesOverlap(p, r) <=> RangesOverlap(r, p)
BY DEF RangesOverlap

(* A bound that is given is an address. *)
LEMMA GivenBound ==
    ASSUME NEW x \in Bound, Given(x)
    PROVE  x \in Int
BY DEF Bound, Given, Ips

(* Writing one validated row under an id keeps the segment invariants. *)
LEMMA PutRow ==
    ASSUME TypeOK, SegmentInv, TablesAssumption, UNCHANGED segs,
           NEW i \in RowIds, NEW r \in Rows, NEW ex \in {i, NULL},
           SegmentTargetAllowed(r, ex),
           rows' = [rows EXCEPT ![i] = r]
    PROVE  SegmentInv'
<1>0. /\ Live(rows') \ {i} = Live(rows) \ {i}
      /\ \A j \in Live(rows) \ {i} : rows'[j] = rows[j] /\ rows[j] \in Rows
      /\ rows'[i] = r
      /\ \A j \in Live(rows) \ {i} : j \in Live(rows) \ {ex}
  BY DEF TypeOK, Live, Opt, TablesAssumption, RowIds
<1>1. SegmentsDisjoint'
  BY DEF SegmentInv, SegmentsDisjoint, Live
<1>2. ExceptionsInSegment'
  <2>1. IsException(r) => /\ segs[r.seg] # NULL
                          /\ Inside(r.lo, segs[r.seg].net) /\ Inside(r.hi, segs[r.seg].net)
    BY DEF SegmentTargetAllowed, RangeAllowed, IsException
  <2>. QED
    BY <1>0, <2>1 DEF SegmentInv, ExceptionsInSegment
<1>3. ExceptionsDisjoint'
  <2>1. ASSUME NEW j \in Live(rows) \ {i}, IsException(r), IsException(rows[j]),
               r.user = rows[j].user, r.seg = rows[j].seg
        PROVE  ~RangesOverlap(r, rows[j]) /\ ~RangesOverlap(rows[j], r)
    <3>1. j \in Siblings(r, ex)
      BY <1>0, <2>1 DEF Siblings
    <3>2. ~RangesOverlap(r, rows[j])
      BY <3>1, <2>1 DEF SegmentTargetAllowed, RangeAllowed, IsException
    <3>3. r.lo \in Int /\ r.hi \in Int /\ rows[j].lo \in Int /\ rows[j].hi \in Int
      BY <1>0, <2>1, GivenBound DEF IsException, Rows
    <3>. QED
      BY <3>2, <3>3, RangesOverlapSymmetric
  <2>. QED
    BY <1>0, <2>1 DEF SegmentInv, ExceptionsDisjoint
<1>4. OneBasePerSegment'
  <2>1. ASSUME NEW j \in Live(rows) \ {i}, IsBase(r), IsBase(rows[j]),
               r.user = rows[j].user
        PROVE  r.seg # rows[j].seg
    <3>1. SUFFICES ASSUME r.seg = rows[j].seg PROVE FALSE
      OBVIOUS
    <3>2. j \in Siblings(r, ex)
      BY <1>0, <2>1, <3>1 DEF Siblings
    <3>. QED
      BY <3>2, <2>1 DEF SegmentTargetAllowed, BaseAllowed, IsBase, Given
  <2>. QED
    BY <1>0, <2>1 DEF SegmentInv, OneBasePerSegment
<1>. QED
  BY <1>1, <1>2, <1>3, <1>4 DEF SegmentInv

(* A payload and the row made of it are validated alike. *)
LEMMA AsRowAllowed ==
    ASSUME NEW p, NEW ex, SegmentTargetAllowed(p, ex)
    PROVE  SegmentTargetAllowed(AsRow(p), ex)
BY DEF AsRow, SegmentTargetAllowed, RangeAllowed, BaseAllowed, Siblings, Given,
       RangesOverlap

(* The only worker holds a plan that is current: so are all plans. *)
LEMMA HoldCurrent ==
    ASSUME Serial, TypeOK, NEW w \in Workers, NEW plan, PlanCurrent(plan),
           Hold(w, plan)
    PROVE  PlansCurrent'
<1>1. UNCHANGED <<rows, segs>>
  BY DEF Hold, tables
<1>2. \A v \in Workers : req'[v] = plan
  BY DEF Hold, Serial, TypeOK
<1>3. PlanCurrent(plan)'
  BY <1>1 DEF PlanCurrent, SegmentTargetAllowed, RangeAllowed, BaseAllowed, Siblings,
              CidrFree, ExceptionsFit, Live
<1>. QED
  BY <1>2, <1>3 DEF PlansCurrent, PlanCurrent

(* Nothing is planned after an error response or a commit. *)
LEMMA QuietPlans ==
    ASSUME Serial, TypeOK, NEW w \in Workers,
           End(w) \/ \E t, i : Committed(w, t, i)
    PROVE  PlansCurrent'
<1>1. \A v \in Workers : req'[v].op \in {"idle", "audit"}
  BY DEF End, Committed, Idle, Serial, TypeOK
<1>. QED
  BY <1>1 DEF PlansCurrent, PlanCurrent

(* The reads of every handler end in a plan that is current. *)
LEMMA ReadsCurrent ==
    ASSUME Serial, SerialInv, RequestsAssumption, TablesAssumption, NEW w \in Workers,
           \/ CreateOrReplace(w) \/ CreateBulk(w) \/ UpdateAssignment(w)
           \/ DeleteAssignment(w)
           \/ CreateSegment(w) \/ UpdateSegment(w) \/ DeleteSegment(w)
           \/ CreateCategory(w) \/ UpdateCategory(w) \/ DeleteCategory(w)
           \/ CreateNas(w) \/ UpdateNas(w) \/ DeleteNas(w)
    PROVE  PlansCurrent'
<1>. USE DEF SerialInv
<1>. SUFFICES \E plan : PlanCurrent(plan) /\ Hold(w, plan)
  BY HoldCurrent
<1>1. CASE CreateOrReplace(w)
  <2>1. PICK p \in Posts :
          \/ /\ SegmentTargetAllowed(p, NULL)
             /\ Hold(w, [op |-> "insert", batch |-> <<AsRow(p)>>])
          \/ \E i \in {j \in Live(rows) : Replaces(p, rows[j])} :
               /\ SegmentTargetAllowed(p, i)
               /\ Hold(w, [op |-> "update", id |-> i, old |-> rows[i],
                           new |-> AsRow(p), logged |-> FALSE])
    BY <1>1 DEF CreateOrReplace
  <2>2. SegmentTargetAllowed(p, NULL) =>
          PlanCurrent([op |-> "insert", batch |-> <<AsRow(p)>>])
    BY AsRowAllowed DEF PlanCurrent
  <2>3. \A i : SegmentTargetAllowed(p, i) =>
          PlanCurrent([op |-> "update", id |-> i, old |-> rows[i],
                       new |-> AsRow(p), logged |-> FALSE])
    BY AsRowAllowed DEF PlanCurrent
  <2>. QED
    BY <2>1, <2>2, <2>3
<1>2. CASE CreateBulk(w)
  <2>1. PICK u \in Users, b \in Bulks :
          Hold(w, [op |-> "insert", batch |-> [k \in DOMAIN b |-> BulkRow(u, b[k])]])
    BY <1>2 DEF CreateBulk
  <2>2. \A k \in DOMAIN b : BulkRow(u, b[k]).seg = NULL
    BY DEF BulkRow, AsRow
  <2>3. PlanCurrent([op |-> "insert", batch |-> [k \in DOMAIN b |-> BulkRow(u, b[k])]])
    BY <2>2 DEF PlanCurrent, SegmentTargetAllowed
  <2>. QED
    BY <2>1, <2>3
<1>3. CASE UpdateAssignment(w)
  <2>1. PICK i \in RowIds, p \in Puts :
          /\ SegmentTargetAllowed(p, i)
          /\ Hold(w, [op |-> "update", id |-> i, old |-> rows[i],
                      new |-> AsRow(p), logged |-> TRUE])
    BY <1>3 DEF UpdateAssignment
  <2>2. PlanCurrent([op |-> "update", id |-> i, old |-> rows[i],
                     new |-> AsRow(p), logged |-> TRUE])
    BY <2>1, AsRowAllowed DEF PlanCurrent
  <2>. QED
    BY <2>1, <2>2
<1>4. CASE CreateSegment(w)
  BY <1>4 DEF CreateSegment, PlanCurrent
<1>5. CASE UpdateSegment(w)
  <2>1. PICK s \in Live(segs), n \in Opt(Names), net \in Opt(Nets) :
          /\ net # NULL => CidrFree(net, s) /\ ExceptionsFit(s, net)
          /\ Hold(w, [op |-> "segUpdate", id |-> s, old |-> segs[s],
                      new |-> [name |-> IF n = NULL THEN segs[s].name ELSE n,
                               net |-> IF net = NULL THEN segs[s].net ELSE net]])
    BY <1>5 DEF UpdateSegment
  <2>2. CidrFree(segs[s].net, s)
    BY DEF CidrFree, SegmentInv, SegmentsDisjoint
  <2>. QED
    BY <2>1, <2>2 DEF PlanCurrent
<1>6. CASE UpdateNas(w)
  <2>1. PICK n \in Live(nas), b \in NasBodies :
          Hold(w, [op |-> "nasUpdate", id |-> n, old |-> nas[n], new |-> b,
                   touched |-> [i \in RowIds |->
                       IF b.ip # nas[n].ip /\ rows[i] # NULL /\ rows[i].ip = nas[n].ip
                       THEN rows[i] ELSE NULL]])
    BY <1>6 DEF UpdateNas
  <2>. QED
    BY <2>1 DEF PlanCurrent, Live
<1>7. CASE \/ DeleteAssignment(w) \/ DeleteSegment(w) \/ CreateCategory(w)
           \/ UpdateCategory(w) \/ DeleteCategory(w) \/ CreateNas(w) \/ DeleteNas(w)
  BY <1>7 DEF DeleteAssignment, DeleteSegment, CreateCategory, UpdateCategory,
              DeleteCategory, CreateNas, DeleteNas, PlanCurrent
<1>. QED
  BY <1>1, <1>2, <1>3, <1>4, <1>5, <1>6, <1>7

(* A unit of work applied to the row it loaded writes its plan. *)
LEMMA MergeRowUnchanged ==
    ASSUME NEW old \in Rows, NEW new \in Rows
    PROVE  MergeRow(old, old, new) = new
BY DEF MergeRow, Changed, Rows

(* Each commit of an assignment handler keeps the segment invariants. *)
LEMMA AssignmentCommitsSerial ==
    ASSUME Serial, SerialInv, TypeOK', TablesAssumption, NEW w \in Workers,
           CommitInsert(w) \/ CommitUpdate(w) \/ CommitDelete(w)
    PROVE  SegmentInv'
<1>. USE DEF SerialInv
<1>. DEFINE plan == req[w]
<1>0. plan \in Plans /\ PlanCurrent(plan)
  BY DEF TypeOK, PlansCurrent
<1>1. CASE CommitInsert(w)
  <2>. DEFINE n == Len(plan.batch)
              new == next.row .. next.row + n - 1
              after == [i \in RowIds |->
                  IF i \in new THEN plan.batch[i - next.row + 1] ELSE rows[i]]
  <2>1. /\ plan.op = "insert"
        /\ next.row + n - 1 <= MaxRow
        /\ rows' = after \/ UNCHANGED rows
        /\ UNCHANGED segs
    BY <1>1 DEF CommitInsert, tables
  <2>2. plan.batch \in Seq(Rows)
    BY <1>0, <2>1, PlanType
  <2>3. n \in Nat /\ next.row \in Nat \ {0} /\ DOMAIN plan.batch = 1 .. n
    BY <2>2 DEF TypeOK
  <2>4. CASE UNCHANGED rows
    BY <2>1, <2>4, RowsKeepTargets DEF SameSegmentTarget
  <2>5. CASE rows' = after /\ n = 1
    <3>. DEFINE r == plan.batch[1]
    <3>1. r \in Rows /\ next.row \in RowIds
      BY <2>1, <2>2, <2>3, <2>5 DEF RowIds, TablesAssumption
    <3>2. rows' = [rows EXCEPT ![next.row] = r]
      <4>1. \A i \in RowIds : i \in new <=> i = next.row
        BY <2>3, <2>5 DEF RowIds
      <4>2. next.row - next.row + 1 = 1
        BY <2>3
      <4>3. after = [i \in RowIds |-> IF i = next.row THEN r ELSE rows[i]]
        BY <4>1, <4>2
      <4>. QED
        BY <2>5, <4>3 DEF TypeOK
    <3>3. SegmentTargetAllowed(r, NULL)
      BY <1>0, <2>1, <2>3, <2>5 DEF PlanCurrent
    <3>. QED
      BY <2>1, <3>1, <3>2, <3>3, PutRow
  <2>6. CASE rows' = after /\ \A k \in DOMAIN plan.batch : plan.batch[k].seg = NULL
    <3>1. \A i \in Live(rows') : \/ i \in Live(rows) /\ rows'[i] = rows[i]
                                 \/ rows'[i].seg = NULL
      <4>1. \A i \in RowIds : i \in new => i - next.row + 1 \in DOMAIN plan.batch
        BY <2>3 DEF RowIds
      <4>. QED
        BY <2>6, <4>1 DEF Live, TypeOK
    <3>2. SegmentsDisjoint'
      BY <2>1 DEF SegmentInv, SegmentsDisjoint, Live
    <3>3. ExceptionsInSegment'
      BY <2>1, <3>1 DEF SegmentInv, ExceptionsInSegment, IsException
    <3>4. ExceptionsDisjoint'
      BY <3>1 DEF SegmentInv, ExceptionsDisjoint, IsException
    <3>5. OneBasePerSegment'
      BY <3>1 DEF SegmentInv, OneBasePerSegment, IsBase
    <3>. QED
      BY <3>2, <3>3, <3>4, <3>5 DEF SegmentInv
  <2>. QED
    BY <1>0, <2>1, <2>4, <2>5, <2>6 DEF PlanCurrent
<1>2. CASE CommitUpdate(w)
  <2>. DEFINE i == plan.id
  <2>1. /\ plan.op = "update"
        /\ \/ /\ rows[i] # NULL
              /\ rows' = [rows EXCEPT ![i] = MergeRow(rows[i], plan.old, plan.new)]
           \/ UNCHANGED rows
        /\ UNCHANGED segs
    BY <1>2 DEF CommitUpdate
  <2>2. i \in RowIds /\ plan.old \in Rows /\ plan.new \in Rows
    BY <1>0, <2>1, PlanType
  <2>3. rows[i] = plan.old /\ SegmentTargetAllowed(plan.new, i)
    BY <1>0, <2>1 DEF PlanCurrent
  <2>4. MergeRow(rows[i], plan.old, plan.new) = plan.new
    BY <2>2, <2>3, MergeRowUnchanged
  <2>5. CASE UNCHANGED rows
    BY <2>1, <2>5, RowsKeepTargets DEF SameSegmentTarget
  <2>6. CASE rows' = [rows EXCEPT ![i] = plan.new]
    BY <2>1, <2>2, <2>3, <2>6, PutRow
  <2>. QED
    BY <2>1, <2>4, <2>5, <2>6
<1>3. CASE CommitDelete(w)
  <2>1. \A i \in Live(rows') : i \in Live(rows) /\ rows'[i] = rows[i]
    BY <1>3 DEF CommitDelete, Live, TypeOK
  <2>. QED
    BY <1>3, <2>1, RowsKeepTargets DEF CommitDelete, SameSegmentTarget
<1>. QED
  BY <1>1, <1>2, <1>3

(* Each commit of a segment handler keeps the segment invariants, and hands
   out segment ids in order. *)
LEMMA SegmentCommitsSerial ==
    ASSUME Serial, SerialInv, TypeOK', TablesAssumption, NEW w \in Workers,
           CommitSegmentInsert(w) \/ CommitSegmentUpdate(w) \/ CommitSegmentDelete(w)
    PROVE  SegmentInv' /\ FreshSegIds'
<1>. USE DEF SerialInv
<1>. DEFINE plan == req[w]
<1>0. plan \in Plans /\ PlanCurrent(plan)
  BY DEF TypeOK, PlansCurrent
<1>1. CASE UNCHANGED <<rows, segs, next>>
  BY <1>1, RowsKeepTargets DEF SameSegmentTarget, FreshSegIds
<1>2. CASE /\ plan.op = "segInsert" /\ next.seg <= MaxSeg
           /\ segs' = [segs EXCEPT ![next.seg] = plan.new]
           /\ next' = [next EXCEPT !.seg = @ + 1]
           /\ UNCHANGED rows
  <2>2. plan.new \in Segments /\ CidrFree(plan.new.net, NULL)
    BY <1>0, <1>2, PlanType DEF PlanCurrent
  <2>3. next.seg \in SegIds /\ segs[next.seg] = NULL
    BY <1>2 DEF TypeOK, SegIds, TablesAssumption, FreshSegIds
  <2>4. /\ segs'[next.seg] = plan.new
        /\ \A s \in SegIds \ {next.seg} : segs'[s] = segs[s]
        /\ \A s \in Live(segs') : s = next.seg \/ s \in Live(segs)
    BY <1>2, <2>3 DEF TypeOK, Live
  <2>5. SegmentsDisjoint'
    <3>1. \A s \in Live(segs) : /\ ~CidrsOverlap(segs[s].net, plan.new.net)
                                /\ ~CidrsOverlap(plan.new.net, segs[s].net)
                                /\ s \in SegIds \ {next.seg}
      BY <2>2, <2>3 DEF CidrFree, CidrsOverlap, Live, TablesAssumption, SegIds, TypeOK
    <3>. QED
      BY <2>4, <3>1 DEF SegmentInv, SegmentsDisjoint
  <2>6. ExceptionsInSegment'
    <3>1. \A i \in Live(rows) : IsException(rows[i]) =>
            rows[i].seg \in SegIds \ {next.seg}
      BY <2>3 DEF SegmentInv, ExceptionsInSegment, IsException, Live, TypeOK, Opt, Rows
    <3>. QED
      BY <1>2, <2>4, <3>1 DEF SegmentInv, ExceptionsInSegment
  <2>7. ExceptionsDisjoint' /\ OneBasePerSegment'
    BY <1>2 DEF SegmentInv, ExceptionsDisjoint, OneBasePerSegment
  <2>8. FreshSegIds'
    <3>1. next'.seg = next.seg + 1 /\ next.seg \in Nat
      BY <1>2 DEF TypeOK
    <3>. QED
      BY <2>4, <3>1 DEF FreshSegIds, SegIds
  <2>. QED
    BY <2>2, <2>3, <2>4, <2>5, <2>6, <2>7, <2>8 DEF SegmentInv
<1>3. CASE /\ plan.op = "segUpdate" /\ segs[plan.id] # NULL
           /\ segs' = [segs EXCEPT ![plan.id] =
                          MergeSegment(segs[plan.id], plan.old, plan.new)]
           /\ UNCHANGED <<rows, next>>
  <2>. DEFINE s == plan.id
  <2>1. s \in SegIds /\ plan.old \in Segments /\ plan.new \in Segments
    BY <1>0, <1>3, PlanType
  <2>2. /\ segs[s] = plan.old
        /\ CidrFree(plan.new.net, s)
        /\ plan.new.net = plan.old.net \/ ExceptionsFit(s, plan.new.net)
    BY <1>0, <1>3 DEF PlanCurrent
  <2>3. MergeSegment(segs[s], plan.old, plan.new).net = plan.new.net
    BY <2>2 DEF MergeSegment, Changed
  <2>4. /\ segs'[s] # NULL => segs'[s].net = plan.new.net
        /\ segs'[s].net = plan.new.net
        /\ \A t \in SegIds \ {s} : segs'[t] = segs[t]
        /\ \A t \in Live(segs') \ {s} : t \in Live(segs)
        /\ s \in Live(segs)
    BY <1>3, <2>1, <2>3 DEF TypeOK, Live
  <2>5. SegmentsDisjoint'
    <3>1. \A t \in Live(segs) \ {s} : /\ ~CidrsOverlap(segs[t].net, plan.new.net)
                                      /\ ~CidrsOverlap(plan.new.net, segs[t].net)
                                      /\ t \in SegIds
      BY <2>2 DEF CidrFree, CidrsOverlap, Live, TypeOK
    <3>. QED
      BY <2>4, <3>1 DEF SegmentInv, SegmentsDisjoint
  <2>6. ExceptionsInSegment'
    <3>1. MergeSegment(segs[s], plan.old, plan.new) # NULL
      BY <2>1, <2>2, NullAssumption DEF MergeSegment, Changed, Segments
    <3>. QED
      BY <1>3, <2>1, <2>2, <2>4, <3>1
         DEF SegmentInv, ExceptionsInSegment, ExceptionsFit, IsException, Given, Live, TypeOK
  <2>7. ExceptionsDisjoint' /\ OneBasePerSegment'
    BY <1>3 DEF SegmentInv, ExceptionsDisjoint, OneBasePerSegment
  <2>8. FreshSegIds'
    BY <1>3, <2>1 DEF FreshSegIds, TypeOK
  <2>. QED
    BY <2>5, <2>6, <2>7, <2>8 DEF SegmentInv
<1>4. CASE /\ plan.op = "segDelete"
           /\ \A i \in Live(rows) : rows[i].seg # plan.id
           /\ segs' = [segs EXCEPT ![plan.id] = NULL]
           /\ UNCHANGED <<rows, next>>
  <2>1. /\ \A t \in Live(segs') : t \in Live(segs) /\ segs'[t] = segs[t]
        /\ \A t \in SegIds \ {plan.id} : segs'[t] = segs[t]
    BY <1>4 DEF TypeOK, Live
  <2>2. SegmentsDisjoint'
    BY <2>1 DEF SegmentInv, SegmentsDisjoint
  <2>3. ExceptionsInSegment'
    <3>1. \A i \in Live(rows) : IsException(rows[i]) =>
            rows[i].seg \in SegIds \ {plan.id}
      BY <1>4 DEF IsException, Live, TypeOK, Opt, Rows
    <3>. QED
      BY <1>4, <2>1, <3>1 DEF SegmentInv, ExceptionsInSegment
  <2>4. ExceptionsDisjoint' /\ OneBasePerSegment'
    BY <1>4 DEF SegmentInv, ExceptionsDisjoint, OneBasePerSegment
  <2>5. FreshSegIds'
    BY <1>4 DEF FreshSegIds, TypeOK
  <2>. QED
    BY <2>2, <2>3, <2>4, <2>5 DEF SegmentInv
<1>. QED
  BY <1>1, <1>2, <1>3, <1>4
     DEF CommitSegmentInsert, CommitSegmentUpdate, CommitSegmentDelete
(* A renamed NAS moves rows without touching the user or the segment target. *)
LEMMA MovedKeepsTarget ==
    ASSUME NEW cur, NEW old \in Rows, NEW a
    PROVE  SameSegmentTarget(MergeRow(cur, old, Moved(old, a)), cur)
BY DEF SameSegmentTarget, MergeRow, Changed, Moved, Rows

(* The commits of category and NAS handlers keep the segment invariants:
   neither the ON DELETE SET NULL nor the cascaded rename reaches a range. *)
LEMMA ParentCommitsSerial ==
    ASSUME SerialInv, TypeOK', NEW w \in Workers,
           \/ CommitCategoryInsert(w) \/ CommitCategoryUpdate(w) \/ CommitCategoryDelete(w)
           \/ CommitNasInsert(w) \/ CommitNasUpdate(w) \/ CommitNasDelete(w)
    PROVE  SegmentInv' /\ FreshSegIds'
<1>. USE DEF SerialInv
<1>1. UNCHANGED segs /\ next'.seg = next.seg
  BY DEF CommitCategoryInsert, CommitCategoryUpdate, CommitCategoryDelete,
         CommitNasInsert, CommitNasUpdate, CommitNasDelete, TypeOK
<1>2. FreshSegIds'
  BY <1>1 DEF FreshSegIds
<1>3. CASE CommitCategoryDelete(w)
  <2>1. \A i \in RowIds : /\ rows[i] = NULL => rows'[i] = NULL
                          /\ rows[i] # NULL =>
                               \/ rows'[i] = rows[i]
                               \/ rows'[i] = [rows[i] EXCEPT !.cat = NULL]
    BY <1>3 DEF CommitCategoryDelete, TypeOK
  <2>2. \A i \in Live(rows') :
            i \in Live(rows) /\ SameSegmentTarget(rows'[i], rows[i])
    BY <2>1 DEF Live, TypeOK, Opt, Rows, SameSegmentTarget
  <2>. QED
    BY <1>1, <1>2, <2>2, RowsKeepTargets
<1>4. CASE CommitNasUpdate(w)
  <2>. DEFINE plan == req[w]
              moving == Live(plan.touched)
  <2>1. plan \in Plans /\ plan.op = "nasUpdate"
    BY <1>4 DEF CommitNasUpdate, TypeOK
  <2>2. \A i \in moving : plan.touched[i] \in Rows
    BY <2>1, PlanType DEF Live, Opt
  <2>3. \/ UNCHANGED rows
        \/ /\ moving \subseteq Live(rows)
           /\ rows' = [i \in RowIds |->
                  IF i \in moving
                  THEN MergeRow(rows[i], plan.touched[i],
                                Moved(plan.touched[i], plan.new.ip))
                  ELSE rows[i]]
    BY <1>4 DEF CommitNasUpdate
  <2>4. \A i \in Live(rows') :
            i \in Live(rows) /\ SameSegmentTarget(rows'[i], rows[i])
    <3>1. \A i \in RowIds : SameSegmentTarget(rows[i], rows[i])
      BY DEF SameSegmentTarget
    <3>2. CASE UNCHANGED rows
      BY <3>1, <3>2 DEF Live, TypeOK
    <3>3. CASE ~UNCHANGED rows
      <4>1. ASSUME NEW i \in Live(rows'), i \in moving
            PROVE  i \in Live(rows) /\ SameSegmentTarget(rows'[i], rows[i])
        <5>1. i \in RowIds /\ i \in Live(rows)
          BY <2>3, <3>3, <4>1 DEF Live, TypeOK
        <5>2. rows'[i] = MergeRow(rows[i], plan.touched[i],
                                  Moved(plan.touched[i], plan.new.ip))
          BY <2>3, <3>3, <4>1, <5>1
        <5>. QED
          BY <2>2, <4>1, <5>1, <5>2, MovedKeepsTarget
      <4>2. ASSUME NEW i \in Live(rows'), i \notin moving
            PROVE  i \in Live(rows) /\ rows'[i] = rows[i]
        <5>1. i \in RowIds /\ rows'[i] # NULL
          BY DEF Live, TypeOK
        <5>. QED
          BY <2>3, <3>3, <4>2, <5>1 DEF Live, TypeOK
      <4>. QED
        BY <4>1, <4>2 DEF SameSegmentTarget
    <3>. QED
      BY <3>2, <3>3
  <2>. QED
    BY <1>1, <1>2, <2>4, RowsKeepTargets
<1>5. CASE UNCHANGED rows
  BY <1>1, <1>2, <1>5, RowsKeepTargets DEF SameSegmentTarget
<1>. QED
  BY <1>3, <1>4, <1>5
     DEF CommitCategoryInsert, CommitCategoryUpdate, CommitNasInsert, CommitNasDelete

(* Steps that leave the tables alone: an audit, a container restart, a crash
   and a stuttering step. *)
LEMMA QuietStepsSerial ==
    ASSUME Serial, SerialInv, TypeOK',
           \/ \E w \in Workers : LogAudit(w)
           \/ RadiusRestart \/ Crash \/ UNCHANGED vars
    PROVE  SerialInv'
<1>. USE DEF SerialInv
<1>1. UNCHANGED <<rows, segs, next>>
  BY DEF LogAudit, RadiusRestart, Crash, vars, tables
<1>2. SegmentInv' /\ FreshSegIds'
  BY <1>1, RowsKeepTargets DEF SameSegmentTarget, FreshSegIds
<1>3. PlansCurrent'
  <2>1. CASE \E w \in Workers : LogAudit(w)
    BY <2>1, QuietPlans DEF LogAudit
  <2>2. CASE Crash
    BY <2>2 DEF Crash, Idle, PlansCurrent, PlanCurrent
  <2>3. CASE UNCHANGED req
    BY <1>1, <2>3 DEF PlansCurrent, PlanCurrent, SegmentTargetAllowed, RangeAllowed,
                      BaseAllowed, Siblings, CidrFree, ExceptionsFit, Live
  <2>. QED
    BY <2>1, <2>2, <2>3 DEF RadiusRestart, vars
<1>. QED
  BY <1>2, <1>3

(* Every step of a backend that serves one request at a time keeps the
   inductive invariant. *)
LEMMA SerialStep ==
    ASSUME Serial, SerialInv, TypeOK', [Next]_vars
    PROVE  SerialInv'
<1>. USE RequestsAssumption, TablesAssumption
<1>1. CASE \E w \in Workers :
             \/ CreateOrReplace(w) \/ CreateBulk(w) \/ UpdateAssignment(w)
             \/ DeleteAssignment(w)
             \/ CreateSegment(w) \/ UpdateSegment(w) \/ DeleteSegment(w)
             \/ CreateCategory(w) \/ UpdateCategory(w) \/ DeleteCategory(w)
             \/ CreateNas(w) \/ UpdateNas(w) \/ DeleteNas(w)
  <2>1. PlansCurrent'
    BY <1>1, ReadsCurrent
  <2>2. UNCHANGED <<rows, segs, next>>
    BY <1>1 DEF CreateOrReplace, CreateBulk, UpdateAssignment, DeleteAssignment,
                CreateSegment, UpdateSegment, DeleteSegment, CreateCategory,
                UpdateCategory, DeleteCategory, CreateNas, UpdateNas, DeleteNas,
                Hold, tables
  <2>3. SegmentInv' /\ FreshSegIds'
    BY <2>2, RowsKeepTargets DEF SerialInv, SameSegmentTarget, FreshSegIds
  <2>. QED
    BY <2>1, <2>3 DEF SerialInv
<1>2. CASE \E w \in Workers : CommitInsert(w) \/ CommitUpdate(w) \/ CommitDelete(w)
  <2>1. SegmentInv'
    BY <1>2, AssignmentCommitsSerial
  <2>2. FreshSegIds'
    BY <1>2 DEF CommitInsert, CommitUpdate, CommitDelete, tables, SerialInv,
                FreshSegIds, TypeOK
  <2>3. PlansCurrent'
    BY <1>2, QuietPlans DEF CommitInsert, CommitUpdate, CommitDelete, SerialInv
  <2>. QED
    BY <2>1, <2>2, <2>3 DEF SerialInv
<1>3. CASE \E w \in Workers : \/ CommitSegmentInsert(w) \/ CommitSegmentUpdate(w)
                              \/ CommitSegmentDelete(w)
  <2>1. PlansCurrent'
    BY <1>3, QuietPlans DEF CommitSegmentInsert, CommitSegmentUpdate,
                            CommitSegmentDelete, SerialInv
  <2>. QED
    BY <1>3, <2>1, SegmentCommitsSerial DEF SerialInv
<1>4. CASE \E w \in Workers :
             \/ CommitCategoryInsert(w) \/ CommitCategoryUpdate(w)
             \/ CommitCategoryDelete(w)
             \/ CommitNasInsert(w) \/ CommitNasUpdate(w) \/ CommitNasDelete(w)
  <2>1. PlansCurrent'
    BY <1>4, QuietPlans
       DEF CommitCategoryInsert, CommitCategoryUpdate, CommitCategoryDelete,
           CommitNasInsert, CommitNasUpdate, CommitNasDelete, SerialInv
  <2>. QED
    BY <1>4, <2>1, ParentCommitsSerial DEF SerialInv
<1>5. CASE (\E w \in Workers : LogAudit(w)) \/ RadiusRestart \/ Crash \/ UNCHANGED vars
  BY <1>5, QuietStepsSerial
<1>. QED
  BY <1>1, <1>2, <1>3, <1>4, <1>5 DEF Next

(* The empty tables satisfy the inductive invariant. *)
LEMMA SerialInit == Init => SerialInv
<1>. SUFFICES ASSUME Init PROVE SerialInv
  OBVIOUS
<1>1. TypeOK
  BY InitType
<1>2. Live(rows) = {} /\ Live(segs) = {}
  BY DEF Init, Live
<1>3. FreshSegIds
  BY DEF Init, FreshSegIds
<1>4. PlansCurrent
  BY DEF Init, PlansCurrent, PlanCurrent, Idle
<1>. QED
  BY <1>1, <1>2, <1>3, <1>4
     DEF SerialInv, SegmentInv, SegmentsDisjoint, ExceptionsInSegment,
         ExceptionsDisjoint, OneBasePerSegment

(* THE VALIDATORS ARE SUFFICIENT WHEN REQUESTS DO NOT OVERLAP.  For any
   tables, any valid bodies and any sequence of requests, restarts and
   crashes, segments stay disjoint, exceptions stay inside their segment and
   apart from each other, a user has one base policy per segment, and every
   unit of work is still valid when it commits. *)
THEOREM SerialSafety ==
    ASSUME Serial
    PROVE  Spec => [](/\ SegmentsDisjoint /\ ExceptionsInSegment /\ ExceptionsDisjoint
                      /\ OneBasePerSegment /\ PlansCurrent)
<1>1. Init => SerialInv
  BY SerialInit
<1>2. SerialInv /\ [Next]_vars => SerialInv'
  BY NextType, SerialStep, RequestsAssumption, TablesAssumption DEF SerialInv
<1>3. SerialInv => /\ SegmentsDisjoint /\ ExceptionsInSegment /\ ExceptionsDisjoint
                   /\ OneBasePerSegment /\ PlansCurrent
  BY DEF SerialInv, SegmentInv
<1>. QED
  BY <1>1, <1>2, <1>3, PTL DEF Spec

(* TWO SEGMENTS NEVER OVERLAP, when requests are served one at a time. *)
THEOREM SegmentsNeverOverlap ==
    ASSUME Serial
    PROVE  Spec => []SegmentsDisjoint
BY SerialSafety, PTL

(* TWO EXCEPTIONS NEVER CLAIM ONE ADDRESS for one user in one segment, when
   requests are served one at a time. *)
THEOREM ExceptionsNeverOverlap ==
    ASSUME Serial
    PROVE  Spec => []ExceptionsDisjoint
BY SerialSafety, PTL

(* ONE BASE POLICY per user and segment, when requests are served one at a
   time: the database has no constraint that says so. *)
THEOREM OneBaseEach ==
    ASSUME Serial
    PROVE  Spec => []OneBasePerSegment
BY SerialSafety, PTL

-----------------------------------------------------------------------------
(* Requests served concurrently. *)

(* The step of each handler's commit leaves every deleted row deleted. *)
LEMMA CommitsKeepDeleted ==
    ASSUME TypeOK, NEW w \in Workers,
           \/ CommitInsert(w) \/ CommitUpdate(w) \/ CommitDelete(w)
           \/ CommitSegmentInsert(w) \/ CommitSegmentUpdate(w) \/ CommitSegmentDelete(w)
           \/ CommitCategoryInsert(w) \/ CommitCategoryUpdate(w) \/ CommitCategoryDelete(w)
           \/ CommitNasInsert(w) \/ CommitNasUpdate(w) \/ CommitNasDelete(w)
    PROVE  StaysDeleted
<1>1. CASE CommitInsert(w)
  <2>1. \A i \in RowIds : i < next.row =>
            i \notin next.row .. next.row + Len(req[w].batch) - 1
    BY DEF RowIds, TypeOK
  <2>. QED
    BY <1>1, <2>1 DEF CommitInsert, StaysDeleted, tables
<1>2. CASE CommitUpdate(w) \/ CommitDelete(w)
  BY <1>2 DEF CommitUpdate, CommitDelete, StaysDeleted, TypeOK
<1>0. /\ \A s \in SegIds : s < next.seg => s # next.seg
      /\ \A c \in CatIds : c < next.cat => c # next.cat
      /\ \A n \in NasIds : n < next.nas => n # next.nas
  BY DEF TypeOK, SegIds, CatIds, NasIds
<1>3. CASE CommitSegmentInsert(w) \/ CommitSegmentUpdate(w) \/ CommitSegmentDelete(w)
  <2>1. /\ UNCHANGED <<rows, cats, nas>>
        /\ \/ UNCHANGED segs
           \/ \E x : segs' = [segs EXCEPT ![next.seg] = x]
           \/ \E s, x : segs[s] # NULL /\ segs' = [segs EXCEPT ![s] = x]
           \/ \E s : segs' = [segs EXCEPT ![s] = NULL]
    BY <1>3 DEF CommitSegmentInsert, CommitSegmentUpdate, CommitSegmentDelete
  <2>. QED
    BY <1>0, <2>1 DEF StaysDeleted, TypeOK
<1>4. CASE CommitCategoryInsert(w) \/ CommitCategoryUpdate(w)
  <2>1. /\ UNCHANGED <<rows, segs, nas>>
        /\ \/ UNCHANGED cats
           \/ \E x : cats' = [cats EXCEPT ![next.cat] = x]
           \/ \E c, x : cats[c] # NULL /\ cats' = [cats EXCEPT ![c] = x]
    BY <1>4 DEF CommitCategoryInsert, CommitCategoryUpdate
  <2>. QED
    BY <1>0, <2>1 DEF StaysDeleted, TypeOK
<1>5. CASE CommitCategoryDelete(w)
  BY <1>5 DEF CommitCategoryDelete, StaysDeleted, TypeOK
<1>6. CASE CommitNasInsert(w) \/ CommitNasDelete(w)
  <2>1. /\ UNCHANGED <<rows, segs, cats>>
        /\ \/ UNCHANGED nas
           \/ \E x : nas' = [nas EXCEPT ![next.nas] = x]
           \/ \E n : nas' = [nas EXCEPT ![n] = NULL]
    BY <1>6 DEF CommitNasInsert, CommitNasDelete
  <2>. QED
    BY <1>0, <2>1 DEF StaysDeleted, TypeOK
<1>7. CASE CommitNasUpdate(w)
  <2>. DEFINE plan == req[w]
              moving == Live(plan.touched)
  <2>1. /\ UNCHANGED <<segs, cats>>
        /\ \/ UNCHANGED <<nas, rows>>
           \/ /\ nas[plan.id] # NULL /\ moving \subseteq Live(rows)
              /\ nas' = [nas EXCEPT ![plan.id] = MergeNas(nas[plan.id], plan.old, plan.new)]
              /\ rows' = [i \in RowIds |->
                     IF i \in moving
                     THEN MergeRow(rows[i], plan.touched[i],
                                   Moved(plan.touched[i], plan.new.ip))
                     ELSE rows[i]]
    BY <1>7 DEF CommitNasUpdate
  <2>2. \A i \in RowIds : rows[i] = NULL => rows'[i] = NULL
    BY <2>1 DEF Live
  <2>3. \A n \in NasIds : nas[n] = NULL => nas'[n] = NULL
    BY <2>1 DEF TypeOK
  <2>. QED
    BY <2>1, <2>2, <2>3 DEF StaysDeleted
<1>. QED
  BY <1>1, <1>2, <1>3, <1>4, <1>5, <1>6, <1>7

(* NO RESURRECTION.  However the reads and commits of any number of handlers
   interleave, a row of any of the four tables that was deleted stays
   deleted: no handler that had loaded it writes it back. *)
THEOREM DeletedStaysDeleted == Spec => NoResurrection
<1>1. ASSUME TypeOK, [Next]_vars PROVE [StaysDeleted]_vars
  <2>1. CASE UNCHANGED tables
    BY <2>1 DEF tables, StaysDeleted
  <2>2. CASE \E w \in Workers :
           \/ CommitInsert(w) \/ CommitUpdate(w) \/ CommitDelete(w)
           \/ CommitSegmentInsert(w) \/ CommitSegmentUpdate(w) \/ CommitSegmentDelete(w)
           \/ CommitCategoryInsert(w) \/ CommitCategoryUpdate(w) \/ CommitCategoryDelete(w)
           \/ CommitNasInsert(w) \/ CommitNasUpdate(w) \/ CommitNasDelete(w)
    BY <1>1, <2>2, CommitsKeepDeleted
  <2>3. CASE \E w \in Workers :
           \/ CreateOrReplace(w) \/ CreateBulk(w) \/ UpdateAssignment(w)
           \/ DeleteAssignment(w)
           \/ CreateSegment(w) \/ UpdateSegment(w) \/ DeleteSegment(w)
           \/ CreateCategory(w) \/ UpdateCategory(w) \/ DeleteCategory(w)
           \/ CreateNas(w) \/ UpdateNas(w) \/ DeleteNas(w)
    <3>1. UNCHANGED tables
      BY <2>3 DEF CreateOrReplace, CreateBulk, UpdateAssignment, DeleteAssignment,
                  CreateSegment, UpdateSegment, DeleteSegment, CreateCategory,
                  UpdateCategory, DeleteCategory, CreateNas, UpdateNas, DeleteNas, Hold
    <3>. QED
      BY <2>1, <3>1
  <2>4. CASE (\E w \in Workers : LogAudit(w)) \/ RadiusRestart \/ Crash \/ UNCHANGED vars
    BY <2>1, <2>4 DEF LogAudit, RadiusRestart, Crash, vars, tables
  <2>. QED
    BY <1>1, <2>2, <2>3, <2>4 DEF Next
<1>2. TypeOK /\ [Next]_vars => [StaysDeleted]_vars
  BY <1>1
<1>. QED
  BY <1>2, TypeCorrect, PTL DEF Spec, NoResurrection

-----------------------------------------------------------------------------
(* The last reload of FreeRADIUS comes after the last change of nas. *)

(* Worker w will reload: log_audit finds every row it is to refresh. *)
Owed(w) == NasPending(w) /\ req[w].ids \subseteq Live(nas)

(* FreeRADIUS is up to date, or a reload was lost, or one is still to come
   that nothing can call off but a delete, which owes a reload itself. *)
ReloadOwed ==
    \/ reloadLost
    \/ clients = NasNames
    \/ \E w \in Workers : Owed(w)

(* A worker that owes nothing leaves what the others owe, as long as it
   leaves the addresses of the nas table alone. *)
LEMMA OwedKept ==
    ASSUME ReloadOwed, UNCHANGED <<clients, reloadLost>>,
           NasNames' = NasNames, Live(nas') = Live(nas),
           NEW w \in Workers, ~Owed(w), \A v \in Workers \ {w} : req'[v] = req[v]
    PROVE  ReloadOwed'
<1>1. CASE reloadLost \/ clients = NasNames
  BY <1>1 DEF ReloadOwed
<1>2. ASSUME NEW v \in Workers, Owed(v) PROVE Owed(v)'
  <2>1. req'[v] = req[v]
    BY <1>2
  <2>. QED
    BY <1>2, <2>1 DEF Owed, NasPending
<1>. QED
  BY <1>1, <1>2 DEF ReloadOwed

(* Every commit of a NAS handler owes a reload, and a refused one owes none. *)
LEMMA NasCommitsOwe ==
    ASSUME TypeOK, TypeOK', TablesAssumption, ReloadOwed, NEW w \in Workers,
           CommitNasInsert(w) \/ CommitNasUpdate(w) \/ CommitNasDelete(w)
    PROVE  ReloadOwed'
<1>1. /\ ~Owed(w) /\ UNCHANGED <<clients, reloadLost>>
      /\ \A v \in Workers \ {w} : req'[v] = req[v]
  BY DEF CommitNasInsert, CommitNasUpdate, CommitNasDelete, observers, End, Committed,
         Owed, NasPending, TypeOK
<1>2. CASE UNCHANGED nas
  <2>1. NasNames' = NasNames
    BY <1>2 DEF NasNames, Live
  <2>. QED
    BY <1>1, <1>2, <2>1, OwedKept
<1>3. SUFFICES ASSUME ~UNCHANGED nas PROVE Owed(w)'
  BY <1>2 DEF ReloadOwed
<1>4. ASSUME NEW i, Committed(w, "nas", i), i \subseteq Live(nas')
      PROVE  Owed(w)'
  <2>1. req'[w] = [op |-> "audit", table |-> "nas", ids |-> i]
    BY <1>4 DEF Committed, TypeOK
  <2>. QED
    BY <1>4, <2>1 DEF Owed, NasPending
<1>5. CASE CommitNasInsert(w)
  <2>. DEFINE n == next.nas
              b == req[w].new
  <2>1. /\ Committed(w, "nas", {n}) /\ nas' = [nas EXCEPT ![n] = b]
        /\ req[w].op = "nasInsert" /\ n <= MaxNas
    BY <1>3, <1>5 DEF CommitNasInsert
  <2>2. n \in NasIds
    BY <2>1 DEF TypeOK, NasIds, TablesAssumption
  <2>3. b \in NasRows
    BY <2>1, PlanType DEF TypeOK
  <2>4. nas'[n] = b /\ n \in DOMAIN nas'
    BY <2>1, <2>2 DEF TypeOK
  <2>5. n \in Live(nas')
    BY <2>3, <2>4, NullAssumption DEF Live
  <2>. QED
    BY <1>4, <2>1, <2>5
<1>6. CASE CommitNasUpdate(w)
  <2>. DEFINE n == req[w].id
              merged == MergeNas(nas[n], req[w].old, req[w].new)
  <2>1. /\ Committed(w, "nas", {n}) /\ nas' = [nas EXCEPT ![n] = merged]
        /\ req[w].op = "nasUpdate"
    BY <1>3, <1>6 DEF CommitNasUpdate
  <2>2. n \in NasIds
    BY <2>1, PlanType DEF TypeOK
  <2>3. nas'[n] = merged /\ n \in DOMAIN nas' /\ nas'[n] \in Opt(NasRows)
    BY <2>1, <2>2 DEF TypeOK
  <2>4. nas'[n] # NULL
    <3>1. nas[n] # NULL
      BY <1>3, <1>6 DEF CommitNasUpdate
    <3>2. nas[n] \in NasRows /\ req[w].old \in NasRows /\ req[w].new \in NasRows
      BY <2>1, <2>2, <3>1, PlanType DEF TypeOK, Opt
    <3>3. merged \in NasRows
      BY <3>2 DEF MergeNas, Changed, NasRows
    <3>. QED
      BY <2>3, <3>3, NullAssumption
  <2>5. n \in Live(nas')
    BY <2>3, <2>4 DEF Live
  <2>. QED
    BY <1>4, <2>1, <2>5
<1>7. CASE CommitNasDelete(w)
  BY <1>4, <1>7 DEF CommitNasDelete
<1>. QED
  BY <1>5, <1>6, <1>7

(* Deleting a category changes no address of the nas table. *)
LEMMA ForgettingKeepsNames ==
    ASSUME TypeOK, NEW w \in Workers, CommitCategoryDelete(w)
    PROVE  NasNames' = NasNames /\ Live(nas') = Live(nas)
<1>1. DOMAIN nas' = DOMAIN nas
  BY DEF CommitCategoryDelete
<1>2. ASSUME NEW n \in DOMAIN nas
      PROVE  /\ nas'[n] = NULL <=> nas[n] = NULL
             /\ nas[n] # NULL => nas'[n].ip = nas[n].ip
  <2>1. \/ nas'[n] = nas[n]
        \/ nas[n] # NULL /\ nas'[n] = [nas[n] EXCEPT !.cat = NULL]
    BY DEF CommitCategoryDelete
  <2>2. nas[n] # NULL => nas[n] \in NasRows
    BY DEF TypeOK, Opt
  <2>3. \A r \in NasRows : /\ [r EXCEPT !.cat = NULL] \in NasRows
                           /\ [r EXCEPT !.cat = NULL].ip = r.ip
    BY DEF NasRows, Opt
  <2>. QED
    BY <2>1, <2>2, <2>3, NullAssumption
<1>3. Live(nas') = Live(nas)
  BY <1>1, <1>2 DEF Live
<1>4. \A n \in Live(nas) : nas'[n].ip = nas[n].ip
  BY <1>2 DEF Live
<1>. QED
  BY <1>3, <1>4 DEF NasNames

(* Every step keeps reloads owed until they are done or lost. *)
LEMMA OwedStep ==
    ASSUME TypeOK, TypeOK', ReloadOwed, [Next]_vars
    PROVE  ReloadOwed'
<1>. USE TablesAssumption
<1>1. ASSUME NEW w \in Workers,
             \/ CreateOrReplace(w) \/ CreateBulk(w) \/ UpdateAssignment(w)
             \/ DeleteAssignment(w)
             \/ CreateSegment(w) \/ UpdateSegment(w) \/ DeleteSegment(w)
             \/ CreateCategory(w) \/ UpdateCategory(w) \/ DeleteCategory(w)
             \/ CreateNas(w) \/ UpdateNas(w) \/ DeleteNas(w)
      PROVE  ReloadOwed'
  <2>1. \E plan : Hold(w, plan)
    BY <1>1 DEF CreateOrReplace, CreateBulk, UpdateAssignment, DeleteAssignment,
                CreateSegment, UpdateSegment, DeleteSegment, CreateCategory,
                UpdateCategory, DeleteCategory, CreateNas, UpdateNas, DeleteNas
  <2>2. /\ UNCHANGED <<nas, clients, reloadLost>> /\ ~Owed(w)
        /\ \A v \in Workers \ {w} : req'[v] = req[v]
    BY <2>1 DEF Hold, Idle, tables, observers, Owed, NasPending, TypeOK
  <2>3. NasNames' = NasNames
    BY <2>2 DEF NasNames, Live
  <2>. QED
    BY <2>2, <2>3, OwedKept
<1>2. ASSUME NEW w \in Workers,
             \/ CommitInsert(w) \/ CommitUpdate(w) \/ CommitDelete(w)
             \/ CommitSegmentInsert(w) \/ CommitSegmentUpdate(w)
             \/ CommitSegmentDelete(w)
             \/ CommitCategoryInsert(w) \/ CommitCategoryUpdate(w)
      PROVE  ReloadOwed'
  <2>1. /\ UNCHANGED <<nas, clients, reloadLost>> /\ ~Owed(w)
        /\ End(w) \/ \E t, i : Committed(w, t, i)
    BY <1>2 DEF CommitInsert, CommitUpdate, CommitDelete, CommitSegmentInsert,
                CommitSegmentUpdate, CommitSegmentDelete, CommitCategoryInsert,
                CommitCategoryUpdate, tables, observers, Owed, NasPending
  <2>2. \A v \in Workers \ {w} : req'[v] = req[v]
    BY <2>1 DEF End, Committed, TypeOK
  <2>3. NasNames' = NasNames
    BY <2>1 DEF NasNames, Live
  <2>. QED
    BY <2>1, <2>2, <2>3, OwedKept
<1>3. ASSUME NEW w \in Workers, CommitCategoryDelete(w)
      PROVE  ReloadOwed'
  <2>1. /\ UNCHANGED <<clients, reloadLost>> /\ ~Owed(w)
        /\ \A v \in Workers \ {w} : req'[v] = req[v]
    BY <1>3 DEF CommitCategoryDelete, Committed, observers, Owed, NasPending, TypeOK
  <2>. QED
    BY <1>3, <2>1, ForgettingKeepsNames, OwedKept
<1>4. ASSUME NEW w \in Workers, LogAudit(w)
      PROVE  ReloadOwed'
  <2>1. /\ UNCHANGED nas
        /\ \A v \in Workers \ {w} : req'[v] = req[v]
    BY <1>4 DEF LogAudit, End, tables, TypeOK
  <2>2. NasNames' = NasNames
    BY <2>1 DEF NasNames, Live
  <2>3. CASE Owed(w)
    BY <1>4, <2>2, <2>3 DEF LogAudit, Owed, NasPending, TableOf, ReloadOwed
  <2>4. CASE ~Owed(w)
    <3>1. UNCHANGED <<clients, reloadLost>>
      BY <1>4, <2>4 DEF LogAudit, Owed, NasPending, TableOf
    <3>. QED
      BY <2>1, <2>2, <2>4, <3>1, OwedKept
  <2>. QED
    BY <2>3, <2>4
<1>5. CASE RadiusRestart
  BY <1>5 DEF RadiusRestart, ReloadOwed, NasNames, Live, tables
<1>6. CASE Crash
  <2>1. NasNames' = NasNames /\ clients' = clients
    BY <1>6 DEF Crash, NasNames, Live, tables
  <2>. QED
    BY <1>6, <2>1 DEF Crash, ReloadOwed, Owed
<1>7. CASE UNCHANGED vars
  <2>1. NasNames' = NasNames /\ UNCHANGED <<nas, req, clients, reloadLost>>
    BY <1>7 DEF NasNames, Live, vars
  <2>. QED
    BY <2>1 DEF ReloadOwed, Owed, NasPending
<1>. QED
  BY <1>1, <1>2, <1>3, <1>4, <1>5, <1>6, <1>7, NasCommitsOwe DEF Next

(* THE LAST RELOAD COMES AFTER THE LAST COMMIT.  For any number of handlers
   of the nas table at once, any crashes and restarts: when no handler has
   its log_audit still to run and no reload was lost, FreeRADIUS trusts
   exactly the addresses of the table.  A handler whose refresh fails skips
   its reload; the invariant says why that is harmless: only a delete makes
   a refresh fail, and the delete owes a reload of its own. *)
THEOREM ReloadFollowsChange == Spec => []ClientsFresh
<1>1. Init => TypeOK /\ ReloadOwed
  BY InitType DEF Init, ReloadOwed, NasNames, Live
<1>2. TypeOK /\ ReloadOwed /\ [Next]_vars => (TypeOK /\ ReloadOwed)'
  BY NextType, OwedStep, RequestsAssumption, TablesAssumption
<1>3. ReloadOwed => ClientsFresh
  BY DEF ReloadOwed, Owed, ClientsFresh
<1>. QED
  BY <1>1, <1>2, <1>3, PTL DEF Spec

-----------------------------------------------------------------------------
(* No assignment refers to a segment or a category that is gone, and no NAS *)
(* to such a category. *)

(* A step that deletes no segment and no category, and gives every row either
   no new reference or references the database has just checked. *)
LEMMA ParentsKept ==
    ASSUME TypeOK, TypeOK', RowsHaveParents,
           \A s \in SegIds : segs[s] # NULL => segs'[s] # NULL,
           \A c \in CatIds : cats[c] # NULL => cats'[c] # NULL,
           \A i \in Live(rows') :
               \/ HasParents(rows'[i])
               \/ /\ i \in Live(rows)
                  /\ rows'[i].seg = rows[i].seg /\ rows'[i].cat = rows[i].cat
    PROVE  RowsHaveParents'
<1>1. SUFFICES ASSUME NEW i \in Live(rows')
               PROVE  HasParents(rows[i])'
  BY DEF RowsHaveParents
<1>2. HasParents(rows'[i])
  <2>1. CASE /\ i \in Live(rows)
             /\ rows'[i].seg = rows[i].seg /\ rows'[i].cat = rows[i].cat
    BY <2>1 DEF RowsHaveParents, HasParents
  <2>. QED
    BY <2>1
<1>3. rows'[i].seg \in Opt(SegIds) /\ rows'[i].cat \in Opt(CatIds)
  BY DEF TypeOK, Live, Opt, Rows
<1>. QED
  BY <1>2, <1>3 DEF HasParents, Opt

(* The commits of the assignment handlers: a foreign key is checked on what
   is written, so on what a stale unit of work makes of the row. *)
LEMMA AssignmentCommitsParents ==
    ASSUME TypeOK, TypeOK', TablesAssumption, RowsHaveParents, NEW w \in Workers,
           CommitInsert(w) \/ CommitUpdate(w) \/ CommitDelete(w)
    PROVE  RowsHaveParents'
<1>. DEFINE Checked == \A i \in Live(rows') :
               \/ HasParents(rows'[i])
               \/ i \in Live(rows) /\ rows'[i] = rows[i]
<1>1. UNCHANGED <<segs, cats>>
  BY DEF CommitInsert, CommitUpdate, CommitDelete, tables
<1>2. SUFFICES Checked
  BY <1>1, ParentsKept
<1>3. CASE CommitInsert(w)
  <2>. DEFINE plan == req[w]
              n == Len(plan.batch)
              new == next.row .. next.row + n - 1
              after == [i \in RowIds |->
                  IF i \in new THEN plan.batch[i - next.row + 1] ELSE rows[i]]
  <2>1. /\ plan.op = "insert"
        /\ \/ rows' = after /\ \A k \in 1 .. n : HasParents(plan.batch[k])
           \/ UNCHANGED rows
    BY <1>3 DEF CommitInsert, tables
  <2>2. plan.batch \in Seq(Rows)
    BY <2>1, PlanType DEF TypeOK
  <2>3. n \in Nat /\ next.row \in Nat \ {0}
    BY <2>2 DEF TypeOK
  <2>4. \A i \in RowIds : i \in new => i - next.row + 1 \in 1 .. n
    BY <2>3 DEF RowIds
  <2>. QED
    BY <2>1, <2>4 DEF Live, TypeOK
<1>4. CASE CommitUpdate(w)
  <2>. DEFINE i == req[w].id
              merged == MergeRow(rows[i], req[w].old, req[w].new)
  <2>1. /\ req[w].op = "update"
        /\ \/ rows' = [rows EXCEPT ![i] = merged] /\ HasParents(merged)
           \/ UNCHANGED rows
    BY <1>4 DEF CommitUpdate
  <2>. HIDE DEF merged
  <2>. QED
    BY <2>1 DEF Live, TypeOK
<1>5. CASE CommitDelete(w)
  BY <1>5 DEF CommitDelete, Live, TypeOK
<1>. QED
  BY <1>3, <1>4, <1>5

(* The commits of the segment handlers: a delete that a row refers to is
   refused by the foreign key, whatever the handler read before. *)
LEMMA SegmentCommitsParents ==
    ASSUME TypeOK, TypeOK', TablesAssumption, RowsHaveParents, NEW w \in Workers,
           CommitSegmentInsert(w) \/ CommitSegmentUpdate(w) \/ CommitSegmentDelete(w)
    PROVE  RowsHaveParents'
<1>. DEFINE plan == req[w]
<1>1. UNCHANGED <<rows, cats>>
  BY DEF CommitSegmentInsert, CommitSegmentUpdate, CommitSegmentDelete
<1>2. CASE \A s \in SegIds : segs[s] # NULL => segs'[s] # NULL
  BY <1>1, <1>2, ParentsKept
<1>3. CASE CommitSegmentInsert(w)
  <2>1. plan.new \in Segments
    BY <1>3, PlanType DEF CommitSegmentInsert, TypeOK
  <2>2. segs' = segs \/ segs' = [segs EXCEPT ![next.seg] = plan.new]
    BY <1>3 DEF CommitSegmentInsert
  <2>. QED
    BY <1>2, <2>1, <2>2, NullAssumption DEF TypeOK
<1>4. CASE CommitSegmentUpdate(w)
  <2>. DEFINE merged == MergeSegment(segs[plan.id], plan.old, plan.new)
  <2>1. plan.id \in SegIds /\ plan.old \in Segments /\ plan.new \in Segments
    BY <1>4, PlanType DEF CommitSegmentUpdate, TypeOK
  <2>2. \/ segs' = segs
        \/ segs[plan.id] # NULL /\ segs' = [segs EXCEPT ![plan.id] = merged]
    BY <1>4 DEF CommitSegmentUpdate
  <2>3. segs[plan.id] # NULL => merged # NULL
    <3>1. segs[plan.id] # NULL => merged \in Segments
      BY <2>1 DEF TypeOK, Opt, MergeSegment, Changed, Segments
    <3>. QED
      BY <3>1, NullAssumption
  <2>. HIDE DEF merged
  <2>. QED
    BY <1>2, <2>2, <2>3 DEF TypeOK
<1>5. CASE CommitSegmentDelete(w)
  <2>1. CASE UNCHANGED segs
    BY <1>2, <2>1
  <2>2. CASE ~UNCHANGED segs
    <3>1. /\ \A i \in Live(rows) : rows[i].seg # plan.id
          /\ segs' = [segs EXCEPT ![plan.id] = NULL]
      BY <1>5, <2>2 DEF CommitSegmentDelete
    <3>2. ASSUME NEW i \in Live(rows) PROVE HasParents(rows[i])'
      <4>1. rows[i].seg \in Opt(SegIds) /\ rows[i].seg # plan.id
        BY <3>1 DEF TypeOK, Live, Opt, Rows
      <4>2. HasParents(rows[i])
        BY DEF RowsHaveParents
      <4>3. rows'[i] = rows[i]
        BY <1>1
      <4>. QED
        BY <1>1, <3>1, <4>1, <4>2, <4>3 DEF HasParents, TypeOK, Opt
    <3>. QED
      BY <1>1, <3>2 DEF RowsHaveParents, Live
  <2>. QED
    BY <2>1, <2>2
<1>. QED
  BY <1>3, <1>4, <1>5

(* The commits of the category and NAS handlers: ON DELETE SET NULL leaves no
   reference to the category it deletes, and a renamed NAS moves none. *)
LEMMA OtherCommitsParents ==
    ASSUME TypeOK, TypeOK', TablesAssumption, RowsHaveParents, NEW w \in Workers,
           \/ CommitCategoryInsert(w) \/ CommitCategoryUpdate(w)
           \/ CommitCategoryDelete(w)
           \/ CommitNasInsert(w) \/ CommitNasUpdate(w) \/ CommitNasDelete(w)
    PROVE  RowsHaveParents'
<1>. DEFINE plan == req[w]
<1>1. UNCHANGED segs
  BY DEF CommitCategoryInsert, CommitCategoryUpdate, CommitCategoryDelete,
         CommitNasInsert, CommitNasUpdate, CommitNasDelete
<1>2. CASE UNCHANGED rows /\ \A c \in CatIds : cats[c] # NULL => cats'[c] # NULL
  BY <1>1, <1>2, ParentsKept
<1>3. CASE CommitCategoryInsert(w)
  <2>1. plan.new \in Names
    BY <1>3, PlanType DEF CommitCategoryInsert, TypeOK
  <2>2. UNCHANGED rows /\ (cats' = cats \/ cats' = [cats EXCEPT ![next.cat] = plan.new])
    BY <1>3 DEF CommitCategoryInsert
  <2>. QED
    BY <1>2, <2>1, <2>2 DEF TypeOK, TablesAssumption
<1>4. CASE CommitCategoryUpdate(w)
  <2>. DEFINE merged == Changed(cats[plan.id], plan.old, plan.new)
  <2>1. plan.id \in CatIds /\ plan.old \in Names /\ plan.new \in Names
    BY <1>4, PlanType DEF CommitCategoryUpdate, TypeOK
  <2>2. /\ UNCHANGED rows
        /\ \/ cats' = cats
           \/ cats[plan.id] # NULL /\ cats' = [cats EXCEPT ![plan.id] = merged]
    BY <1>4 DEF CommitCategoryUpdate
  <2>3. cats[plan.id] # NULL => merged # NULL
    BY <2>1 DEF Changed, TablesAssumption
  <2>. HIDE DEF merged
  <2>. QED
    BY <1>2, <2>2, <2>3 DEF TypeOK
<1>5. CASE CommitCategoryDelete(w)
  <2>. DEFINE c == plan.id
  <2>1. c \in CatIds
    BY <1>5, PlanType DEF CommitCategoryDelete, TypeOK
  <2>2. CASE cats[c] = NULL
    BY <1>2, <1>5, <2>1, <2>2 DEF CommitCategoryDelete, TypeOK
  <2>3. CASE cats[c] # NULL
    <3>1. SUFFICES ASSUME NEW i \in Live(rows') PROVE HasParents(rows[i])'
      BY DEF RowsHaveParents
    <3>2. i \in Live(rows) /\ rows[i] \in Rows
      BY <1>5, <2>3 DEF CommitCategoryDelete, Live, TypeOK, Opt
    <3>3. rows'[i] = IF rows[i].cat = c THEN [rows[i] EXCEPT !.cat = NULL] ELSE rows[i]
      BY <1>5, <2>3, <3>2 DEF CommitCategoryDelete, Live
    <3>4. /\ rows'[i].seg = rows[i].seg
          /\ rows'[i].cat = IF rows[i].cat = c THEN NULL ELSE rows[i].cat
      BY <3>2, <3>3 DEF Rows
    <3>5. HasParents(rows[i]) /\ rows[i].cat \in Opt(CatIds) /\ rows[i].seg \in Opt(SegIds)
      BY <3>2 DEF RowsHaveParents, Rows
    <3>6. cats' = [cats EXCEPT ![c] = NULL]
      BY <1>5 DEF CommitCategoryDelete
    <3>. HIDE DEF c
    <3>. QED
      BY <1>1, <3>4, <3>5, <3>6 DEF HasParents, TypeOK, Opt
  <2>. QED
    BY <2>2, <2>3
<1>6. CASE CommitNasInsert(w) \/ CommitNasDelete(w)
  BY <1>2, <1>6 DEF CommitNasInsert, CommitNasDelete
<1>7. CASE CommitNasUpdate(w)
  <2>. DEFINE moving == Live(plan.touched)
  <2>1. /\ UNCHANGED cats
        /\ \/ UNCHANGED rows
           \/ /\ moving \subseteq Live(rows)
              /\ rows' = [i \in RowIds |->
                     IF i \in moving
                     THEN MergeRow(rows[i], plan.touched[i],
                                   Moved(plan.touched[i], plan.new.ip))
                     ELSE rows[i]]
    BY <1>7 DEF CommitNasUpdate
  <2>2. \A i \in moving : plan.touched[i] \in Rows
    <3>1. plan \in Plans /\ plan.op = "nasUpdate"
      BY <1>7 DEF CommitNasUpdate, TypeOK
    <3>2. plan.touched \in [RowIds -> Opt(Rows)]
      BY <3>1, PlanType
    <3>. QED
      BY <3>2 DEF Live, Opt
  <2>3. \A i \in Live(rows') :
            /\ i \in Live(rows)
            /\ rows'[i].seg = rows[i].seg /\ rows'[i].cat = rows[i].cat
    <3>1. \A cur, a : \A old \in Rows :
              /\ MergeRow(cur, old, Moved(old, a)).seg = cur.seg
              /\ MergeRow(cur, old, Moved(old, a)).cat = cur.cat
      BY DEF MergeRow, Changed, Moved, Rows
    <3>. QED
      BY <2>1, <2>2, <3>1 DEF Live, TypeOK
  <2>. QED
    BY <1>1, <2>1, <2>3, ParentsKept
<1>. QED
  BY <1>3, <1>4, <1>5, <1>6, <1>7

(* Steps that leave the three tables alone. *)
LEMMA QuietStepsParents ==
    ASSUME RowsHaveParents, UNCHANGED <<rows, segs, cats>>
    PROVE  RowsHaveParents'
BY DEF RowsHaveParents, HasParents, Live

(* The same of the NAS clients: a step that deletes no category, and gives a
   NAS no category or one the database has just checked. *)
LEMMA CategoriesKept ==
    ASSUME TypeOK, TypeOK', NasHaveCategory,
           \A c \in CatIds : cats[c] # NULL => cats'[c] # NULL,
           \A n \in Live(nas') :
               \/ nas'[n].cat # NULL => cats[nas'[n].cat] # NULL
               \/ n \in Live(nas) /\ nas'[n].cat = nas[n].cat
    PROVE  NasHaveCategory'
<1>1. SUFFICES ASSUME NEW n \in Live(nas'), nas'[n].cat # NULL
               PROVE  cats'[nas'[n].cat] # NULL
  BY DEF NasHaveCategory
<1>2. cats[nas'[n].cat] # NULL
  BY <1>1 DEF NasHaveCategory
<1>3. nas'[n].cat \in CatIds
  BY <1>1 DEF TypeOK, Live, Opt, NasRows
<1>. QED
  BY <1>2, <1>3

(* The commits of the category handlers. *)
LEMMA CategoryCommitsFiled ==
    ASSUME TypeOK, TypeOK', TablesAssumption, NasHaveCategory, NEW w \in Workers,
           CommitCategoryInsert(w) \/ CommitCategoryUpdate(w) \/ CommitCategoryDelete(w)
    PROVE  NasHaveCategory'
<1>. DEFINE plan == req[w]
<1>1. CASE UNCHANGED nas /\ \A c \in CatIds : cats[c] # NULL => cats'[c] # NULL
  BY <1>1, CategoriesKept
<1>2. CASE CommitCategoryInsert(w)
  <2>1. plan.new \in Names
    BY <1>2, PlanType DEF CommitCategoryInsert, TypeOK
  <2>2. UNCHANGED nas /\ (cats' = cats \/ cats' = [cats EXCEPT ![next.cat] = plan.new])
    BY <1>2 DEF CommitCategoryInsert
  <2>. QED
    BY <1>1, <2>1, <2>2 DEF TypeOK, TablesAssumption
<1>3. CASE CommitCategoryUpdate(w)
  <2>. DEFINE merged == Changed(cats[plan.id], plan.old, plan.new)
  <2>1. plan.id \in CatIds /\ plan.old \in Names /\ plan.new \in Names
    BY <1>3, PlanType DEF CommitCategoryUpdate, TypeOK
  <2>2. /\ UNCHANGED nas
        /\ \/ cats' = cats
           \/ cats[plan.id] # NULL /\ cats' = [cats EXCEPT ![plan.id] = merged]
    BY <1>3 DEF CommitCategoryUpdate
  <2>3. cats[plan.id] # NULL => merged # NULL
    BY <2>1 DEF Changed, TablesAssumption
  <2>. HIDE DEF merged
  <2>. QED
    BY <1>1, <2>2, <2>3 DEF TypeOK
<1>4. CASE CommitCategoryDelete(w)
  <2>. DEFINE c == plan.id
  <2>1. c \in CatIds /\ cats' = [cats EXCEPT ![c] = NULL]
    BY <1>4, PlanType DEF CommitCategoryDelete, TypeOK
  <2>2. CASE cats[c] = NULL
    BY <1>1, <1>4, <2>1, <2>2 DEF CommitCategoryDelete, TypeOK
  <2>3. CASE cats[c] # NULL
    <3>1. SUFFICES ASSUME NEW n \in Live(nas'), nas'[n].cat # NULL
                   PROVE  cats'[nas'[n].cat] # NULL
      BY DEF NasHaveCategory
    <3>2. n \in Live(nas) /\ nas[n] \in NasRows
      BY <1>4, <2>3, <3>1 DEF CommitCategoryDelete, Live, TypeOK, Opt
    <3>3. nas'[n] = IF nas[n].cat = c THEN [nas[n] EXCEPT !.cat = NULL] ELSE nas[n]
      BY <1>4, <2>3, <3>2 DEF CommitCategoryDelete, Live
    <3>4. nas'[n].cat = nas[n].cat /\ nas[n].cat # c
      BY <3>1, <3>2, <3>3 DEF NasRows
    <3>5. cats[nas[n].cat] # NULL /\ nas[n].cat \in CatIds
      BY <3>1, <3>2, <3>4 DEF NasHaveCategory, NasRows, Opt
    <3>. HIDE DEF c
    <3>. QED
      BY <2>1, <3>4, <3>5 DEF TypeOK
  <2>. QED
    BY <2>2, <2>3
<1>. QED
  BY <1>2, <1>3, <1>4

(* The commits of the NAS handlers: the foreign key is checked on what a stale
   unit of work makes of the NAS. *)
LEMMA NasCommitsFiled ==
    ASSUME TypeOK, TypeOK', TablesAssumption, NasHaveCategory, NEW w \in Workers,
           CommitNasInsert(w) \/ CommitNasUpdate(w) \/ CommitNasDelete(w)
    PROVE  NasHaveCategory'
<1>. DEFINE plan == req[w]
<1>1. UNCHANGED cats
  BY DEF CommitNasInsert, CommitNasUpdate, CommitNasDelete
<1>2. SUFFICES \A n \in Live(nas') :
                   \/ nas'[n].cat # NULL => cats[nas'[n].cat] # NULL
                   \/ n \in Live(nas) /\ nas'[n].cat = nas[n].cat
  BY <1>1, CategoriesKept
<1>3. CASE CommitNasInsert(w)
  <2>1. \/ UNCHANGED nas
        \/ /\ nas' = [nas EXCEPT ![next.nas] = plan.new]
           /\ plan.new.cat # NULL => cats[plan.new.cat] # NULL
    BY <1>3 DEF CommitNasInsert
  <2>. QED
    BY <2>1 DEF Live, TypeOK
<1>4. CASE CommitNasUpdate(w)
  <2>. DEFINE merged == MergeNas(nas[plan.id], plan.old, plan.new)
  <2>1. \/ UNCHANGED nas
        \/ /\ nas' = [nas EXCEPT ![plan.id] = merged]
           /\ merged.cat # NULL => cats[merged.cat] # NULL
    BY <1>4 DEF CommitNasUpdate
  <2>. HIDE DEF merged
  <2>. QED
    BY <2>1 DEF Live, TypeOK
<1>5. CASE CommitNasDelete(w)
  BY <1>5 DEF CommitNasDelete, Live, TypeOK
<1>. QED
  BY <1>3, <1>4, <1>5

(* NO DANGLING TARGET.  However the reads and commits of any number of
   handlers interleave, no assignment refers to a segment or a category that
   is gone and no NAS to such a category: what the delete handlers read may be
   stale, what the database checks when they commit is not. *)
THEOREM TargetsExist == Spec => []NoDanglingTarget
<1>1. Init => TypeOK /\ NoDanglingTarget
  BY InitType DEF Init, NoDanglingTarget, RowsHaveParents, NasHaveCategory, Live
<1>2. ASSUME TypeOK, TypeOK', NoDanglingTarget, [Next]_vars
      PROVE  NoDanglingTarget'
  <2>. USE DEF NoDanglingTarget
  <2>1. CASE UNCHANGED tables
    <3>1. UNCHANGED <<rows, segs, cats>> /\ UNCHANGED <<nas, cats>>
      BY <2>1 DEF tables
    <3>2. NasHaveCategory'
      BY <1>2, <3>1 DEF NasHaveCategory, Live
    <3>. QED
      BY <1>2, <3>1, <3>2, QuietStepsParents
  <2>2. CASE \E w \in Workers :
           \/ CreateOrReplace(w) \/ CreateBulk(w) \/ UpdateAssignment(w)
           \/ DeleteAssignment(w)
           \/ CreateSegment(w) \/ UpdateSegment(w) \/ DeleteSegment(w)
           \/ CreateCategory(w) \/ UpdateCategory(w) \/ DeleteCategory(w)
           \/ CreateNas(w) \/ UpdateNas(w) \/ DeleteNas(w)
    <3>1. UNCHANGED tables
      BY <2>2 DEF CreateOrReplace, CreateBulk, UpdateAssignment, DeleteAssignment,
                  CreateSegment, UpdateSegment, DeleteSegment, CreateCategory,
                  UpdateCategory, DeleteCategory, CreateNas, UpdateNas, DeleteNas, Hold
    <3>. QED
      BY <2>1, <3>1
  <2>3. CASE (\E w \in Workers : LogAudit(w)) \/ RadiusRestart \/ Crash \/ UNCHANGED vars
    BY <2>1, <2>3 DEF LogAudit, RadiusRestart, Crash, vars, tables
  <2>4. CASE \E w \in Workers :
           \/ CommitInsert(w) \/ CommitUpdate(w) \/ CommitDelete(w)
           \/ CommitSegmentInsert(w) \/ CommitSegmentUpdate(w) \/ CommitSegmentDelete(w)
    <3>1. UNCHANGED <<nas, cats>>
      BY <2>4 DEF CommitInsert, CommitUpdate, CommitDelete, CommitSegmentInsert,
                  CommitSegmentUpdate, CommitSegmentDelete, tables
    <3>2. NasHaveCategory'
      BY <1>2, <3>1 DEF NasHaveCategory, Live
    <3>3. RowsHaveParents'
      BY <1>2, <2>4, AssignmentCommitsParents, SegmentCommitsParents, TablesAssumption
    <3>. QED
      BY <3>2, <3>3
  <2>5. CASE \E w \in Workers :
           \/ CommitCategoryInsert(w) \/ CommitCategoryUpdate(w) \/ CommitCategoryDelete(w)
           \/ CommitNasInsert(w) \/ CommitNasUpdate(w) \/ CommitNasDelete(w)
    <3>1. RowsHaveParents'
      BY <1>2, <2>5, OtherCommitsParents, TablesAssumption
    <3>2. NasHaveCategory'
      BY <1>2, <2>5, CategoryCommitsFiled, NasCommitsFiled, TablesAssumption
    <3>. QED
      BY <3>1, <3>2
  <2>. QED
    BY <1>2, <2>2, <2>3, <2>4, <2>5 DEF Next
<1>3. TypeOK /\ NoDanglingTarget /\ [Next]_vars => (TypeOK /\ NoDanglingTarget)'
  BY <1>2, NextType, RequestsAssumption, TablesAssumption
<1>. QED
  BY <1>1, <1>3, PTL DEF Spec

-----------------------------------------------------------------------------
(* target_key follows the target, when requests are served one at a time. *)

(* The two keys are those the listeners compute from the row. *)
Keyed(r) == r.key = TargetKey(r) /\ r.segkey = SegmentTargetKey(r)

(* Every row about to be written went through the listeners. *)
PlanKeyed(plan) ==
    /\ plan.op = "insert" => \A k \in DOMAIN plan.batch : Keyed(plan.batch[k])
    /\ plan.op = "update" => Keyed(plan.new)

PlansKeyed == \A w \in Workers : PlanKeyed(req[w])

(* The ids nas_categories has not handed out are free. *)
FreshCatIds == \A c \in CatIds : c >= next.cat => cats[c] = NULL

KeyInv == /\ SerialInv /\ NoDanglingTarget
          /\ FreshCatIds /\ PlansKeyed /\ KeyTracksTarget

(* The listeners key the row they are given. *)
LEMMA AsRowKeyed ==
    ASSUME NEW p \in Payloads
    PROVE  Keyed(AsRow(p))
BY DEF Keyed, AsRow, TargetKey, SegmentTargetKey, Given

LEMMA BulkRowKeyed ==
    ASSUME NEW u \in Users, NEW a \in Ips
    PROVE  Keyed(BulkRow(u, a))
<1>. DEFINE p == [user |-> u, ip |-> a, mac |-> NULL, cat |-> NULL, seg |-> NULL,
                  cir |-> NULL, lo |-> NULL, hi |-> NULL, active |-> TRUE]
<1>1. p \in Payloads
  BY DEF Payloads, Opt, Bound
<1>. QED
  BY <1>1, AsRowKeyed DEF BulkRow

(* A cascaded NAS rename goes through the listener that keys the target; the
   segment key does not depend on the address. *)
LEMMA MovedKeyed ==
    ASSUME NEW r \in Rows, NEW a \in Ips, r.segkey = SegmentTargetKey(r)
    PROVE  Keyed(Moved(r, a))
<1>. DEFINE m == [r EXCEPT !.ip = a]
            k == TargetKey(m)
            q == [m EXCEPT !.key = k]
<1>1. m \in Rows /\ m.lo = r.lo /\ m.hi = r.hi /\ m.seg = r.seg /\ m.segkey = r.segkey
  BY DEF Rows, Opt
<1>2. /\ q.user = m.user /\ q.ip = m.ip /\ q.mac = m.mac /\ q.cat = m.cat
      /\ q.seg = m.seg /\ q.cir = m.cir /\ q.lo = m.lo /\ q.hi = m.hi
      /\ q.key = k /\ q.segkey = m.segkey
  <2>. HIDE DEF m, k
  <2>. QED
    BY <1>1 DEF Rows
<1>3. TargetKey(q) = k
  <2>. HIDE DEF q, m
  <2>. QED
    BY <1>2 DEF TargetKey
<1>4. SegmentTargetKey(q) = SegmentTargetKey(r)
  <2>. HIDE DEF q, m
  <2>. QED
    BY <1>1, <1>2 DEF SegmentTargetKey
<1>5. Moved(r, a) = q
  BY DEF Moved
<1>. HIDE DEF q, m, k
<1>. QED
  BY <1>1, <1>2, <1>3, <1>4, <1>5 DEF Keyed

(* A step that brings no category back, and leaves each row as it was or as
   the listeners leave it. *)
LEMMA KeysKept ==
    ASSUME KeyTracksTarget,
           \A c \in CatIds : c < next.cat /\ cats[c] = NULL =>
                             c < next'.cat /\ cats'[c] = NULL,
           \A i \in Live(rows') : \/ i \in Live(rows) /\ rows'[i] = rows[i]
                                  \/ Keyed(rows'[i])
    PROVE  KeyTracksTarget'
<1>1. SUFFICES ASSUME NEW i \in Live(rows')
               PROVE  /\ rows'[i].segkey = SegmentTargetKey(rows'[i])
                      /\ \/ rows'[i].key = TargetKey(rows'[i])
                         \/ \E c \in CatIds :
                              /\ rows'[i].cat = NULL /\ c < next'.cat /\ cats'[c] = NULL
                              /\ rows'[i].key = TargetKey([rows'[i] EXCEPT !.cat = c])
  BY DEF KeyTracksTarget
<1>2. CASE Keyed(rows'[i])
  BY <1>2 DEF Keyed
<1>3. CASE i \in Live(rows) /\ rows'[i] = rows[i]
  <2>1. /\ rows[i].segkey = SegmentTargetKey(rows[i])
        /\ \/ rows[i].key = TargetKey(rows[i])
           \/ \E c \in CatIds :
                /\ rows[i].cat = NULL /\ c < next.cat /\ cats[c] = NULL
                /\ rows[i].key = TargetKey([rows[i] EXCEPT !.cat = c])
    BY <1>3 DEF KeyTracksTarget
  <2>. QED
    BY <1>3, <2>1
<1>. QED
  BY <1>2, <1>3

(* The reads of every handler end in a unit of work the listeners have seen,
   and nothing is planned after an error response or a commit. *)
LEMMA KeyedPlans ==
    ASSUME TypeOK, RequestsAssumption, PlansKeyed, [Next]_vars
    PROVE  PlansKeyed'
<1>1. ASSUME NEW w \in Workers, NEW plan, PlanKeyed(plan),
             req' = [req EXCEPT ![w] = plan]
      PROVE  PlansKeyed'
  <2>1. \A v \in Workers : req'[v] = plan \/ req'[v] = req[v]
    BY <1>1 DEF TypeOK
  <2>. QED
    BY <1>1, <2>1 DEF PlansKeyed, PlanKeyed
<1>2. \A plan : plan.op \notin {"insert", "update"} => PlanKeyed(plan)
  BY DEF PlanKeyed
<1>3. ASSUME NEW w \in Workers, CreateOrReplace(w) PROVE PlansKeyed'
  <2>1. PICK p \in Posts :
          \/ Hold(w, [op |-> "insert", batch |-> <<AsRow(p)>>])
          \/ \E i : Hold(w, [op |-> "update", id |-> i, old |-> rows[i],
                             new |-> AsRow(p), logged |-> FALSE])
    BY <1>3 DEF CreateOrReplace
  <2>2. Keyed(AsRow(p))
    BY AsRowKeyed DEF RequestsAssumption
  <2>3. PlanKeyed([op |-> "insert", batch |-> <<AsRow(p)>>])
    BY <2>2 DEF PlanKeyed
  <2>4. \A i : PlanKeyed([op |-> "update", id |-> i, old |-> rows[i],
                          new |-> AsRow(p), logged |-> FALSE])
    BY <2>2 DEF PlanKeyed
  <2>. QED
    BY <1>1, <2>1, <2>3, <2>4 DEF Hold
<1>4. ASSUME NEW w \in Workers, CreateBulk(w) PROVE PlansKeyed'
  <2>1. PICK u \in Users, b \in Bulks :
          Hold(w, [op |-> "insert", batch |-> [k \in DOMAIN b |-> BulkRow(u, b[k])]])
    BY <1>4 DEF CreateBulk
  <2>. DEFINE plan == [op |-> "insert", batch |-> [k \in DOMAIN b |-> BulkRow(u, b[k])]]
  <2>2. \A k \in DOMAIN b : b[k] \in Ips
    BY DEF RequestsAssumption
  <2>3. PlanKeyed(plan)
    BY <2>2, BulkRowKeyed DEF PlanKeyed
  <2>. HIDE DEF plan
  <2>. QED
    BY <1>1, <2>1, <2>3 DEF Hold, plan
<1>5. ASSUME NEW w \in Workers, UpdateAssignment(w) PROVE PlansKeyed'
  <2>1. PICK i \in RowIds, p \in Puts :
          Hold(w, [op |-> "update", id |-> i, old |-> rows[i],
                   new |-> AsRow(p), logged |-> TRUE])
    BY <1>5 DEF UpdateAssignment
  <2>2. Keyed(AsRow(p))
    BY AsRowKeyed DEF RequestsAssumption
  <2>3. PlanKeyed([op |-> "update", id |-> i, old |-> rows[i],
                   new |-> AsRow(p), logged |-> TRUE])
    BY <2>2 DEF PlanKeyed
  <2>. QED
    BY <1>1, <2>1, <2>3 DEF Hold
<1>6. ASSUME NEW w \in Workers,
             \/ DeleteAssignment(w) \/ CreateSegment(w) \/ UpdateSegment(w)
             \/ DeleteSegment(w) \/ CreateCategory(w) \/ UpdateCategory(w)
             \/ DeleteCategory(w) \/ CreateNas(w) \/ UpdateNas(w) \/ DeleteNas(w)
      PROVE  PlansKeyed'
  <2>1. \E plan : plan.op \notin {"insert", "update"} /\ Hold(w, plan)
    BY <1>6 DEF DeleteAssignment, CreateSegment, UpdateSegment, DeleteSegment,
                CreateCategory, UpdateCategory, DeleteCategory, CreateNas, UpdateNas,
                DeleteNas
  <2>. QED
    BY <1>1, <1>2, <2>1 DEF Hold
<1>7. ASSUME NEW w \in Workers,
             \/ CommitInsert(w) \/ CommitUpdate(w) \/ CommitDelete(w)
             \/ CommitSegmentInsert(w) \/ CommitSegmentUpdate(w) \/ CommitSegmentDelete(w)
             \/ CommitCategoryInsert(w) \/ CommitCategoryUpdate(w)
             \/ CommitCategoryDelete(w)
             \/ CommitNasInsert(w) \/ CommitNasUpdate(w) \/ CommitNasDelete(w)
             \/ LogAudit(w)
      PROVE  PlansKeyed'
  <2>1. End(w) \/ \E t, i : Committed(w, t, i)
    BY <1>7 DEF CommitInsert, CommitUpdate, CommitDelete, CommitSegmentInsert,
                CommitSegmentUpdate, CommitSegmentDelete, CommitCategoryInsert,
                CommitCategoryUpdate, CommitCategoryDelete, CommitNasInsert,
                CommitNasUpdate, CommitNasDelete, LogAudit
  <2>. QED
    BY <1>1, <1>2, <2>1 DEF End, Committed, Idle
<1>8. CASE Crash
  BY <1>2, <1>8 DEF Crash, Idle, PlansKeyed
<1>9. CASE RadiusRestart \/ UNCHANGED vars
  BY <1>9 DEF RadiusRestart, vars, PlansKeyed
<1>. QED
  BY <1>3, <1>4, <1>5, <1>6, <1>7, <1>8, <1>9 DEF Next

(* The commits that write rows: a unit of work applied to the row it loaded
   writes what the listeners left, key and all. *)
LEMMA RowCommitsKeyed ==
    ASSUME KeyInv, TypeOK', TablesAssumption, NEW w \in Workers,
           CommitInsert(w) \/ CommitUpdate(w) \/ CommitDelete(w) \/ CommitNasUpdate(w)
    PROVE  KeyTracksTarget' /\ FreshCatIds'
<1>. DEFINE plan == req[w]
<1>0. /\ TypeOK /\ plan \in Plans /\ PlanCurrent(plan) /\ PlanKeyed(plan)
      /\ FreshCatIds /\ KeyTracksTarget
  BY DEF KeyInv, SerialInv, TypeOK, PlansCurrent, PlansKeyed
<1>1. UNCHANGED cats /\ next'.cat = next.cat
  BY <1>0 DEF CommitInsert, CommitUpdate, CommitDelete, CommitNasUpdate, tables, TypeOK
<1>2. FreshCatIds'
  BY <1>0, <1>1 DEF FreshCatIds
<1>3. SUFFICES \A i \in Live(rows') : \/ i \in Live(rows) /\ rows'[i] = rows[i]
                                      \/ Keyed(rows'[i])
  BY <1>0, <1>1, <1>2, KeysKept
<1>4. CASE CommitInsert(w)
  <2>. DEFINE n == Len(plan.batch)
              new == next.row .. next.row + n - 1
  <2>1. /\ plan.op = "insert"
        /\ \/ rows' = [i \in RowIds |->
                  IF i \in new THEN plan.batch[i - next.row + 1] ELSE rows[i]]
           \/ UNCHANGED rows
    BY <1>4 DEF CommitInsert, tables
  <2>2. plan.batch \in Seq(Rows)
    BY <1>0, <2>1, PlanType
  <2>3. n \in Nat /\ next.row \in Nat \ {0} /\ DOMAIN plan.batch = 1 .. n
    BY <1>0, <2>2 DEF TypeOK
  <2>4. \A i \in RowIds : i \in new => i - next.row + 1 \in DOMAIN plan.batch
    BY <2>3 DEF RowIds
  <2>5. \A k \in DOMAIN plan.batch : Keyed(plan.batch[k])
    BY <1>0, <2>1 DEF PlanKeyed
  <2>. QED
    BY <1>0, <2>1, <2>4, <2>5 DEF Live, TypeOK
<1>5. CASE CommitUpdate(w)
  <2>. DEFINE i == plan.id
              merged == MergeRow(rows[i], plan.old, plan.new)
  <2>1. /\ plan.op = "update"
        /\ \/ rows' = [rows EXCEPT ![i] = merged]
           \/ UNCHANGED rows
    BY <1>5 DEF CommitUpdate
  <2>2. i \in RowIds /\ plan.old \in Rows /\ plan.new \in Rows
    BY <1>0, <2>1, PlanType
  <2>3. rows[i] = plan.old /\ Keyed(plan.new)
    BY <1>0, <2>1 DEF PlanCurrent, PlanKeyed
  <2>4. merged = plan.new
    BY <2>2, <2>3, MergeRowUnchanged
  <2>. HIDE DEF merged
  <2>. QED
    BY <1>0, <2>1, <2>2, <2>3, <2>4 DEF Live, TypeOK
<1>6. CASE CommitDelete(w)
  BY <1>0, <1>6 DEF CommitDelete, Live, TypeOK
<1>7. CASE CommitNasUpdate(w)
  <2>. DEFINE moving == Live(plan.touched)
              a == plan.new.ip
  <2>1. /\ plan.op = "nasUpdate"
        /\ \/ UNCHANGED rows
           \/ /\ moving \subseteq Live(rows)
              /\ rows' = [i \in RowIds |->
                     IF i \in moving
                     THEN MergeRow(rows[i], plan.touched[i], Moved(plan.touched[i], a))
                     ELSE rows[i]]
    BY <1>7 DEF CommitNasUpdate
  <2>2. plan.touched \in [RowIds -> Opt(Rows)] /\ a \in Ips
    BY <1>0, <2>1, PlanType DEF NasRows
  <2>3. ASSUME NEW i \in moving, i \in Live(rows)
        PROVE  Keyed(MergeRow(rows[i], plan.touched[i], Moved(plan.touched[i], a)))
    <3>1. plan.touched[i] = rows[i] /\ rows[i] \in Rows
      BY <1>0, <2>1, <2>2, <2>3 DEF PlanCurrent, Live, Opt
    <3>2. rows[i].segkey = SegmentTargetKey(rows[i])
      BY <1>0, <2>3 DEF KeyTracksTarget
    <3>3. Moved(rows[i], a) \in Rows /\ Keyed(Moved(rows[i], a))
      BY <2>2, <3>1, <3>2, MovedType, MovedKeyed
    <3>. QED
      BY <3>1, <3>3, MergeRowUnchanged
  <2>4. ASSUME NEW i \in Live(rows')
        PROVE  \/ i \in Live(rows) /\ rows'[i] = rows[i]
               \/ Keyed(rows'[i])
    <3>1. i \in RowIds
      BY DEF Live, TypeOK
    <3>2. CASE UNCHANGED rows
      BY <3>2
    <3>3. CASE ~UNCHANGED rows /\ i \in moving
      BY <2>1, <2>3, <3>1, <3>3
    <3>4. CASE ~UNCHANGED rows /\ i \notin moving
      BY <1>0, <2>1, <3>1, <3>4 DEF Live, TypeOK
    <3>. QED
      BY <3>2, <3>3, <3>4
  <2>. QED
    BY <2>4
<1>. QED
  BY <1>4, <1>5, <1>6, <1>7

(* The commits of the category handlers.  A delete that finds its category
   sets cat to NULL behind the listeners: the row keeps the key computed with
   a category that was handed out and is now gone. *)
LEMMA CategoryCommitsKeyed ==
    ASSUME KeyInv, TypeOK', TablesAssumption, NEW w \in Workers,
           CommitCategoryInsert(w) \/ CommitCategoryUpdate(w) \/ CommitCategoryDelete(w)
    PROVE  KeyTracksTarget' /\ FreshCatIds'
<1>. DEFINE plan == req[w]
<1>0. TypeOK /\ plan \in Plans /\ FreshCatIds /\ KeyTracksTarget
  BY DEF KeyInv, SerialInv, TypeOK
<1>1. CASE CommitCategoryInsert(w)
  <2>1. /\ UNCHANGED rows
        /\ \/ UNCHANGED <<cats, next>>
           \/ /\ cats' = [cats EXCEPT ![next.cat] = plan.new]
              /\ next' = [next EXCEPT !.cat = @ + 1]
    BY <1>1 DEF CommitCategoryInsert
  <2>2. next.cat \in Nat /\ next'.cat \in {next.cat, next.cat + 1}
    BY <1>0, <2>1 DEF TypeOK
  <2>3. \A c \in CatIds : c # next.cat => cats'[c] = cats[c]
    BY <1>0, <2>1 DEF TypeOK
  <2>4. FreshCatIds'
    <3>1. CASE UNCHANGED <<cats, next>>
      BY <1>0, <3>1 DEF FreshCatIds
    <3>2. CASE next' = [next EXCEPT !.cat = @ + 1]
      <4>1. next'.cat = next.cat + 1
        BY <1>0, <3>2 DEF TypeOK
      <4>2. \A c \in CatIds : c >= next.cat + 1 => c # next.cat /\ c >= next.cat
        BY <2>2 DEF CatIds
      <4>. QED
        BY <1>0, <2>3, <4>1, <4>2 DEF FreshCatIds
    <3>. QED
      BY <2>1, <3>1, <3>2
  <2>5. \A c \in CatIds : c < next.cat => c < next'.cat /\ c # next.cat
    BY <2>2 DEF CatIds
  <2>. QED
    BY <1>0, <2>1, <2>3, <2>4, <2>5, KeysKept
<1>2. CASE CommitCategoryUpdate(w)
  <2>1. /\ UNCHANGED <<rows, next>>
        /\ \/ UNCHANGED cats
           \/ \E x : cats[plan.id] # NULL /\ cats' = [cats EXCEPT ![plan.id] = x]
    BY <1>2 DEF CommitCategoryUpdate
  <2>2. \A c \in CatIds : cats[c] = NULL => cats'[c] = NULL
    BY <1>0, <2>1 DEF TypeOK
  <2>3. FreshCatIds'
    BY <1>0, <2>1, <2>2 DEF FreshCatIds
  <2>. QED
    BY <1>0, <2>1, <2>2, <2>3, KeysKept
<1>3. CASE CommitCategoryDelete(w)
  <2>. DEFINE c == plan.id
  <2>1. c \in CatIds /\ c # NULL
    BY <1>0, <1>3, PlanType DEF CommitCategoryDelete, CatIds, TablesAssumption
  <2>2. /\ cats' = [cats EXCEPT ![c] = NULL]
        /\ UNCHANGED next
        /\ cats[c] = NULL => UNCHANGED rows
        /\ cats[c] # NULL => rows' = [k \in DOMAIN rows |->
              IF rows[k] # NULL /\ rows[k].cat = c THEN [rows[k] EXCEPT !.cat = NULL]
              ELSE rows[k]]
    BY <1>3 DEF CommitCategoryDelete
  <2>. HIDE DEF c
  <2>3. cats'[c] = NULL /\ \A d \in CatIds : cats[d] = NULL => cats'[d] = NULL
    BY <1>0, <2>1, <2>2 DEF TypeOK
  <2>4. FreshCatIds'
    BY <1>0, <2>2, <2>3 DEF FreshCatIds
  <2>5. CASE cats[c] = NULL
    BY <1>0, <2>2, <2>3, <2>4, <2>5, KeysKept
  <2>6. CASE cats[c] # NULL
    <3>1. c < next.cat
      BY <1>0, <2>1, <2>6 DEF FreshCatIds, CatIds, TypeOK
    <3>2. ASSUME NEW i \in Live(rows')
          PROVE  /\ rows'[i].segkey = SegmentTargetKey(rows'[i])
                 /\ \/ rows'[i].key = TargetKey(rows'[i])
                    \/ \E d \in CatIds :
                         /\ rows'[i].cat = NULL /\ d < next'.cat /\ cats'[d] = NULL
                         /\ rows'[i].key = TargetKey([rows'[i] EXCEPT !.cat = d])
      <4>1. i \in Live(rows) /\ rows[i] \in Rows
        BY <1>0, <2>2, <2>6 DEF Live, TypeOK, Opt
      <4>2. /\ rows[i].segkey = SegmentTargetKey(rows[i])
            /\ \/ rows[i].key = TargetKey(rows[i])
               \/ \E d \in CatIds :
                    /\ rows[i].cat = NULL /\ d < next.cat /\ cats[d] = NULL
                    /\ rows[i].key = TargetKey([rows[i] EXCEPT !.cat = d])
        BY <1>0, <4>1 DEF KeyTracksTarget
      <4>3. CASE rows[i].cat # c
        <5>1. rows'[i] = rows[i]
          BY <2>2, <2>6, <4>1, <4>3 DEF Live
        <5>. QED
          BY <2>2, <2>3, <4>2, <5>1
      <4>4. CASE rows[i].cat = c
        <5>. DEFINE r == rows[i]
                    f == [r EXCEPT !.cat = NULL]
                    g == [f EXCEPT !.cat = c]
        <5>1. rows'[i] = f
          BY <2>2, <2>6, <4>1, <4>4 DEF Live
        <5>2. /\ f.segkey = r.segkey /\ f.seg = r.seg /\ f.lo = r.lo /\ f.hi = r.hi
              /\ f.cat = NULL /\ f.key = r.key
          BY <4>1 DEF Rows
        <5>3. SegmentTargetKey(f) = SegmentTargetKey(r)
          <6>. HIDE DEF f, r
          <6>. QED
            BY <5>2 DEF SegmentTargetKey
        <5>4. /\ g.user = r.user /\ g.ip = r.ip /\ g.mac = r.mac /\ g.cat = r.cat
              /\ g.seg = r.seg /\ g.cir = r.cir /\ g.lo = r.lo /\ g.hi = r.hi
          BY <4>1, <4>4 DEF Rows
        <5>5. TargetKey(g) = TargetKey(r)
          <6>. HIDE DEF g, f, r
          <6>. QED
            BY <5>4 DEF TargetKey
        <5>6. r.key = TargetKey(r) /\ r.segkey = SegmentTargetKey(r)
          BY <2>1, <4>2, <4>4
        <5>7. f.key = TargetKey(g)
          BY <5>2, <5>5, <5>6
        <5>8. f.segkey = SegmentTargetKey(f)
          BY <5>2, <5>3, <5>6
        <5>9. next'.cat = next.cat
          BY <2>2
        <5>. HIDE DEF f
        <5>. QED
          BY <2>1, <2>3, <3>1, <5>1, <5>2, <5>7, <5>8, <5>9
      <4>. QED
        BY <4>3, <4>4
    <3>3. KeyTracksTarget'
      BY <3>2 DEF KeyTracksTarget
    <3>. QED
      BY <2>4, <3>3
  <2>. QED
    BY <2>5, <2>6
<1>. QED
  BY <1>1, <1>2, <1>3

(* Steps that leave the assignments and the categories alone. *)
LEMMA QuietStepsKeyed ==
    ASSUME KeyTracksTarget, FreshCatIds, UNCHANGED <<rows, cats>>, next'.cat = next.cat
    PROVE  KeyTracksTarget' /\ FreshCatIds'
BY KeysKept DEF FreshCatIds

(* THE UNIQUE KEY SAYS WHAT THE ROW TARGETS.  For any requests served one at
   a time, and any crashes: target_key and segment_target_key, on which the
   unique index rests, are those of the row's current target, except that a
   row whose category was deleted keeps the key computed with it. *)
THEOREM KeysFollowTargets ==
    ASSUME Serial
    PROVE  Spec => []KeyTracksTarget
<1>1. Init => KeyInv
  <2>. SUFFICES ASSUME Init PROVE KeyInv
    OBVIOUS
  <2>1. Live(rows) = {}
    BY DEF Init, Live
  <2>2. FreshCatIds /\ PlansKeyed
    BY DEF Init, FreshCatIds, PlansKeyed, PlanKeyed, Idle
  <2>3. NoDanglingTarget
    BY DEF Init, NoDanglingTarget, RowsHaveParents, NasHaveCategory, Live
  <2>4. KeyTracksTarget
    BY <2>1 DEF KeyTracksTarget
  <2>. QED
    BY <2>2, <2>3, <2>4, SerialInit DEF KeyInv
<1>2. ASSUME KeyInv, NoDanglingTarget', [Next]_vars
      PROVE  KeyInv'
  <2>1. TypeOK' /\ SerialInv'
    BY <1>2, NextType, SerialStep, RequestsAssumption, TablesAssumption
       DEF KeyInv, SerialInv
  <2>2. PlansKeyed'
    BY <1>2, KeyedPlans, RequestsAssumption DEF KeyInv, SerialInv
  <2>3. KeyTracksTarget' /\ FreshCatIds'
    <3>. USE TablesAssumption
    <3>1. CASE \E w \in Workers :
                 \/ CommitInsert(w) \/ CommitUpdate(w) \/ CommitDelete(w)
                 \/ CommitNasUpdate(w)
      BY <1>2, <2>1, <3>1, RowCommitsKeyed
    <3>2. CASE \E w \in Workers :
                 \/ CommitCategoryInsert(w) \/ CommitCategoryUpdate(w)
                 \/ CommitCategoryDelete(w)
      BY <1>2, <2>1, <3>2, CategoryCommitsKeyed
    <3>3. CASE \E w \in Workers :
                 \/ CommitSegmentInsert(w) \/ CommitSegmentUpdate(w)
                 \/ CommitSegmentDelete(w) \/ CommitNasInsert(w) \/ CommitNasDelete(w)
      <4>1. UNCHANGED <<rows, cats>> /\ next'.cat = next.cat
        BY <1>2, <3>3 DEF CommitSegmentInsert, CommitSegmentUpdate, CommitSegmentDelete,
                          CommitNasInsert, CommitNasDelete, KeyInv, SerialInv, TypeOK
      <4>. QED
        BY <1>2, <4>1, QuietStepsKeyed DEF KeyInv
    <3>4. CASE \E w \in Workers :
                 \/ CreateOrReplace(w) \/ CreateBulk(w) \/ UpdateAssignment(w)
                 \/ DeleteAssignment(w)
                 \/ CreateSegment(w) \/ UpdateSegment(w) \/ DeleteSegment(w)
                 \/ CreateCategory(w) \/ UpdateCategory(w) \/ DeleteCategory(w)
                 \/ CreateNas(w) \/ UpdateNas(w) \/ DeleteNas(w)
      <4>1. UNCHANGED tables
        BY <3>4 DEF CreateOrReplace, CreateBulk, UpdateAssignment, DeleteAssignment,
                    CreateSegment, UpdateSegment, DeleteSegment, CreateCategory,
                    UpdateCategory, DeleteCategory, CreateNas, UpdateNas, DeleteNas, Hold
      <4>. QED
        BY <1>2, <4>1, QuietStepsKeyed DEF KeyInv, tables
    <3>5. CASE (\E w \in Workers : LogAudit(w)) \/ RadiusRestart \/ Crash \/ UNCHANGED vars
      BY <1>2, <3>5, QuietStepsKeyed
         DEF LogAudit, RadiusRestart, Crash, vars, tables, KeyInv
    <3>. QED
      BY <1>2, <3>1, <3>2, <3>3, <3>4, <3>5 DEF Next
  <2>. QED
    BY <1>2, <2>1, <2>2, <2>3 DEF KeyInv
<1>3. KeyInv /\ NoDanglingTarget' /\ [Next]_vars => KeyInv'
  BY <1>2
<1>4. KeyInv => KeyTracksTarget
  BY DEF KeyInv
<1>. QED
  BY <1>1, <1>3, <1>4, TargetsExist, PTL DEF Spec

-----------------------------------------------------------------------------
(* The preview agrees with FreeRADIUS on segment policies. *)

(* OrElse goes on to the next query exactly when this one found nothing. *)
LEMMA OrElseNothing ==
    ASSUME NEW T
    PROVE  OrElse({NULL}, T) = T
BY DEF OrElse

(* A query no row of which matches yields nothing, however it sorts. *)
LEMMA TopOfNone ==
    ASSUME NEW S, S = {}, NEW Key(_)
    PROVE  Top(S, Key) = {NULL}
BY DEF Top, Yield

(* With one match or none, ORDER BY does not matter. *)
LEMMA TopOfOne ==
    ASSUME NEW S, NEW Key(_), \A i, j \in S : i = j
    PROVE  Top(S, Key) = Yield(S)
<1>1. {i \in S : \A j \in S \ {i} : LexBefore(Key(i), Key(j))} = S
  OBVIOUS
<1>. QED
  BY <1>1 DEF Top

(* At most one range exception of a user covers an address: two of one segment
   are disjoint, and two of different segments lie in disjoint CIDRs. *)
LEMMA OneExceptionCovers ==
    ASSUME SerialInv, NEW i \in Live(rows), NEW j \in Live(rows), NEW a \in Ips,
           rows[i].user = rows[j].user,
           IsException(rows[i]), IsException(rows[j]),
           Inside(a, rows[i]), Inside(a, rows[j])
    PROVE  i = j
<1>1. rows[i] \in Rows /\ rows[j] \in Rows
  BY DEF SerialInv, TypeOK, Live, Opt
<1>2. /\ rows[i].lo \in Int /\ rows[i].hi \in Int /\ rows[j].lo \in Int /\ rows[j].hi \in Int
      /\ a \in Int
  BY <1>1, GivenBound, TablesAssumption DEF IsException, Rows, Ips
<1>3. CASE rows[i].seg = rows[j].seg
  <2>1. RangesOverlap(rows[i], rows[j])
    BY <1>2 DEF RangesOverlap, Inside
  <2>. QED
    BY <1>3, <2>1 DEF SerialInv, SegmentInv, ExceptionsDisjoint
<1>4. CASE rows[i].seg # rows[j].seg
  <2>. DEFINE s == rows[i].seg
              t == rows[j].seg
  <2>1. /\ segs[s] # NULL /\ Inside(rows[i].lo, segs[s].net) /\ Inside(rows[i].hi, segs[s].net)
        /\ segs[t] # NULL /\ Inside(rows[j].lo, segs[t].net) /\ Inside(rows[j].hi, segs[t].net)
    BY DEF SerialInv, SegmentInv, ExceptionsInSegment
  <2>2. s \in SegIds /\ t \in SegIds
    BY <1>1 DEF IsException, Rows, Opt
  <2>3. s \in Live(segs) /\ t \in Live(segs) /\ segs[s] \in Segments /\ segs[t] \in Segments
    BY <2>1, <2>2 DEF SerialInv, TypeOK, Live, Opt
  <2>4. /\ segs[s].net.lo \in Int /\ segs[s].net.hi \in Int
        /\ segs[t].net.lo \in Int /\ segs[t].net.hi \in Int
    BY <2>3, TablesAssumption DEF Segments, Cidrs, Ips
  <2>5. CidrsOverlap(segs[s].net, segs[t].net)
    <3>. HIDE DEF s, t
    <3>. QED
      BY <1>2, <2>1, <2>4 DEF Inside, CidrsOverlap
  <2>. QED
    BY <1>4, <2>3, <2>5 DEF SerialInv, SegmentInv, SegmentsDisjoint
<1>. QED
  BY <1>3, <1>4

(* At most one base policy of a user applies to an address: only one segment
   contains it, and the user has one base policy there. *)
LEMMA OneBaseCovers ==
    ASSUME SerialInv, NEW i \in Live(rows), NEW j \in Live(rows), NEW a \in Ips,
           rows[i].user = rows[j].user, IsBase(rows[i]), IsBase(rows[j]),
           segs[rows[i].seg] # NULL, Inside(a, segs[rows[i].seg].net),
           segs[rows[j].seg] # NULL, Inside(a, segs[rows[j].seg].net)
    PROVE  i = j
<1>. DEFINE s == rows[i].seg
            t == rows[j].seg
<1>1. s \in SegIds /\ t \in SegIds
  BY DEF IsBase, SerialInv, TypeOK, Live, Opt, Rows
<1>2. s \in Live(segs) /\ t \in Live(segs) /\ segs[s] \in Segments /\ segs[t] \in Segments
  BY <1>1 DEF SerialInv, TypeOK, Live, Opt
<1>3. /\ segs[s].net.lo \in Int /\ segs[s].net.hi \in Int
      /\ segs[t].net.lo \in Int /\ segs[t].net.hi \in Int /\ a \in Int
  BY <1>2, TablesAssumption DEF Segments, Cidrs, Ips
<1>4. CidrsOverlap(segs[s].net, segs[t].net)
  BY <1>3 DEF Inside, CidrsOverlap
<1>5. s = t
  BY <1>2, <1>4 DEF SerialInv, SegmentInv, SegmentsDisjoint
<1>. QED
  BY <1>5 DEF SerialInv, SegmentInv, OneBasePerSegment

(* What one request at a time keeps of the tables makes the two chains meet
   query by query. *)
LEMMA PreviewAgrees ==
    ASSUME SerialInv, NEW q \in Requests, q.ip # NULL, SegmentsOnly(q.user)
    PROVE  Preview(rows, segs, nas, q) = Authorize(rows, segs, nas, Registry, q)
<1>. DEFINE mine == Active(rows, q)
            Exceptions == {i \in mine : PreviewRange(rows[i], q)}
            Bases == {i \in mine : BaseHit(rows[i], segs, q)}
<1>0. q.ip \in Ips
  BY RadiusAssumption DEF Opt
<1>1. \A i \in mine : /\ i \in Live(rows) /\ rows[i].user = q.user
                      /\ rows[i].seg # NULL /\ rows[i].ip = NULL /\ rows[i].mac = NULL
  BY DEF SegmentsOnly, Active
<1>2. Step1(rows, segs, q) = Yield(Exceptions)
  <2>1. {i \in mine : \/ MacHit(rows[i], q) \/ IpHit(rows[i], q)
                      \/ RangeHit(rows[i], segs, q)} = Exceptions
    <3>1. ASSUME NEW i \in mine
          PROVE  /\ ~MacHit(rows[i], q) /\ ~IpHit(rows[i], q)
                 /\ RangeHit(rows[i], segs, q) <=> PreviewRange(rows[i], q)
      BY <1>1 DEF MacHit, IpHit, RangeHit, PreviewRange, SerialInv, SegmentInv,
                  ExceptionsInSegment
    <3>. QED
      BY <3>1
  <2>2. \A i, j \in Exceptions : i = j
    BY <1>0, <1>1, OneExceptionCovers DEF PreviewRange
  <2>. DEFINE Key(i) == <<Class(rows[i], q), Width(rows[i]),
                          SortKey(rows[i].lo), SortKey(rows[i].hi), i>>
  <2>. HIDE DEF Exceptions
  <2>3. Top(Exceptions, Key) = Yield(Exceptions)
    <3>. HIDE DEF Key
    <3>. QED
      BY <2>2, TopOfOne
  <2>. QED
    BY <2>1, <2>3 DEF Step1
<1>3. ResolveExactOrRange(rows, q) = Yield(Exceptions)
  <2>. DEFINE Key(i) == <<rows[i].hi - rows[i].lo, i>>
              ByMac(ip) == {i \in mine : q.mac # NULL /\ rows[i].mac = q.mac
                                         /\ rows[i].ip = ip}
              ByIp == {i \in mine : rows[i].ip = q.ip}
  <2>1. ByMac(q.ip) = {} /\ ByMac(NULL) = {} /\ ByIp = {}
    BY <1>1
  <2>2. \A S : S = {} => Oldest(S) = {NULL}
    <3>. SUFFICES ASSUME NEW S, S = {} PROVE Oldest(S) = {NULL}
      OBVIOUS
    <3>. DEFINE Id(i) == <<i>>
    <3>1. Top(S, Id) = {NULL}
      BY TopOfNone
    <3>. QED
      BY <3>1 DEF Oldest
  <2>3. \A i, j \in Exceptions : i = j
    BY <1>0, <1>1, OneExceptionCovers DEF PreviewRange
  <2>4. Top(Exceptions, Key) = Yield(Exceptions)
    <3>. HIDE DEF Key, Exceptions
    <3>. QED
      BY <2>3, TopOfOne
  <2>5. ResolveExactOrRange(rows, q) =
          OrElse(Oldest(ByMac(q.ip)), OrElse(Oldest(ByMac(NULL)),
          OrElse(Oldest(ByIp), Top(Exceptions, Key))))
    BY DEF ResolveExactOrRange
  <2>. HIDE DEF ByMac, ByIp, Key, Exceptions
  <2>. QED
    BY <2>1, <2>2, <2>4, <2>5, OrElseNothing
<1>4. StepDevice(rows, Registry, q) = {NULL}
  <2>1. {i \in mine : DeviceHit(rows[i], Registry, q)} = {}
    BY <1>1 DEF DeviceHit
  <2>. QED
    BY <2>1 DEF StepDevice, Yield
<1>5. \A i, j \in Bases : i = j
  BY <1>0, <1>1, OneBaseCovers DEF BaseHit
<1>6. Step2(rows, segs, q) = Yield(Bases)
  <2>. DEFINE Key(i) == <<segs[rows[i].seg].net.hi - segs[rows[i].seg].net.lo,
                          rows[i].seg, i>>
  <2>1. Top(Bases, Key) = Yield(Bases)
    <3>. HIDE DEF Key, Bases
    <3>. QED
      BY <1>5, TopOfOne
  <2>. QED
    BY <2>1 DEF Step2
<1>7. ResolveSegment(rows, segs, q) = Yield(Bases)
  <2>. DEFINE Key(i) == <<segs[rows[i].seg].net.hi - segs[rows[i].seg].net.lo, i>>
  <2>1. {i \in mine : /\ IsBase(rows[i]) /\ segs[rows[i].seg] # NULL
                      /\ Inside(q.ip, segs[rows[i].seg].net)} = Bases
    BY <1>1 DEF BaseHit
  <2>2. Top(Bases, Key) = Yield(Bases)
    <3>. HIDE DEF Key, Bases
    <3>. QED
      BY <1>5, TopOfOne
  <2>. QED
    BY <2>1, <2>2 DEF ResolveSegment
<1>8. ResolveCategory(rows, nas, q) = Step3(rows, nas, q)
  BY DEF ResolveCategory
<1>. HIDE DEF Exceptions, Bases
<1>. QED
  BY <1>2, <1>3, <1>4, <1>6, <1>7, <1>8, OrElseNothing DEF Preview, Authorize

(* THE PREVIEW TELLS WHAT FREERADIUS WILL DO.  For any tables that requests
   served one at a time can leave behind, any registry and any Access-Request
   of a user whose rows all target segments: the resolver behind
   POST /access-policies/preview and the SQL of nas_based_authorization name
   the same row, although they check and order the rows differently. *)
THEOREM PreviewTellsTheTruth ==
    ASSUME Serial
    PROVE  Spec => []PreviewAgreesOnSegments
<1>1. Init => SerialInv
  BY SerialInit
<1>2. SerialInv /\ [Next]_vars => SerialInv'
  BY NextType, SerialStep, RequestsAssumption, TablesAssumption DEF SerialInv
<1>3. SerialInv => PreviewAgreesOnSegments
  BY PreviewAgrees DEF PreviewAgreesOnSegments
<1>. QED
  BY <1>1, <1>2, <1>3, PTL DEF Spec

-----------------------------------------------------------------------------
(* One Access-Request, decided while handlers change the tables. *)

(* K sorts the rows of S: n integers each, none below -b, no two rows alike. *)
Sorts(K, S, n, b) ==
    /\ K \in [S -> [1 .. n -> Int]]
    /\ \A i \in S : \A c \in 1 .. n : K[i][c] >= -b
    /\ \A i, j \in S : i # j => \E c \in 1 .. n : K[i][c] # K[j][c]

(* ORDER BY a key that ends in the row id always puts one row first: keys of
   integers bounded below are well-founded under the lexicographic order. *)
LEMMA LexMinimum ==
    ASSUME NEW n \in Nat, NEW b \in Nat, NEW S, S # {}, NEW K, Sorts(K, S, n, b)
    PROVE  \E i \in S : \A j \in S \ {i} : LexBefore(K[i], K[j])
<1>. SUFFICES ASSUME K \in [S -> [1 .. n -> Int]],
                     \A i \in S : \A c \in 1 .. n : K[i][c] >= -b,
                     \A i, j \in S : i # j => \E c \in 1 .. n : K[i][c] # K[j][c]
              PROVE  \E i \in S : \A j \in S \ {i} : LexBefore(K[i], K[j])
  BY DEF Sorts
<1>. DEFINE R == OpToRel(<, Nat)
            N(i) == [c \in 1 .. n |-> K[i][c] + b]
            T == {N(i) : i \in S}
            L == LexProductOrdering(R, Nat, n)
<1>0. \A x, y \in Nat : <<x, y>> \in R <=> x < y
  BY DEF OpToRel
<1>1. IsWellFoundedOn(R, Nat)
  BY NatLessThanWellFounded
<1>2. \A i \in S : N(i) \in [1 .. n -> Nat]
  OBVIOUS
<1>. HIDE DEF R
<1>3. IsWellFoundedOn(L, [1 .. n -> Nat])
  BY <1>1, WFLexProductOrdering
<1>4. PICK x \in T : \A y \in T : ~(<<y, x>> \in L)
  <2>1. T \subseteq [1 .. n -> Nat] /\ T # {}
    <3>. HIDE DEF N
    <3>. QED
      BY <1>2
  <2>. HIDE DEF L, T
  <2>. QED
    BY <1>3, <2>1, WFMin
<1>5. PICK i \in S : x = N(i)
  BY <1>4
<1>6. ASSUME NEW j \in S \ {i} PROVE LexBefore(K[i], K[j])
  <2>. DEFINE D == {c \in 1 .. n : K[i][c] # K[j][c]}
  <2>1. D \subseteq Nat /\ D # {}
    <3>1. \E c \in 1 .. n : K[i][c] # K[j][c]
      OBVIOUS
    <3>2. D \subseteq 1 .. n
      OBVIOUS
    <3>3. D # {}
      BY <3>1
    <3>4. 1 .. n \subseteq Nat
      OBVIOUS
    <3>. HIDE DEF D
    <3>. QED
      BY <3>2, <3>3, <3>4
  <2>2. PICK c \in D : \A d \in D : ~(<<d, c>> \in R)
    <3>. HIDE DEF D
    <3>. QED
      BY <1>1, <2>1, WFMin
  <2>3. c \in 1 .. n /\ K[i][c] # K[j][c] /\ K[i][c] \in Int /\ K[j][c] \in Int
    BY <2>2
  <2>4. \A d \in 1 .. c - 1 : K[i][d] = K[j][d]
    <3>1. \A d \in 1 .. c - 1 : d \in 1 .. n /\ d < c /\ d \in Nat /\ c \in Nat
      BY <2>3
    <3>. QED
      BY <1>0, <2>2, <3>1
  <2>5. ~(K[j][c] < K[i][c])
    <3>1. SUFFICES ASSUME K[j][c] < K[i][c] PROVE <<N(j), N(i)>> \in L
      BY <1>4, <1>5
    <3>2. <<N(j)[c], N(i)[c]>> \in R
      <4>1. N(j)[c] = K[j][c] + b /\ N(i)[c] = K[i][c] + b
        BY <2>3
      <4>2. N(j)[c] \in Nat /\ N(i)[c] \in Nat
        BY <1>2, <2>3
      <4>. HIDE DEF N
      <4>3. N(j)[c] < N(i)[c]
        BY ONLY <2>3, <3>1, <4>1, b \in Nat
      <4>. QED
        BY <1>0, <4>2, <4>3
    <3>3. \A d \in 1 .. c - 1 : N(j)[d] = N(i)[d]
      <4>1. \A d \in 1 .. c - 1 : d \in 1 .. n
        BY <2>3
      <4>. QED
        BY <2>4, <4>1
    <3>4. N(i) \in [1 .. n -> Nat] /\ N(j) \in [1 .. n -> Nat]
      BY <1>2
    <3>. HIDE DEF N
    <3>. QED
      BY <2>3, <3>2, <3>3, <3>4 DEF LexProductOrdering
  <2>6. K[i][c] < K[j][c]
    BY <2>3, <2>5
  <2>7. c \in DOMAIN K[i]
    BY <2>3
  <2>. QED
    BY <2>4, <2>6, <2>7 DEF LexBefore
<1>. QED
  BY <1>6

(* So LIMIT 1 finds a row whenever one matches, and no other comes before it. *)
First(S, K) == {i \in S : \A j \in S \ {i} : LexBefore(K[i], K[j])}

LEMMA FirstFound ==
    ASSUME NEW n \in Nat, NEW b \in Nat, NEW S \in SUBSET RowIds, NEW K,
           Sorts(K, S, n, b)
    PROVE  /\ NULL \in Yield(First(S, K)) => S = {}
           /\ \A i \in Yield(First(S, K)) : i # NULL => i \in First(S, K)
<1>1. NULL \notin S
  <2>1. RowIds \subseteq Int
    BY TablesAssumption DEF RowIds
  <2>2. NULL \notin Int
    BY TablesAssumption
  <2>. QED
    BY <2>1, <2>2
<1>2. S # {} => First(S, K) # {}
  BY LexMinimum DEF First
<1>3. First(S, K) \subseteq S
  BY DEF First
<1>. QED
  BY <1>1, <1>2, <1>3 DEF Yield

(* A row that comes first does so in the first column. *)
LEMMA FirstColumn ==
    ASSUME NEW n \in Nat, NEW b \in Nat, NEW S, NEW K, Sorts(K, S, n, b), n >= 1,
           NEW i \in First(S, K), NEW j \in S
    PROVE  i \in S /\ K[i][1] <= K[j][1]
<1>1. i \in S /\ (i # j => LexBefore(K[i], K[j]))
  BY DEF First
<1>2. /\ DOMAIN K[i] = 1 .. n /\ 1 \in 1 .. n
      /\ K[i][1] \in Int /\ K[j][1] \in Int
  BY <1>1 DEF Sorts
<1>3. CASE i = j
  BY <1>1, <1>2, <1>3
<1>4. CASE i # j
  <2>1. PICK k \in 1 .. n :
            K[i][k] < K[j][k] /\ \A l \in 1 .. k - 1 : K[i][l] = K[j][l]
    BY <1>1, <1>2, <1>4 DEF LexBefore
  <2>2. CASE k = 1
    BY <1>1, <1>2, <2>1, <2>2
  <2>3. CASE k # 1
    <3>1. 1 \in 1 .. k - 1
      BY <2>1, <2>3
    <3>. QED
      BY <1>1, <1>2, <2>1, <3>1
  <2>. QED
    BY <2>2, <2>3
<1>. QED
  BY <1>3, <1>4

(* What a query sorts by, as integers. *)
LEMMA KeyOfFive ==
    ASSUME NEW a \in Int, NEW b \in Int, NEW c \in Int, NEW d \in Int, NEW e \in Int
    PROVE  /\ <<a, b, c, d, e>> \in [1 .. 5 -> Int]
           /\ \A k \in 1 .. 5 : <<a, b, c, d, e>>[k] \in {a, b, c, d, e}
OBVIOUS

LEMMA KeyOfThree ==
    ASSUME NEW a \in Int, NEW b \in Int, NEW c \in Int
    PROVE  /\ <<a, b, c>> \in [1 .. 3 -> Int]
           /\ \A k \in 1 .. 3 : <<a, b, c>>[k] \in {a, b, c}
OBVIOUS

(* The rows the first query matches. *)
Hits1(q) == {i \in Active(rows, q) :
                \/ MacHit(rows[i], q) \/ IpHit(rows[i], q) \/ RangeHit(rows[i], segs, q)}

(* The first query yields nothing only if nothing matches, and a row whose
   class no other match undercuts. *)
LEMMA Step1Answers ==
    ASSUME TypeOK, NEW q
    PROVE  /\ NULL \in Step1(rows, segs, q) => Hits1(q) = {}
           /\ \A i \in Step1(rows, segs, q) : i # NULL =>
                i \in Hits1(q) /\ \A j \in Hits1(q) : Class(rows[i], q) <= Class(rows[j], q)
<1>. DEFINE Key(i) == <<Class(rows[i], q), Width(rows[i]),
                        SortKey(rows[i].lo), SortKey(rows[i].hi), i>>
            S == Hits1(q)
            K == [i \in S |-> Key(i)]
            B == MaxIp + 1
<1>1. Step1(rows, segs, q) = Yield(First(S, K))
  BY DEF Step1, Top, First, Hits1
<1>2. S \in SUBSET RowIds /\ \A i \in S : rows[i] \in Rows
  BY DEF Hits1, Active, Live, TypeOK, Opt
<1>3. MaxIp \in Nat /\ MaxRow \in Nat
  BY TablesAssumption
<1>4. ASSUME NEW i \in S
      PROVE  /\ Class(rows[i], q) \in 0 .. 3
             /\ Width(rows[i]) \in Int /\ Width(rows[i]) >= -B
             /\ SortKey(rows[i].lo) \in -1 .. MaxIp
             /\ SortKey(rows[i].hi) \in -1 .. MaxIp
             /\ i \in Nat
  <2>1. rows[i].lo \in Bound /\ rows[i].hi \in Bound
    BY <1>2 DEF Rows
  <2>2. Class(rows[i], q) \in 0 .. 3
    BY DEF Class
  <2>3. \A x \in Bound : SortKey(x) \in -1 .. MaxIp
    BY <1>3 DEF SortKey, Bound, Given, Ips
  <2>4. Given(rows[i].lo) => rows[i].lo \in 0 .. MaxIp
    BY <2>1 DEF Bound, Given, Ips
  <2>5. Given(rows[i].hi) => rows[i].hi \in 0 .. MaxIp
    BY <2>1 DEF Bound, Given, Ips
  <2>6. Width(rows[i]) \in Int /\ Width(rows[i]) >= -B
    BY <1>3, <2>4, <2>5 DEF Width
  <2>. QED
    BY <1>2, <2>1, <2>2, <2>3, <2>6 DEF RowIds
<1>5. \A i \in S : /\ Key(i) \in [1 .. 5 -> Int]
                   /\ \A c \in 1 .. 5 : Key(i)[c] >= -B
                   /\ Key(i)[1] = Class(rows[i], q) /\ Key(i)[5] = i
  <2>. SUFFICES ASSUME NEW i \in S
                PROVE  /\ Key(i) \in [1 .. 5 -> Int]
                       /\ \A c \in 1 .. 5 : Key(i)[c] >= -B
                       /\ Key(i)[1] = Class(rows[i], q) /\ Key(i)[5] = i
    OBVIOUS
  <2>. DEFINE v1 == Class(rows[i], q)
              v2 == Width(rows[i])
              v3 == SortKey(rows[i].lo)
              v4 == SortKey(rows[i].hi)
  <2>1. /\ v1 \in Int /\ v2 \in Int /\ v3 \in Int /\ v4 \in Int /\ i \in Int
        /\ \A v \in {v1, v2, v3, v4, i} : v >= -B
    BY <1>3, <1>4
  <2>2. Key(i) = <<v1, v2, v3, v4, i>>
    OBVIOUS
  <2>. HIDE DEF v1, v2, v3, v4, Key, S, B
  <2>3. /\ Key(i) \in [1 .. 5 -> Int]
        /\ \A c \in 1 .. 5 : Key(i)[c] \in {v1, v2, v3, v4, i}
    BY <2>1, <2>2, KeyOfFive
  <2>4. \A c \in 1 .. 5 : Key(i)[c] >= -B
    BY <2>1, <2>3
  <2>5. Key(i)[1] = v1 /\ Key(i)[5] = i
    BY <2>2
  <2>. QED
    BY <2>3, <2>4, <2>5 DEF v1
<1>6. B \in Nat
  BY <1>3
<1>7. Sorts(K, S, 5, B) /\ \A i \in S : K[i][1] = Class(rows[i], q)
  <2>1. \A i \in S : K[i] = Key(i)
    OBVIOUS
  <2>2. K \in [S -> [1 .. 5 -> Int]]
    <3>. HIDE DEF Key, S
    <3>. QED
      BY <1>5
  <2>. HIDE DEF K, Key, S, B
  <2>3. \A i, j \in S : i # j => K[i][5] # K[j][5]
    BY <1>5, <2>1
  <2>4. 5 \in 1 .. 5
    OBVIOUS
  <2>5. \A i \in S : \A c \in 1 .. 5 : K[i][c] >= -B
    BY <1>5, <2>1
  <2>6. \A i, j \in S : i # j => \E c \in 1 .. 5 : K[i][c] # K[j][c]
    BY <2>3, <2>4
  <2>. QED
    BY <1>5, <2>1, <2>2, <2>5, <2>6 DEF Sorts
<1>8. S = Hits1(q)
  BY DEF S
<1>. HIDE DEF Key, S, K, B
<1>9. 5 \in Nat /\ 5 >= 1
  OBVIOUS
<1>10. /\ NULL \in Yield(First(S, K)) => S = {}
       /\ \A i \in Yield(First(S, K)) : i # NULL => i \in First(S, K)
  BY <1>2, <1>6, <1>7, <1>9, FirstFound
<1>11. \A i \in First(S, K) : /\ i \in S
                               /\ \A j \in S : Class(rows[i], q) <= Class(rows[j], q)
  <2>1. \A i \in First(S, K) : i \in S
    BY DEF First
  <2>. QED
    BY <1>6, <1>7, <1>9, <2>1, FirstColumn
<1>. QED
  BY <1>1, <1>8, <1>10, <1>11

(* A query without ORDER BY finds a row whenever one matches. *)
LEMMA YieldAnswers ==
    ASSUME NEW S \in SUBSET RowIds
    PROVE  NULL \in Yield(S) => S = {}
<1>1. RowIds \subseteq Int
  BY TablesAssumption DEF RowIds
<1>2. NULL \notin Int
  BY TablesAssumption
<1>. QED
  BY <1>1, <1>2 DEF Yield

(* The rows the segment query matches. *)
Hits2(q) == {i \in Active(rows, q) : BaseHit(rows[i], segs, q)}

(* The segment query yields nothing only if nothing matches. *)
LEMMA Step2Answers ==
    ASSUME TypeOK, NEW q
    PROVE  NULL \in Step2(rows, segs, q) => Hits2(q) = {}
<1>. DEFINE Key(i) == <<segs[rows[i].seg].net.hi - segs[rows[i].seg].net.lo,
                        rows[i].seg, i>>
            S == Hits2(q)
            K == [i \in S |-> Key(i)]
<1>1. Step2(rows, segs, q) = Yield(First(S, K))
  BY DEF Step2, Top, First, Hits2
<1>2. S \in SUBSET RowIds /\ \A i \in S : rows[i] \in Rows
  BY DEF Hits2, Active, Live, TypeOK, Opt
<1>3. ASSUME NEW i \in S
      PROVE  /\ Key(i) \in [1 .. 3 -> Int]
             /\ \A c \in 1 .. 3 : Key(i)[c] >= 0
             /\ Key(i)[3] = i
  <2>. DEFINE s == rows[i].seg
              v == segs[s].net.hi - segs[s].net.lo
  <2>1. s \in SegIds /\ segs[s] # NULL
    BY <1>2 DEF Hits2, BaseHit, IsBase, Rows, Opt
  <2>2. segs[s] \in Segments
    BY <2>1 DEF TypeOK, Opt
  <2>3. segs[s].net \in [lo : Ips, hi : Ips] /\ segs[s].net.lo <= segs[s].net.hi
    BY <2>2 DEF Segments, Cidrs
  <2>4. v \in Int /\ v >= 0
    <3>1. segs[s].net.lo \in Int /\ segs[s].net.hi \in Int
      BY <2>3, TablesAssumption DEF Ips
    <3>. QED
      BY <2>3, <3>1
  <2>5. s \in Int /\ s >= 0
    BY <2>1, TablesAssumption DEF SegIds
  <2>6. i \in Int /\ i >= 0
    BY <1>2, TablesAssumption DEF RowIds
  <2>7. Key(i) = <<v, s, i>>
    OBVIOUS
  <2>. HIDE DEF v, s, Key, S
  <2>8. Key(i) \in [1 .. 3 -> Int] /\ \A c \in 1 .. 3 : Key(i)[c] \in {v, s, i}
    BY <2>4, <2>5, <2>6, <2>7, KeyOfThree
  <2>9. \A c \in 1 .. 3 : Key(i)[c] >= 0
    BY <2>4, <2>5, <2>6, <2>8
  <2>10. Key(i)[3] = i
    BY <2>7
  <2>. QED
    BY <2>8, <2>9, <2>10
<1>4. Sorts(K, S, 3, 0)
  <2>1. \A i \in S : K[i] = Key(i)
    OBVIOUS
  <2>2. K \in [S -> [1 .. 3 -> Int]]
    <3>. HIDE DEF Key, S
    <3>. QED
      BY <1>3
  <2>. HIDE DEF K, Key, S
  <2>3. \A i, j \in S : i # j => K[i][3] # K[j][3]
    BY <1>3, <2>1
  <2>4. 3 \in 1 .. 3
    OBVIOUS
  <2>5. \A i \in S : \A c \in 1 .. 3 : K[i][c] >= -0
    BY <1>3, <2>1
  <2>6. \A i, j \in S : i # j => \E c \in 1 .. 3 : K[i][c] # K[j][c]
    BY <2>3, <2>4
  <2>. QED
    BY <2>2, <2>5, <2>6 DEF Sorts
<1>5. S = Hits2(q)
  BY DEF S
<1>6. 0 \in Nat /\ 3 \in Nat
  OBVIOUS
<1>. HIDE DEF Key, S, K
<1>. QED
  BY <1>1, <1>2, <1>4, <1>5, <1>6, FirstFound

-----------------------------------------------------------------------------
(* A row that matches throughout is not passed over. *)

(* Requests the policy decides: those with a NAS-IP-Address. *)
Located == {q \in Requests : q.ip # NULL}

AuthType ==
    /\ \/ auth = NoRequest
       \/ auth \in [step : {"native"}, q : Requests]
       \/ auth \in [step : {"1", "1.5", "2", "3"}, q : Located]
       \/ auth \in [step : {"answered"}, q : Located, row : Opt(RowIds), rank : 1 .. 8]
    /\ stable \subseteq RowIds \X Ranks

(* Every query the request has left behind ruled its ranks out, for the rows
   that have matched since it arrived and still do. *)
PassedOver ==
    /\ Deciding => stable \subseteq Matching(auth.q)
    /\ auth.step = "1.5" => \A m \in stable : m[2] >= 5
    /\ auth.step = "2" => \A m \in stable : m[2] >= 6
    /\ auth.step = "3" => \A m \in stable : m[2] >= 7

RadiusInv == TypeOK /\ AuthType /\ PassedOver /\ StableMatchWins

(* The ranks at which one row decides come in the order of Class. *)
LEMMA RanksFollowClass ==
    ASSUME NEW r, NEW q, NEW s, NEW n, MacHit(r, q) \/ IpHit(r, q) \/ RangeHit(r, s, q)
    PROVE  /\ Class(r, q) + 1 \in MatchRanks(r, q, s, n)
           /\ \A k \in MatchRanks(r, q, s, n) : k \in 1 .. 7 /\ Class(r, q) + 1 <= k
<1>1. CASE MacHit(r, q) /\ r.ip = q.ip
  BY <1>1 DEF Class, MatchRanks, Ranks
<1>2. CASE MacHit(r, q) /\ r.ip # q.ip
  BY <1>2 DEF Class, MatchRanks, Ranks, IpHit
<1>3. CASE ~MacHit(r, q) /\ r.ip = q.ip
  <2>1. IpHit(r, q) /\ Class(r, q) = 2
    BY <1>3 DEF IpHit, RangeHit, Class
  <2>. QED
    BY <1>3, <2>1 DEF MatchRanks, Ranks
<1>4. CASE ~MacHit(r, q) /\ r.ip # q.ip
  <2>1. RangeHit(r, s, q) /\ ~IpHit(r, q) /\ Class(r, q) = 3
    BY <1>4 DEF IpHit, Class
  <2>. QED
    BY <1>4, <2>1 DEF MatchRanks, Ranks
<1>. QED
  BY <1>1, <1>2, <1>3, <1>4

(* What matches at a given rank is what the query of that rank looks for. *)
LEMMA MatchingRanks ==
    ASSUME TypeOK, NEW q, NEW m \in Matching(q)
    PROVE  /\ m[1] \in Active(rows, q) /\ m[2] \in 1 .. 7
           /\ m[2] <= 4 => m[1] \in Hits1(q)
           /\ m[2] = 5 => DeviceHit(rows[m[1]], Registry, q)
           /\ m[2] = 6 => m[1] \in Hits2(q)
           /\ m[2] = 7 => /\ rows[m[1]].cat # NULL
                          /\ CategoryHit(rows[m[1]], rows[m[1]].cat)
                          /\ NasCategories(nas, q) = {rows[m[1]].cat}
           /\ m[2] \in MatchRanks(rows[m[1]], q, segs, nas)
<1>1. /\ m[1] \in Active(rows, q) /\ m[2] \in MatchRanks(rows[m[1]], q, segs, nas)
  BY DEF Matching
<1>2. m[2] \in 1 .. 7
  BY <1>1 DEF MatchRanks, Ranks
<1>. QED
  BY <1>1, <1>2 DEF MatchRanks, Hits1, Hits2

(* The first query answers with a row no stable match outranks. *)
LEMMA Query1Step ==
    ASSUME RadiusInv, Query1
    PROVE  RadiusInv'
<1>. DEFINE q == auth.q
<1>1. /\ auth.step = "1" /\ UNCHANGED <<vars, stable>>
  BY DEF Query1
<1>2. auth \in [step : {"1"}, q : Located]
  BY <1>1 DEF RadiusInv, AuthType, NoRequest
<1>3. TypeOK' /\ stable' = stable /\ TypeOK
  BY <1>1 DEF RadiusInv, TypeOK, vars
<1>4. stable \subseteq Matching(q) /\ stable \subseteq RowIds \X Ranks
  BY <1>1 DEF RadiusInv, PassedOver, AuthType, Deciding
<1>5. PICK i \in Step1(rows, segs, q) :
          IF i = NULL THEN Continue("1.5")
          ELSE \E k \in MatchRanks(rows[i], q, segs, nas) :
                  /\ \A l \in MatchRanks(rows[i], q, segs, nas) : k <= l
                  /\ Answer(i, k)
  BY DEF Query1
<1>6. CASE i = NULL
  <2>1. auth' = [step |-> "1.5", q |-> q]
    BY <1>2, <1>5, <1>6 DEF Continue
  <2>2. Hits1(q) = {}
    BY <1>3, <1>6, Step1Answers
  <2>3. \A m \in stable : m[2] \in 1 .. 7 /\ ~(m[2] <= 4)
    BY <1>3, <1>4, <2>2, MatchingRanks
  <2>4. \A m \in stable : m[2] >= 5
    BY <2>3
  <2>6. stable' \subseteq Matching(auth.q)'
    BY <1>1, <1>4, <2>1 DEF Matching, Active, Live, vars
  <2>7. AuthType'
    BY <1>2, <1>3, <1>4, <2>1 DEF AuthType
  <2>8. PassedOver' /\ StableMatchWins'
    BY <1>3, <2>1, <2>4, <2>6 DEF PassedOver, StableMatchWins
  <2>. QED
    BY <1>3, <2>7, <2>8 DEF RadiusInv
<1>7. CASE i # NULL
  <2>1. PICK k \in MatchRanks(rows[i], q, segs, nas) :
            /\ \A l \in MatchRanks(rows[i], q, segs, nas) : k <= l
            /\ auth' = [step |-> "answered", q |-> q, row |-> i, rank |-> k]
    BY <1>5, <1>7 DEF Answer
  <2>2. /\ i \in Hits1(q)
        /\ \A j \in Hits1(q) : Class(rows[i], q) <= Class(rows[j], q)
    BY <1>3, <1>5, <1>7, Step1Answers
  <2>3. /\ Class(rows[i], q) + 1 \in MatchRanks(rows[i], q, segs, nas)
        /\ k \in 1 .. 7
    BY <2>1, <2>2, RanksFollowClass DEF Hits1
  <2>4. k <= Class(rows[i], q) + 1
    BY <2>1, <2>3
  <2>5. \A j : Class(rows[j], q) \in 0 .. 3
    BY DEF Class
  <2>6. ASSUME NEW m \in stable PROVE k <= m[2]
    <3>1. m \in Matching(q)
      BY <1>4
    <3>2. m[2] \in 1 .. 7
      BY <1>3, <3>1, MatchingRanks
    <3>3. CASE m[2] <= 4
      <4>1. m[1] \in Hits1(q) /\ m[2] \in MatchRanks(rows[m[1]], q, segs, nas)
        BY <1>3, <3>1, <3>3, MatchingRanks
      <4>2. Class(rows[m[1]], q) + 1 <= m[2]
        BY <4>1, RanksFollowClass DEF Hits1
      <4>3. Class(rows[i], q) <= Class(rows[m[1]], q)
        BY <2>2, <4>1
      <4>4. Class(rows[i], q) \in 0 .. 3 /\ Class(rows[m[1]], q) \in 0 .. 3
        BY <2>5
      <4>. QED
        BY <2>3, <2>4, <3>2, <4>2, <4>3, <4>4
    <3>4. CASE ~(m[2] <= 4)
      BY <2>3, <2>4, <2>5, <3>2, <3>4
    <3>. QED
      BY <3>3, <3>4
  <2>7. i \in RowIds
    BY <1>3, <2>2 DEF Hits1, Active, Live, TypeOK
  <2>8. AuthType'
    BY <1>2, <1>3, <1>4, <2>1, <2>3, <2>7 DEF AuthType, Opt
  <2>9. PassedOver' /\ StableMatchWins'
    BY <1>3, <2>1, <2>6 DEF PassedOver, StableMatchWins, Deciding
  <2>. QED
    BY <1>3, <2>8, <2>9 DEF RadiusInv
<1>. QED
  BY <1>6, <1>7

(* A query that goes on with the request it found waiting. *)
LEMMA ContinueStep ==
    ASSUME RadiusInv, auth.step \in {"1.5", "2"}, UNCHANGED <<vars, stable>>,
           NEW step \in {"2", "3"}, Continue(step),
           \A m \in stable : /\ step = "2" => m[2] >= 6
                             /\ step = "3" => m[2] >= 7
    PROVE  RadiusInv'
<1>1. auth \in [step : {"1.5", "2"}, q : Located]
  BY DEF RadiusInv, AuthType, NoRequest
<1>2. auth' = [step |-> step, q |-> auth.q]
  BY <1>1 DEF Continue
<1>3. TypeOK' /\ stable' = stable
  BY DEF RadiusInv, TypeOK, vars
<1>4. stable \subseteq Matching(auth.q) /\ stable \subseteq RowIds \X Ranks
  BY DEF RadiusInv, PassedOver, AuthType, Deciding
<1>5. stable' \subseteq Matching(auth.q)'
  BY <1>2, <1>4 DEF Matching, Active, Live, vars
<1>6. AuthType'
  BY <1>1, <1>2, <1>3, <1>4 DEF AuthType
<1>7. PassedOver' /\ StableMatchWins'
  BY <1>2, <1>3, <1>5 DEF PassedOver, StableMatchWins
<1>. QED
  BY <1>3, <1>6, <1>7 DEF RadiusInv

(* A query that answers, with a row or with the rejection. *)
LEMMA AnswerStep ==
    ASSUME RadiusInv, auth.step \in {"1.5", "2", "3"}, UNCHANGED <<vars, stable>>,
           NEW i \in Opt(RowIds), NEW k \in 1 .. 8, Answer(i, k),
           \A m \in stable : k <= m[2]
    PROVE  RadiusInv'
<1>1. auth \in [step : {"1.5", "2", "3"}, q : Located]
  BY DEF RadiusInv, AuthType, NoRequest
<1>2. auth' = [step |-> "answered", q |-> auth.q, row |-> i, rank |-> k]
  BY DEF Answer
<1>3. TypeOK' /\ stable' = stable
  BY DEF RadiusInv, TypeOK, vars
<1>4. AuthType'
  BY <1>1, <1>2, <1>3 DEF AuthType, RadiusInv
<1>5. PassedOver' /\ StableMatchWins'
  BY <1>2, <1>3 DEF PassedOver, StableMatchWins, Deciding
<1>. QED
  BY <1>3, <1>4, <1>5 DEF RadiusInv

(* The ids of rows are no missing value. *)
LEMMA ActiveIds ==
    ASSUME TypeOK, NEW q
    PROVE  Active(rows, q) \in SUBSET RowIds
BY DEF Active, Live, TypeOK

(* The device, segment and category queries. *)
LEMMA LaterQueriesStep ==
    ASSUME RadiusInv, QueryDevice \/ Query2 \/ Query3
    PROVE  RadiusInv'
<1>. DEFINE q == auth.q
<1>0. TypeOK /\ UNCHANGED <<vars, stable>> /\ auth.step \in {"1.5", "2", "3"}
  BY DEF RadiusInv, QueryDevice, Query2, Query3
<1>1. \A m \in stable : m \in Matching(q) /\ m[2] \in 1 .. 7
  BY <1>0, MatchingRanks DEF RadiusInv, PassedOver, Deciding
<1>. HIDE DEF q
<1>2. CASE QueryDevice
  <2>. DEFINE S == {i \in Active(rows, q) : DeviceHit(rows[i], Registry, q)}
  <2>1. auth.step = "1.5" /\ \A m \in stable : m[2] >= 5
    BY <1>2 DEF QueryDevice, RadiusInv, PassedOver
  <2>2. S \in SUBSET RowIds
    BY <1>0, ActiveIds
  <2>3. PICK i \in Yield(S) : IF i = NULL THEN Continue("2") ELSE Answer(i, 5)
    BY <1>2 DEF QueryDevice, StepDevice, q
  <2>4. CASE i = NULL
    <3>1. S = {}
      <4>. HIDE DEF S
      <4>. QED
        BY <2>2, <2>3, <2>4, YieldAnswers
    <3>2. \A m \in stable : m[2] # 5
      BY <1>0, <1>1, <3>1, MatchingRanks
    <3>3. \A m \in stable : m[2] >= 6
      BY <1>1, <2>1, <3>2
    <3>. QED
      BY <1>0, <2>1, <2>3, <2>4, <3>3, ContinueStep
  <2>5. CASE i # NULL
    <3>1. i \in Opt(RowIds)
      BY <2>2, <2>3, <2>5 DEF Yield, Opt
    <3>2. \A m \in stable : 5 <= m[2]
      BY <1>1, <2>1
    <3>. QED
      BY <1>0, <2>3, <2>5, <3>1, <3>2, AnswerStep
  <2>. QED
    BY <2>4, <2>5
<1>3. CASE Query2
  <2>1. auth.step = "2" /\ \A m \in stable : m[2] >= 6
    BY <1>3 DEF Query2, RadiusInv, PassedOver
  <2>2. PICK i \in Step2(rows, segs, q) : IF i = NULL THEN Continue("3") ELSE Answer(i, 6)
    BY <1>3 DEF Query2, q
  <2>3. CASE i = NULL
    <3>1. Hits2(q) = {}
      BY <1>0, <2>2, <2>3, Step2Answers
    <3>2. \A m \in stable : m[2] # 6
      BY <1>0, <1>1, <3>1, MatchingRanks
    <3>3. \A m \in stable : m[2] >= 7
      BY <1>1, <2>1, <3>2
    <3>. QED
      BY <1>0, <2>1, <2>2, <2>3, <3>3, ContinueStep
  <2>4. CASE i # NULL
    <3>1. i \in Opt(RowIds)
      BY <1>0, <2>2, <2>4, ActiveIds DEF Step2, Top, Yield, Opt
    <3>2. \A m \in stable : 6 <= m[2]
      BY <1>1, <2>1
    <3>. QED
      BY <1>0, <2>2, <2>4, <3>1, <3>2, AnswerStep
  <2>. QED
    BY <2>3, <2>4
<1>4. CASE Query3
  <2>. DEFINE Of(c) == Yield({i \in Active(rows, q) : CategoryHit(rows[i], c)})
              C == NasCategories(nas, q)
  <2>1. auth.step = "3" /\ \A m \in stable : m[2] >= 7
    BY <1>4 DEF Query3, RadiusInv, PassedOver
  <2>2. PICK i \in Step3(rows, nas, q) :
            IF i = NULL THEN Answer(NULL, Rejected) ELSE Answer(i, 7)
    BY <1>4 DEF Query3, q
  <2>3. i \in IF C = {} THEN {NULL} ELSE UNION {Of(c) : c \in C}
    BY <2>2 DEF Step3
  <2>4. CASE i = NULL
    <3>1. ASSUME NEW m \in stable PROVE FALSE
      <4>. DEFINE c == rows[m[1]].cat
      <4>1. m[2] = 7
        BY <1>1, <2>1
      <4>2. /\ m[1] \in Active(rows, q) /\ CategoryHit(rows[m[1]], c)
            /\ C = {c}
        BY <1>0, <1>1, <4>1, MatchingRanks
      <4>3. NULL \in Of(c)
        BY <2>3, <2>4, <4>2
      <4>4. {j \in Active(rows, q) : CategoryHit(rows[j], c)} \in SUBSET RowIds
        BY <1>0, ActiveIds
      <4>5. {j \in Active(rows, q) : CategoryHit(rows[j], c)} = {}
        BY <4>3, <4>4, YieldAnswers
      <4>. QED
        BY <4>2, <4>5
    <3>. QED
      BY <1>0, <2>2, <2>4, <3>1, AnswerStep DEF Rejected, Opt
  <2>5. CASE i # NULL
    <3>1. i \in Opt(RowIds)
      BY <1>0, <2>3, <2>5, ActiveIds DEF Yield, Opt
    <3>2. \A m \in stable : 7 <= m[2]
      BY <1>1, <2>1
    <3>. QED
      BY <1>0, <2>2, <2>5, <3>1, <3>2, AnswerStep
  <2>. QED
    BY <2>4, <2>5
<1>. QED
  BY <1>2, <1>3, <1>4

(* A handler's step leaves the request in hand, or loses it; what is called
   stable afterwards still matches. *)
LEMMA AdminStepKeeps ==
    ASSUME RadiusInv, TypeOK', AdminStep
    PROVE  RadiusInv'
<1>1. auth' = auth \/ auth' = NoRequest
  BY DEF AdminStep
<1>2. stable' = IF Deciding' THEN stable \cap Matching(auth.q)'
                ELSE IF auth.step = "answered" THEN stable ELSE {}
  BY DEF AdminStep
<1>3. NoRequest.step = "none"
  BY DEF NoRequest
<1>4. stable' \subseteq stable
  BY <1>2
<1>5. AuthType'
  BY <1>1, <1>4 DEF RadiusInv, AuthType
<1>6. CASE auth' = auth
  <2>1. Deciding' => stable' \subseteq Matching(auth.q)'
    BY <1>2
  <2>. QED
    BY <1>4, <1>5, <1>6, <2>1 DEF RadiusInv, PassedOver, StableMatchWins
<1>7. CASE auth' = NoRequest
  BY <1>3, <1>5, <1>7 DEF RadiusInv, PassedOver, StableMatchWins, Deciding
<1>. QED
  BY <1>1, <1>6, <1>7

(* An Access-Request arrives, or falls through to the native groups. *)
LEMMA ArrivalStep ==
    ASSUME RadiusInv, Receive \/ FallThrough
    PROVE  RadiusInv'
<1>1. TypeOK'
  BY DEF RadiusInv, TypeOK, Receive, FallThrough, vars
<1>2. CASE Receive
  <2>1. PICK q \in Requests :
            /\ auth' = IF q.ip = NULL THEN [step |-> "native", q |-> q]
                                      ELSE [step |-> "1", q |-> q]
            /\ stable' = IF q.ip = NULL THEN {} ELSE Matching(q)
            /\ UNCHANGED vars
    BY <1>2 DEF Receive
  <2>2. Matching(q) \subseteq RowIds \X Ranks
    BY DEF Matching
  <2>3. Matching(q)' = Matching(q)
    BY <2>1 DEF Matching, Active, Live, vars
  <2>4. CASE q.ip = NULL
    <3>1. auth' = [step |-> "native", q |-> q] /\ stable' = {}
      BY <2>1, <2>4
    <3>. QED
      BY <1>1, <3>1 DEF RadiusInv, AuthType, PassedOver, StableMatchWins, Deciding
  <2>5. CASE q.ip # NULL
    <3>1. auth' = [step |-> "1", q |-> q] /\ stable' = Matching(q)
      BY <2>1, <2>5
    <3>2. auth'.q = q /\ stable' \subseteq Matching(q)'
      BY <2>3, <3>1
    <3>3. stable' \subseteq Matching(auth.q)'
      BY <3>2 DEF Matching
    <3>4. AuthType'
      BY <2>2, <2>5, <3>1 DEF AuthType, Located
    <3>. QED
      BY <1>1, <3>1, <3>3, <3>4 DEF RadiusInv, PassedOver, StableMatchWins
  <2>. QED
    BY <2>4, <2>5
<1>3. CASE FallThrough
  <2>1. auth' = NoRequest /\ stable' = stable
    BY <1>3 DEF FallThrough
  <2>. QED
    BY <1>1, <2>1
       DEF RadiusInv, AuthType, PassedOver, StableMatchWins, Deciding, NoRequest
<1>. QED
  BY <1>2, <1>3

(* A STABLE MATCH IS NOT PASSED OVER.  For any tables, any registry, any
   number of handlers committing between the queries of one Access-Request,
   and any restarts: a row that matches the request from its arrival to its
   answer is answered with, or a row of no lower rank is; the request is never
   rejected over its head.  FreeRADIUS needs no transaction for that: the
   invariant is that each query it has left behind ruled out, for the rows
   that stayed, the ranks it looks for. *)
THEOREM StableMatchNeverPassedOver == RadiusSpec => []StableMatchWins
<1>1. RadiusInit => RadiusInv
  <2>. SUFFICES ASSUME RadiusInit PROVE RadiusInv
    OBVIOUS
  <2>1. TypeOK
    BY InitType DEF RadiusInit
  <2>. QED
    BY <2>1 DEF RadiusInit, NoRequest, RadiusInv, AuthType, PassedOver, StableMatchWins,
                Deciding
<1>2. RadiusInv /\ [RadiusNext]_radiusVars => RadiusInv'
  <2>. SUFFICES ASSUME RadiusInv, [RadiusNext]_radiusVars PROVE RadiusInv'
    OBVIOUS
  <2>1. CASE AdminStep
    <3>1. TypeOK'
      BY <2>1, NextType, RequestsAssumption, TablesAssumption DEF RadiusInv, AdminStep
    <3>. QED
      BY <2>1, <3>1, AdminStepKeeps
  <2>2. CASE UNCHANGED radiusVars
    <3>1. TypeOK'
      BY <2>2 DEF radiusVars, vars, RadiusInv, TypeOK
    <3>2. AuthType'
      BY <2>2 DEF radiusVars, RadiusInv, AuthType
    <3>3. Matching(auth.q)' = Matching(auth.q)
      BY <2>2 DEF radiusVars, vars, Matching, Active, Live
    <3>4. PassedOver' /\ StableMatchWins'
      BY <2>2, <3>3 DEF radiusVars, RadiusInv, PassedOver, StableMatchWins, Deciding
    <3>. QED
      BY <3>1, <3>2, <3>4 DEF RadiusInv
  <2>. QED
    BY <2>1, <2>2, Query1Step, LaterQueriesStep, ArrivalStep DEF RadiusNext
<1>3. RadiusInv => StableMatchWins
  BY DEF RadiusInv
<1>. QED
  BY <1>1, <1>2, <1>3, PTL DEF RadiusSpec
=============================================================================
