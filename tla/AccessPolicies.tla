--------------------------- MODULE AccessPolicies ---------------------------
(***************************************************************************)
(* The handlers that mutate access_policy_assignments and the three tables *)
(* its targets refer to: network_segments, nas_categories and nas.         *)
(*                                                                         *)
(* Each handler runs in a session of its own.  Its reads come from one     *)
(* REPEATABLE READ snapshot and end with a validated unit of work held in  *)
(* the session; its commit comes later, and in between any other handler   *)
(* may commit.  log_audit is a second transaction after that commit.  So a *)
(* worker goes  idle -> a planned write -> "audit" -> idle,  a refused     *)
(* request never leaves idle, and a commit the database refuses (a         *)
(* duplicate target_key, a missing parent, a row that vanished) goes back  *)
(* to idle with nothing written.                                           *)
(***************************************************************************)
EXTENDS PolicyTables

CONSTANTS
    Workers,        \* requests the backend can be serving at one time
    Posts, Puts,    \* bodies of POST and PUT /assignments
    Bulks,          \* address lists of POST /assignments/bulk
    Nets,           \* CIDRs of POST and PUT /network-segments
    CatNames,       \* names of POST and PUT /nas-categories
    NasBodies       \* bodies of POST and PUT /nas

ASSUME RequestsAssumption ==
    /\ Posts \cup Puts \subseteq {p \in Payloads : ValidPayload(p)}
    /\ Bulks \subseteq Seq(Ips) \ {<<>>}
    /\ Nets \subseteq Cidrs
    /\ CatNames \subseteq Names
    /\ NasBodies \subseteq NasRows

VARIABLES
    rows,           \* access_policy_assignments
    segs,           \* network_segments
    cats,           \* nas_categories: the name of each
    nas,            \* nas
    next,           \* the AUTO_INCREMENT counter of each table
    req,            \* what each worker is about to write or to log
    clients,        \* NAS clients FreeRADIUS read at its last start
    reloadLost      \* observer: a reload was due and never happened

vars == <<rows, segs, cats, nas, next, req, clients, reloadLost>>
tables == <<rows, segs, cats, nas, next>>
observers == <<clients, reloadLost>>

-----------------------------------------------------------------------------
(* What a worker can hold between its reads and the end of its request.    *)
Idle == [op |-> "idle"]

Plans ==
    {Idle}
    \cup [op : {"insert"}, batch : Seq(Rows)]
    \cup [op : {"update"}, id : RowIds, old : Rows, new : Rows, logged : BOOLEAN]
    \cup [op : {"delete"}, id : RowIds]
    \cup [op : {"segInsert"}, new : Segments]
    \cup [op : {"segUpdate"}, id : SegIds, old : Segments, new : Segments]
    \cup [op : {"segDelete"}, id : SegIds]
    \cup [op : {"catInsert"}, new : Names]
    \cup [op : {"catUpdate"}, id : CatIds, old : Names, new : Names]
    \cup [op : {"catDelete"}, id : CatIds]
    \cup [op : {"nasInsert"}, new : NasRows]
    \cup [op : {"nasUpdate"}, id : NasIds, old : NasRows, new : NasRows,
          touched : [RowIds -> Opt(Rows)]]
    \cup [op : {"nasDelete"}, id : NasIds]
    \cup [op : {"audit"}, table : {"rows", "segs", "cats", "nas"},
          ids : SUBSET Nat]

TypeOK ==
    /\ rows \in [RowIds -> Opt(Rows)]
    /\ segs \in [SegIds -> Opt(Segments)]
    /\ cats \in [CatIds -> Opt(Names)]
    /\ nas \in [NasIds -> Opt(NasRows)]
    /\ next \in [row : Nat \ {0}, seg : Nat \ {0}, cat : Nat \ {0}, nas : Nat \ {0}]
    /\ req \in [Workers -> Plans]
    /\ clients \in SUBSET Ips
    /\ reloadLost \in BOOLEAN

Init ==
    /\ rows = [i \in RowIds |-> NULL]
    /\ segs = [s \in SegIds |-> NULL]
    /\ cats = [c \in CatIds |-> NULL]
    /\ nas = [n \in NasIds |-> NULL]
    /\ next = [row |-> 1, seg |-> 1, cat |-> 1, nas |-> 1]
    /\ req = [w \in Workers |-> Idle]
    /\ clients = {}
    /\ reloadLost = FALSE

(* The handler's reads succeeded: it holds plan and has written nothing.   *)
Hold(w, plan) ==
    /\ req[w] = Idle
    /\ req' = [req EXCEPT ![w] = plan]
    /\ UNCHANGED <<tables, observers>>

(* The request ends here: an error response, or a handler that logs nothing*)
End(w) == req' = [req EXCEPT ![w] = Idle]

(* The commit is durable; log_audit is still to run, after the refresh of  *)
(* the rows in ids.                                                        *)
Committed(w, t, i) ==
    req' = [req EXCEPT ![w] = [op |-> "audit", table |-> t, ids |-> i]]

-----------------------------------------------------------------------------
(* Integrity the database enforces on the outcome of a commit.             *)
UniqueKeys(r) ==
    \A i, j \in Live(r) : i # j => r[i].key # r[j].key

HasParents(r) ==
    /\ r.seg # NULL => segs[r.seg] # NULL
    /\ r.cat # NULL => cats[r.cat] # NULL

-----------------------------------------------------------------------------
(* validate_segment_exception(db, payload, exclude_id).                    *)
Siblings(p, ex) ==
    {i \in Live(rows) \ {ex} : rows[i].user = p.user /\ rows[i].seg = p.seg}

\* Mutant: only the first address of the new range is compared.
RangeStartAllowed(p, ex) ==
    /\ Inside(p.lo, segs[p.seg].net) /\ Inside(p.hi, segs[p.seg].net)
    /\ \A i \in Siblings(p, ex) : IsException(rows[i]) => ~Inside(p.lo, rows[i])

RangeAllowed(p, ex) ==
    /\ Inside(p.lo, segs[p.seg].net) /\ Inside(p.hi, segs[p.seg].net)
    /\ \A i \in Siblings(p, ex) : IsException(rows[i]) => ~RangesOverlap(p, rows[i])

\* Mutant: the duplicate check of an update is forgotten.
BaseAllowedOnInsert(p, ex) ==
    ex = NULL => \A i \in Siblings(p, ex) : ~IsBase(rows[i])

BaseAllowed(p, ex) ==
    \A i \in Siblings(p, ex) : ~IsBase(rows[i])

SegmentTargetAllowed(p, ex) ==
    p.seg # NULL =>
        /\ segs[p.seg] # NULL
        /\ IF Given(p.lo) /\ Given(p.hi) THEN RangeAllowed(p, ex)
                                         ELSE BaseAllowed(p, ex)

(* POST /assignments: the reads.  The category guard is off by default.    *)
CreateOrReplace(w) ==
    \E p \in Posts :
        LET found == {i \in Live(rows) : Replaces(p, rows[i])} IN
        \/ /\ found = {}
           /\ SegmentTargetAllowed(p, NULL)
           /\ Hold(w, [op |-> "insert", batch |-> <<AsRow(p)>>])
        \/ \E i \in found :
           /\ SegmentTargetAllowed(p, i)
           /\ Hold(w, [op |-> "update", id |-> i, old |-> rows[i],
                       new |-> AsRow(p), logged |-> FALSE])

(* POST /assignments/bulk: no read at all, one unit of work for the list.  *)
CreateBulk(w) ==
    \E u \in Users, b \in Bulks :
        Hold(w, [op |-> "insert", batch |-> [k \in DOMAIN b |-> BulkRow(u, b[k])]])

(* PUT /assignments/{id}: the "other active assignment" query compares the *)
(* category with ==, which is IS NULL when the payload has none.           *)
OtherActive(p, i) ==
    \E j \in Live(rows) \ {i} :
        rows[j].user = p.user /\ rows[j].cat = p.cat /\ rows[j].active

UpdateAssignment(w) ==
    \E i \in RowIds, p \in Puts :
        /\ SegmentTargetAllowed(p, i)
        /\ rows[i] # NULL
        /\ ~OtherActive(p, i)
        /\ Hold(w, [op |-> "update", id |-> i, old |-> rows[i],
                    new |-> AsRow(p), logged |-> TRUE])

(* DELETE /assignments/{id} *)
DeleteAssignment(w) ==
    \E i \in Live(rows) : Hold(w, [op |-> "delete", id |-> i])

(* The INSERTs of a unit of work, under consecutive new ids: all or none.  *)
CommitInsert(w) ==
    LET plan == req[w]
        n == Len(plan.batch)
        new == next.row .. next.row + n - 1
        after == [i \in RowIds |-> IF i \in new THEN plan.batch[i - next.row + 1]
                                                ELSE rows[i]]
    IN  /\ plan.op = "insert"
        /\ next.row + n - 1 <= MaxRow
        /\ \/ /\ UniqueKeys(after)
              /\ \A k \in 1 .. n : HasParents(plan.batch[k])
              /\ rows' = after
              /\ next' = [next EXCEPT !.row = @ + n]
              /\ Committed(w, "rows", new)
              /\ UNCHANGED <<segs, cats, nas>>
           \/ /\ ~(UniqueKeys(after) /\ \A k \in 1 .. n : HasParents(plan.batch[k]))
              /\ End(w)
              /\ UNCHANGED tables
        /\ UNCHANGED observers

\* Mutant: the session writes the row back when it is gone (merge, not UPDATE).
CommitUpsert(w) ==
    LET plan == req[w]
        i == plan.id
        merged == IF rows[i] = NULL THEN plan.new
                  ELSE MergeRow(rows[i], plan.old, plan.new)
        after == [rows EXCEPT ![i] = merged]
    IN  /\ plan.op = "update"
        /\ UniqueKeys(after) /\ HasParents(merged)
        /\ rows' = after
        /\ End(w)
        /\ UNCHANGED <<segs, cats, nas, next, observers>>

(* The UPDATE of a POST that replaces (which returns without log_audit) or *)
(* of a PUT (which goes on to refresh and log).                            *)
CommitUpdate(w) ==
    LET plan == req[w]
        i == plan.id
        merged == MergeRow(rows[i], plan.old, plan.new)
        after == [rows EXCEPT ![i] = merged]
        accepted == rows[i] # NULL /\ UniqueKeys(after) /\ HasParents(merged)
    IN  /\ plan.op = "update"
        /\ \/ /\ accepted
              /\ rows' = after
              /\ IF plan.logged THEN Committed(w, "rows", {i}) ELSE End(w)
           \/ /\ ~accepted
              /\ End(w)
              /\ UNCHANGED rows
        /\ UNCHANGED <<segs, cats, nas, next, observers>>

(* A DELETE that finds no row any more is not an error, and is logged too. *)
CommitDelete(w) ==
    /\ req[w].op = "delete"
    /\ rows' = [rows EXCEPT ![req[w].id] = NULL]
    /\ Committed(w, "rows", {})
    /\ UNCHANGED <<segs, cats, nas, next, observers>>

-----------------------------------------------------------------------------
(* Network segments.                                                       *)
NameFree(t, n, ex) == \A k \in Live(t) \ {ex} : t[k].name # n

\* Mutant: only the first address of the new CIDR is compared.
CidrStartFree(net, ex) ==
    \A s \in Live(segs) \ {ex} : ~Inside(net.lo, segs[s].net)

CidrFree(net, ex) ==
    \A s \in Live(segs) \ {ex} : ~CidrsOverlap(segs[s].net, net)

\* Mutant: only the first address of each exception is compared.
ExceptionStartsFit(s, net) ==
    \A i \in Live(rows) :
        rows[i].seg = s /\ rows[i].lo # NULL /\ rows[i].hi # NULL
        => IsException(rows[i]) /\ Inside(rows[i].lo, net)

(* _get_invalid_segment_exceptions: an empty bound does not parse, so the  *)
(* handler fails on it as it does on an exception that would fall outside. *)
ExceptionsFit(s, net) ==
    \A i \in Live(rows) :
        rows[i].seg = s /\ rows[i].lo # NULL /\ rows[i].hi # NULL
        => /\ IsException(rows[i])
           /\ Inside(rows[i].lo, net) /\ Inside(rows[i].hi, net)

CreateSegment(w) ==
    \E n \in Names, net \in Nets :
        /\ NameFree(segs, n, NULL)
        /\ CidrFree(net, NULL)
        /\ Hold(w, [op |-> "segInsert", new |-> [name |-> n, net |-> net]])

\* Mutant: a field left out of the body is written as NULL.
UpdateSegmentWhole(w) ==
    \E s \in Live(segs), n \in Opt(Names), net \in Nets :
        /\ n \notin {NULL, segs[s].name} => NameFree(segs, n, NULL)
        /\ CidrFree(net, s) /\ ExceptionsFit(s, net)
        /\ Hold(w, [op |-> "segUpdate", id |-> s, old |-> segs[s],
                    new |-> [name |-> n, net |-> net]])

(* PUT leaves out what it does not change; both fields are optional.       *)
UpdateSegment(w) ==
    \E s \in Live(segs), n \in Opt(Names), net \in Opt(Nets) :
        /\ n \notin {NULL, segs[s].name} => NameFree(segs, n, NULL)
        /\ net # NULL => CidrFree(net, s) /\ ExceptionsFit(s, net)
        /\ Hold(w, [op |-> "segUpdate", id |-> s, old |-> segs[s],
                    new |-> [name |-> IF n = NULL THEN segs[s].name ELSE n,
                             net |-> IF net = NULL THEN segs[s].net ELSE net]])

DeleteSegment(w) ==
    \E s \in Live(segs) :
        /\ \A i \in Live(rows) : rows[i].seg # s
        /\ Hold(w, [op |-> "segDelete", id |-> s])

CommitSegmentInsert(w) ==
    LET plan == req[w] IN
    /\ plan.op = "segInsert"
    /\ next.seg <= MaxSeg
    /\ \/ /\ NameFree(segs, plan.new.name, NULL)
          /\ segs' = [segs EXCEPT ![next.seg] = plan.new]
          /\ next' = [next EXCEPT !.seg = @ + 1]
          /\ Committed(w, "segs", {next.seg})
       \/ /\ ~NameFree(segs, plan.new.name, NULL)
          /\ End(w)
          /\ UNCHANGED <<segs, next>>
    /\ UNCHANGED <<rows, cats, nas, observers>>

CommitSegmentUpdate(w) ==
    LET plan == req[w]
        merged == MergeSegment(segs[plan.id], plan.old, plan.new)
        accepted == segs[plan.id] # NULL /\ NameFree(segs, merged.name, plan.id)
    IN  /\ plan.op = "segUpdate"
        /\ \/ /\ accepted
              /\ segs' = [segs EXCEPT ![plan.id] = merged]
              /\ Committed(w, "segs", {plan.id})
           \/ /\ ~accepted
              /\ End(w)
              /\ UNCHANGED segs
        /\ UNCHANGED <<rows, cats, nas, next, observers>>

\* Mutant: no foreign key, the handler's own check is all there is.
CommitSegmentDeleteUnrestricted(w) ==
    /\ req[w].op = "segDelete"
    /\ segs' = [segs EXCEPT ![req[w].id] = NULL]
    /\ Committed(w, "segs", {})
    /\ UNCHANGED <<rows, cats, nas, next, observers>>

(* ON DELETE RESTRICT backs the handler's own check.                       *)
CommitSegmentDelete(w) ==
    LET s == req[w].id IN
    /\ req[w].op = "segDelete"
    /\ \/ /\ \A i \in Live(rows) : rows[i].seg # s
          /\ segs' = [segs EXCEPT ![s] = NULL]
          /\ Committed(w, "segs", {})
       \/ /\ \E i \in Live(rows) : rows[i].seg = s
          /\ End(w)
          /\ UNCHANGED segs
    /\ UNCHANGED <<rows, cats, nas, next, observers>>

-----------------------------------------------------------------------------
(* NAS categories.  Deleting one asks the nas table only; the database     *)
(* then sets the references of both tables to NULL, behind the listener    *)
(* that would have recomputed target_key.                                  *)
CatNameFree(n, ex) == \A c \in Live(cats) \ {ex} : cats[c] # n

CreateCategory(w) ==
    \E n \in CatNames : CatNameFree(n, NULL) /\ Hold(w, [op |-> "catInsert", new |-> n])

UpdateCategory(w) ==
    \E c \in Live(cats), n \in CatNames :
        /\ n # cats[c] => CatNameFree(n, NULL)
        /\ Hold(w, [op |-> "catUpdate", id |-> c, old |-> cats[c], new |-> n])

DeleteCategory(w) ==
    \E c \in Live(cats) :
        /\ \A n \in Live(nas) : nas[n].cat # c
        /\ Hold(w, [op |-> "catDelete", id |-> c])

CommitCategoryInsert(w) ==
    LET n == req[w].new IN
    /\ req[w].op = "catInsert"
    /\ next.cat <= MaxCat
    /\ \/ /\ CatNameFree(n, NULL)
          /\ cats' = [cats EXCEPT ![next.cat] = n]
          /\ next' = [next EXCEPT !.cat = @ + 1]
          /\ Committed(w, "cats", {next.cat})
       \/ /\ ~CatNameFree(n, NULL)
          /\ End(w)
          /\ UNCHANGED <<cats, next>>
    /\ UNCHANGED <<rows, segs, nas, observers>>

CommitCategoryUpdate(w) ==
    LET plan == req[w]
        merged == Changed(cats[plan.id], plan.old, plan.new)
        accepted == cats[plan.id] # NULL /\ CatNameFree(merged, plan.id)
    IN  /\ plan.op = "catUpdate"
        /\ \/ /\ accepted
              /\ cats' = [cats EXCEPT ![plan.id] = merged]
              /\ Committed(w, "cats", {plan.id})
           \/ /\ ~accepted
              /\ End(w)
              /\ UNCHANGED cats
        /\ UNCHANGED <<rows, segs, nas, next, observers>>

CommitCategoryDelete(w) ==
    LET c == req[w].id
        Forget(t) == [k \in DOMAIN t |->
            IF t[k] # NULL /\ t[k].cat = c THEN [t[k] EXCEPT !.cat = NULL] ELSE t[k]]
    IN  /\ req[w].op = "catDelete"
        /\ cats' = [cats EXCEPT ![c] = NULL]
        /\ rows' = IF cats[c] = NULL THEN rows ELSE Forget(rows)
        /\ nas' = IF cats[c] = NULL THEN nas ELSE Forget(nas)
        /\ Committed(w, "cats", {})
        /\ UNCHANGED <<segs, next, observers>>

-----------------------------------------------------------------------------
(* NAS clients.  A rename carries the assignments that name the old address*)
(* along, through the listeners; radius-server restarts after log_audit.   *)
CreateNas(w) ==
    \E b \in NasBodies : Hold(w, [op |-> "nasInsert", new |-> b])

UpdateNas(w) ==
    \E n \in Live(nas), b \in NasBodies :
        Hold(w, [op |-> "nasUpdate", id |-> n, old |-> nas[n], new |-> b,
                 touched |-> [i \in RowIds |->
                     IF b.ip # nas[n].ip /\ rows[i] # NULL /\ rows[i].ip = nas[n].ip
                     THEN rows[i] ELSE NULL]])

DeleteNas(w) ==
    \E n \in Live(nas) : Hold(w, [op |-> "nasDelete", id |-> n])

CommitNasInsert(w) ==
    LET b == req[w].new
        accepted == b.cat # NULL => cats[b.cat] # NULL
    IN  /\ req[w].op = "nasInsert"
        /\ next.nas <= MaxNas
        /\ \/ /\ accepted
              /\ nas' = [nas EXCEPT ![next.nas] = b]
              /\ next' = [next EXCEPT !.nas = @ + 1]
              /\ Committed(w, "nas", {next.nas})
           \/ /\ ~accepted
              /\ End(w)
              /\ UNCHANGED <<nas, next>>
        /\ UNCHANGED <<rows, segs, cats, observers>>

\* Mutant: the cascade leaves target_key as it was.
MovedUnderOldKey(r, a) == [r EXCEPT !.ip = a]

(* The cascaded row: nas_ip moves and the listener recomputes target_key   *)
(* from the row the session loaded.                                        *)
Moved(r, a) ==
    LET m == [r EXCEPT !.ip = a] IN [m EXCEPT !.key = TargetKey(m)]

CommitNasUpdate(w) ==
    LET plan == req[w]
        n == plan.id
        moving == Live(plan.touched)
        merged == MergeNas(nas[n], plan.old, plan.new)
        after == [i \in RowIds |->
            IF i \in moving
            THEN MergeRow(rows[i], plan.touched[i], Moved(plan.touched[i], plan.new.ip))
            ELSE rows[i]]
        accepted == /\ nas[n] # NULL
                    /\ moving \subseteq Live(rows)
                    /\ UniqueKeys(after)
                    /\ merged.cat # NULL => cats[merged.cat] # NULL
    IN  /\ plan.op = "nasUpdate"
        /\ \/ /\ accepted
              /\ nas' = [nas EXCEPT ![n] = merged]
              /\ rows' = after
              /\ Committed(w, "nas", {n})
           \/ /\ ~accepted
              /\ End(w)
              /\ UNCHANGED <<nas, rows>>
        /\ UNCHANGED <<segs, cats, next, observers>>

\* Mutant: the delete handler forgets the reload.
CommitNasDeleteQuietly(w) ==
    /\ req[w].op = "nasDelete"
    /\ nas' = [nas EXCEPT ![req[w].id] = NULL]
    /\ End(w)
    /\ UNCHANGED <<rows, segs, cats, next, observers>>

CommitNasDelete(w) ==
    /\ req[w].op = "nasDelete"
    /\ nas' = [nas EXCEPT ![req[w].id] = NULL]
    /\ Committed(w, "nas", {})
    /\ UNCHANGED <<rows, segs, cats, next, observers>>

-----------------------------------------------------------------------------
TableOf(t) ==
    CASE t = "rows" -> rows [] t = "segs" -> segs [] t = "cats" -> cats
      [] t = "nas" -> nas

NasNames == {nas[n].ip : n \in Live(nas)}

(* log_audit, and the container restart that follows it in nas.py.  The    *)
(* refresh of a row that someone deleted meanwhile raises, so neither      *)
(* happens; a restart that fails is swallowed.                             *)
LogAudit(w) ==
    LET plan == req[w]
        present == plan.ids \subseteq Live(TableOf(plan.table))
    IN  /\ plan.op = "audit"
        /\ End(w)
        /\ \/ plan.table = "nas" /\ present /\ clients' = NasNames /\ UNCHANGED reloadLost
           \/ plan.table = "nas" /\ present /\ reloadLost' = TRUE /\ UNCHANGED clients
           \/ ~(plan.table = "nas" /\ present) /\ UNCHANGED <<clients, reloadLost>>
        /\ UNCHANGED tables

(* radius-server restarts on its own account and reads the nas table.      *)
RadiusRestart ==
    /\ clients' = NasNames
    /\ UNCHANGED <<tables, req, reloadLost>>

(* A change of nas is committed and its reload still to come.              *)
NasPending(w) == req[w].op = "audit" /\ req[w].table = "nas"

(* The backend process dies: every open session rolls back.                *)
Crash ==
    /\ \E w \in Workers : req[w] # Idle
    /\ req' = [w \in Workers |-> Idle]
    /\ reloadLost' = (reloadLost \/ \E w \in Workers : NasPending(w))
    /\ UNCHANGED <<tables, clients>>

Next ==
    \/ \E w \in Workers :
        \/ CreateOrReplace(w) \/ CreateBulk(w) \/ UpdateAssignment(w)
        \/ DeleteAssignment(w)
        \/ CommitInsert(w) \/ CommitUpdate(w) \/ CommitDelete(w)
        \/ CreateSegment(w) \/ UpdateSegment(w) \/ DeleteSegment(w)
        \/ CommitSegmentInsert(w) \/ CommitSegmentUpdate(w) \/ CommitSegmentDelete(w)
        \/ CreateCategory(w) \/ UpdateCategory(w) \/ DeleteCategory(w)
        \/ CommitCategoryInsert(w) \/ CommitCategoryUpdate(w) \/ CommitCategoryDelete(w)
        \/ CreateNas(w) \/ UpdateNas(w) \/ DeleteNas(w)
        \/ CommitNasInsert(w) \/ CommitNasUpdate(w) \/ CommitNasDelete(w)
        \/ LogAudit(w)
    \/ RadiusRestart
    \/ Crash

Spec == Init /\ [][Next]_vars

-----------------------------------------------------------------------------
(* Properties.                                                             *)

(* Requests served one at a time: what the validators alone can promise.   *)
Serial == \A v, w \in Workers : v = w

(* The CIDRs of two network segments never overlap: _get_overlapping_segment
   refuses a create or an update that would make them (network_segments.py). *)
SegmentsDisjoint ==
    \A s, t \in Live(segs) : s # t => ~CidrsOverlap(segs[s].net, segs[t].net)

(* Every range exception lies inside the CIDR its segment has now, whatever
   came last: the POST or PUT of the exception or the PUT of the segment. *)
ExceptionsInSegment ==
    \A i \in Live(rows) : IsException(rows[i]) =>
        /\ segs[rows[i].seg] # NULL
        /\ Inside(rows[i].lo, segs[rows[i].seg].net)
        /\ Inside(rows[i].hi, segs[rows[i].seg].net)

(* Two exceptions of one user in one segment never claim the same address,
   so step 1 of the RADIUS policy never has to choose between them. *)
ExceptionsDisjoint ==
    \A i, j \in Live(rows) :
        /\ i # j /\ IsException(rows[i]) /\ IsException(rows[j])
        /\ rows[i].user = rows[j].user /\ rows[i].seg = rows[j].seg
        => ~RangesOverlap(rows[i], rows[j])

(* A user has at most one base policy in a segment, so step 2 of the RADIUS
   policy never has to choose by row id. *)
OneBasePerSegment ==
    \A i, j \in Live(rows) :
        /\ i # j /\ IsBase(rows[i]) /\ IsBase(rows[j])
        /\ rows[i].user = rows[j].user
        => rows[i].seg # rows[j].seg

(* target_key is the key of the row's current target, except that a row
   whose category was deleted keeps the key computed with it: ON DELETE SET
   NULL runs behind the listeners. *)
KeyTracksTarget ==
    \A i \in Live(rows) :
        /\ rows[i].segkey = SegmentTargetKey(rows[i])
        /\ \/ rows[i].key = TargetKey(rows[i])
           \/ \E c \in CatIds :
                /\ rows[i].cat = NULL /\ c < next.cat /\ cats[c] = NULL
                /\ rows[i].key = TargetKey([rows[i] EXCEPT !.cat = c])

RowsHaveParents == \A i \in Live(rows) : HasParents(rows[i])
NasHaveCategory == \A n \in Live(nas) : nas[n].cat # NULL => cats[nas[n].cat] # NULL

(* No assignment refers to a segment or a category that is gone, and no NAS
   to such a category, however the commit of one handler falls between the
   reads and the commit of another. *)
NoDanglingTarget == RowsHaveParents /\ NasHaveCategory

(* A handler that loaded a row never brings it back after another handler
   deleted it: the UPDATE finds no row and the whole unit of work fails. *)
StaysDeleted ==
    /\ \A i \in RowIds : i < next.row /\ rows[i] = NULL => rows'[i] = NULL
    /\ \A s \in SegIds : s < next.seg /\ segs[s] = NULL => segs'[s] = NULL
    /\ \A c \in CatIds : c < next.cat /\ cats[c] = NULL => cats'[c] = NULL
    /\ \A n \in NasIds : n < next.nas /\ nas[n] = NULL => nas'[n] = NULL

NoResurrection == [][StaysDeleted]_vars

(* Once no change of the nas table is still to be followed by its reload and
   none of those reloads failed, FreeRADIUS trusts exactly the addresses of
   the table: the last reload comes after the last commit. *)
ClientsFresh ==
    (~reloadLost /\ \A w \in Workers : ~NasPending(w)) => clients = NasNames
=============================================================================
