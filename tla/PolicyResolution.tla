--------------------------- MODULE PolicyResolution ---------------------------
(***************************************************************************)
(* Which assignment decides an Access-Request: the SQL of FreeRADIUS's     *)
(* nas_based_authorization, one query per step, and the resolver behind    *)
(* POST /access-policies/preview that is meant to predict it.              *)
(*                                                                         *)
(* A request is a record [user, ip, mac]: User-Name, NAS-IP-Address (NULL  *)
(* when the packet has none) and the normalised Calling-Station-Id.  Every *)
(* query is an operator on the tables it reads that returns the set of     *)
(* rows LIMIT 1 may yield, {NULL} when it yields none: ORDER BY id leaves  *)
(* one, and a query without ORDER BY leaves every row that matches.        *)
(***************************************************************************)
EXTENDS PolicyTables

Yield(S) == IF S = {} THEN {NULL} ELSE S

(* ORDER BY: the keys are tuples of integers that end in the row id.       *)
LexBefore(a, b) ==
    \E k \in DOMAIN a : a[k] < b[k] /\ \A l \in 1 .. k - 1 : a[l] = b[l]

Top(S, Key(_)) ==
    Yield({i \in S : \A j \in S \ {i} : LexBefore(Key(i), Key(j))})

\* NULL sorts first; so does INET_ATON of an empty string, which is NULL.
SortKey(x) == IF Given(x) THEN x ELSE -1

(* username = %{User-Name} AND is_active = 1 *)
Active(rows, q) == {i \in Live(rows) : rows[i].user = q.user /\ rows[i].active}

-----------------------------------------------------------------------------
(* Step 1: MAC, exact NAS address or range exception.                      *)
MacHit(r, q) == r.mac # NULL /\ r.mac = q.mac

IpHit(r, q) == r.ip = q.ip /\ r.mac = NULL

RangeHit(r, segs, q) ==
    /\ IsException(r) /\ r.mac = NULL
    /\ segs[r.seg] # NULL
    /\ Inside(r.lo, segs[r.seg].net) /\ Inside(r.hi, segs[r.seg].net)
    /\ Inside(q.ip, r)

\* Mutant: a range exception is ranked before the exact NAS address.
ClassRangeFirst(r, q) ==
    IF MacHit(r, q) THEN IF r.ip = q.ip THEN 0 ELSE 1
    ELSE IF r.ip = q.ip THEN 3 ELSE 2

(* MAC+IP 0, MAC 1, IP 2, range 3. *)
Class(r, q) ==
    IF MacHit(r, q) THEN IF r.ip = q.ip THEN 0 ELSE 1
    ELSE IF r.ip = q.ip THEN 2 ELSE 3

\* 4294967295 in the query: wider than any range.
Width(r) ==
    IF r.lo = NULL \/ r.hi = NULL THEN MaxIp + 1
    ELSE IF Given(r.lo) /\ Given(r.hi) THEN r.hi - r.lo ELSE -1

Step1(rows, segs, q) ==
    LET Key(i) == <<Class(rows[i], q), Width(rows[i]),
                    SortKey(rows[i].lo), SortKey(rows[i].hi), i>>
    IN  Top({i \in Active(rows, q) : \/ MacHit(rows[i], q) \/ IpHit(rows[i], q)
                                     \/ RangeHit(rows[i], segs, q)}, Key)

(* Step 1.5: the category the registry files the device under.             *)
DeviceHit(r, registry, q) ==
    /\ r.ip = NULL /\ r.mac = NULL /\ r.seg = NULL
    /\ q.mac # NULL /\ r.cat # NULL /\ r.cat = registry[q.mac]

StepDevice(rows, registry, q) ==
    Yield({i \in Active(rows, q) : DeviceHit(rows[i], registry, q)})

(* Step 2: the base policy of the narrowest segment around the address.    *)
BaseHit(r, segs, q) ==
    IsBase(r) /\ r.mac = NULL /\ segs[r.seg] # NULL /\ Inside(q.ip, segs[r.seg].net)

Step2(rows, segs, q) ==
    LET Key(i) == <<segs[rows[i].seg].net.hi - segs[rows[i].seg].net.lo, rows[i].seg, i>>
    IN  Top({i \in Active(rows, q) : BaseHit(rows[i], segs, q)}, Key)

(* Step 3: the category of the NAS, by the nas_cidr_ranges view.  Entries  *)
(* of one prefix length tie, and nasname is not unique.                    *)
NasCategories(nas, q) ==
    {nas[n].cat : n \in {m \in Live(nas) : nas[m].ip = q.ip /\ nas[m].cat # NULL}}

CategoryHit(r, c) == r.ip = NULL /\ r.seg = NULL /\ r.cat = c

Step3(rows, nas, q) ==
    LET Of(c) == Yield({i \in Active(rows, q) : CategoryHit(rows[i], c)})
        C == NasCategories(nas, q)
    IN  IF C = {} THEN {NULL} ELSE UNION {Of(c) : c \in C}

(* The whole chain, every query reading the same tables.                   *)
OrElse(S, T) == IF NULL \in S THEN (S \ {NULL}) \cup T ELSE S

Authorize(rows, segs, nas, registry, q) ==
    OrElse(Step1(rows, segs, q),
    OrElse(StepDevice(rows, registry, q),
    OrElse(Step2(rows, segs, q), Step3(rows, nas, q))))

-----------------------------------------------------------------------------
(* resolve_preview.                                                        *)
Oldest(S) == LET Key(i) == <<i>> IN Top(S, Key)

PreviewRange(r, q) == IsException(r) /\ Inside(q.ip, r)

ResolveExactOrRange(rows, q) ==
    LET mine == Active(rows, q)
        ByMac(ip) == {i \in mine : q.mac # NULL /\ rows[i].mac = q.mac /\ rows[i].ip = ip}
        Key(i) == <<rows[i].hi - rows[i].lo, i>>
    IN  OrElse(Oldest(ByMac(q.ip)),
        OrElse(Oldest(ByMac(NULL)),
        OrElse(Oldest({i \in mine : rows[i].ip = q.ip}),
               Top({i \in mine : PreviewRange(rows[i], q)}, Key))))

ResolveSegment(rows, segs, q) ==
    LET Key(i) == <<segs[rows[i].seg].net.hi - segs[rows[i].seg].net.lo, i>>
    IN  Top({i \in Active(rows, q) : /\ IsBase(rows[i]) /\ segs[rows[i].seg] # NULL
                                     /\ Inside(q.ip, segs[rows[i].seg].net)}, Key)

ResolveCategory(rows, nas, q) == Step3(rows, nas, q)

Preview(rows, segs, nas, q) ==
    OrElse(ResolveExactOrRange(rows, q),
    OrElse(ResolveSegment(rows, segs, q), ResolveCategory(rows, nas, q)))
=============================================================================
