---------------------------- MODULE PolicyTables ----------------------------
(***************************************************************************)
(* The rows of the policy tables and the pure functions the handlers apply *)
(* to them: the request schema, the two keys the ORM listeners maintain,   *)
(* the column-wise UPDATE the session emits, and CIDR arithmetic.          *)
(*                                                                         *)
(* An address is a natural number, a CIDR a record [lo, hi] of addresses,  *)
(* a missing value NULL.  BLANK is the empty string, which the schema lets *)
(* through for the two range columns and SQL tells apart from NULL.        *)
(***************************************************************************)
EXTENDS Integers, FiniteSets, Sequences

CONSTANTS
    NULL, BLANK,
    Users,          \* user names
    Macs,           \* normalised MAC addresses
    Cirs,           \* circuit ids (no foreign key guards them in init.sql)
    Names,          \* names of segments and categories
    MaxIp,          \* addresses are 0 .. MaxIp
    MaxRow,         \* bound: assignment ids ever handed out
    MaxSeg,         \* bound: segment ids ever handed out
    MaxCat,         \* bound: category ids ever handed out
    MaxNas          \* bound: NAS ids ever handed out

Ips == 0 .. MaxIp
RowIds == 1 .. MaxRow
SegIds == 1 .. MaxSeg
CatIds == 1 .. MaxCat
NasIds == 1 .. MaxNas

ASSUME TablesAssumption ==
    /\ {MaxIp, MaxRow, MaxSeg, MaxCat, MaxNas} \subseteq Nat
    /\ NULL \notin Int /\ BLANK \notin Int /\ NULL # BLANK
    /\ NULL \notin Users \cup Macs \cup Cirs \cup Names

Opt(S) == S \cup {NULL}
Live(t) == {i \in DOMAIN t : t[i] # NULL}
Bound == Ips \cup {NULL, BLANK}

(* AccessPolicyAssignmentCreate, reduced to the fields that target a row. *)
Payloads ==
    [user : Users, ip : Opt(Ips), mac : Opt(Macs), cat : Opt(CatIds),
     seg : Opt(SegIds), cir : Opt(Cirs), lo : Bound, hi : Bound,
     active : BOOLEAN]

(* bool(value and value.strip()) *)
Given(x) == x \notin {NULL, BLANK}

(* require_nas_target: which combinations of targets the schema accepts. *)
IsRange(p) == p.seg # NULL /\ (Given(p.lo) \/ Given(p.hi))

ValidPayload(p) ==
    LET pair == p.ip # NULL /\ p.mac # NULL IN
    \/ /\ pair
       /\ p.cir # NULL \/ (p.cat = NULL /\ p.seg = NULL)
    \/ /\ ~pair /\ IsRange(p)
       /\ p.cat = NULL /\ p.ip = NULL /\ p.mac = NULL
    \/ ~pair /\ ~IsRange(p) /\ p.cir # NULL
    \/ ~pair /\ ~IsRange(p) /\ p.cir = NULL /\ p.seg # NULL /\ p.mac = NULL
    \/ /\ ~pair /\ p.cir = NULL /\ p.seg = NULL
       /\ Cardinality({c \in {"ip", "mac", "cat"} : p[c] # NULL}) = 1

(* compute_target_key: a hash of the target columns, taken as injective. *)
TargetKey(t) ==
    [user |-> t.user, ip |-> t.ip, mac |-> t.mac, cat |-> t.cat,
     seg |-> t.seg, cir |-> t.cir, lo |-> t.lo, hi |-> t.hi]

(* _build_segment_target_key: "", "__base__" or the pair of bounds. *)
SegmentTargetKey(t) ==
    IF t.seg = NULL THEN <<"none">>
    ELSE IF ~Given(t.lo) /\ ~Given(t.hi) THEN <<"base">>
    ELSE <<"range", t.lo, t.hi>>

TargetKeys ==
    [user : Users, ip : Opt(Ips), mac : Opt(Macs), cat : Opt(CatIds),
     seg : Opt(SegIds), cir : Opt(Cirs), lo : Bound, hi : Bound]
SegmentTargetKeys ==
    {<<"none">>, <<"base">>} \cup ({"range"} \X Bound \X Bound)

Rows ==
    [user : Users, ip : Opt(Ips), mac : Opt(Macs), cat : Opt(CatIds),
     seg : Opt(SegIds), cir : Opt(Cirs), lo : Bound, hi : Bound,
     active : BOOLEAN, key : TargetKeys, segkey : SegmentTargetKeys]

(* A row as the before_insert / before_update listeners leave it. *)
AsRow(p) ==
    [user |-> p.user, ip |-> p.ip, mac |-> p.mac, cat |-> p.cat,
     seg |-> p.seg, cir |-> p.cir, lo |-> p.lo, hi |-> p.hi,
     active |-> p.active, key |-> TargetKey(p), segkey |-> SegmentTargetKey(p)]

(* AccessPolicyAssignmentBulkCreate: one plain NAS-IP row per address. *)
BulkRow(u, a) ==
    AsRow([user |-> u, ip |-> a, mac |-> NULL, cat |-> NULL, seg |-> NULL,
           cir |-> NULL, lo |-> NULL, hi |-> NULL, active |-> TRUE])

(* The unit of work writes only the columns that differ from what it loaded:*)
(* every other column keeps what the table holds when UPDATE runs.          *)
Changed(cur, old, new) == IF new # old THEN new ELSE cur

MergeRow(cur, old, new) ==
    [user   |-> Changed(cur.user, old.user, new.user),
     ip     |-> Changed(cur.ip, old.ip, new.ip),
     mac    |-> Changed(cur.mac, old.mac, new.mac),
     cat    |-> Changed(cur.cat, old.cat, new.cat),
     seg    |-> Changed(cur.seg, old.seg, new.seg),
     cir    |-> Changed(cur.cir, old.cir, new.cir),
     lo     |-> Changed(cur.lo, old.lo, new.lo),
     hi     |-> Changed(cur.hi, old.hi, new.hi),
     active |-> Changed(cur.active, old.active, new.active),
     key    |-> Changed(cur.key, old.key, new.key),
     segkey |-> Changed(cur.segkey, old.segkey, new.segkey)]

Cidrs == {c \in [lo : Ips, hi : Ips] : c.lo <= c.hi}
Segments == [name : Names, net : Cidrs]
NasRows == [ip : Ips, cat : Opt(CatIds)]

ASSUME NullAssumption == NULL \notin Rows /\ NULL \notin Segments /\ NULL \notin NasRows

(* The cidr column is one string: it is written whole or not at all. *)
MergeSegment(cur, old, new) ==
    [name |-> Changed(cur.name, old.name, new.name),
     net  |-> Changed(cur.net, old.net, new.net)]

MergeNas(cur, old, new) ==
    [ip  |-> Changed(cur.ip, old.ip, new.ip),
     cat |-> Changed(cur.cat, old.cat, new.cat)]

(* ipaddress: address in network, network.overlaps(network). *)
Inside(a, c) == c.lo <= a /\ a <= c.hi
CidrsOverlap(c, d) == c.lo <= d.hi /\ d.lo <= c.hi

(* A range exception as both the overlap check and FreeRADIUS see one. *)
IsException(r) == r.seg # NULL /\ Given(r.lo) /\ Given(r.hi)
RangesOverlap(p, r) == p.lo <= r.hi /\ r.lo <= p.hi

(* A base policy as the duplicate check and step 2 of the policy see one. *)
IsBase(r) == r.seg # NULL /\ r.lo = NULL /\ r.hi = NULL

(* find_existing_assignment: the row a POST replaces instead of inserting. *)
Replaces(p, r) ==
    /\ r.user = p.user
    /\ \/ p.mac # NULL /\ p.ip # NULL /\ r.mac = p.mac /\ r.ip = p.ip
       \/ p.mac # NULL /\ p.ip = NULL /\ r.mac = p.mac /\ r.ip = NULL
       \/ /\ p.mac = NULL /\ p.ip # NULL
          /\ r.ip = p.ip /\ r.mac = NULL /\ r.seg = NULL /\ r.cat = NULL
       \/ /\ p.mac = NULL /\ p.ip = NULL /\ p.cat # NULL
          /\ r.cat = p.cat /\ r.ip = NULL /\ r.seg = NULL
       \/ /\ p.mac = NULL /\ p.ip = NULL /\ p.cat = NULL
          /\ r.seg = p.seg /\ r.segkey = SegmentTargetKey(p)
=============================================================================
