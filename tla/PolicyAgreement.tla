---------------------------- MODULE PolicyAgreement ----------------------------
(***************************************************************************)
(* The policy and its preview on the tables the handlers leave behind.     *)
(***************************************************************************)
EXTENDS AccessPolicies, PolicyResolution

CONSTANTS
    Requests,       \* the Access-Requests that may arrive
    Registry        \* device_registry: the category of each active device

ASSUME RadiusAssumption ==
    /\ Requests \subseteq [user : Users, ip : Opt(Ips), mac : Opt(Macs)]
    /\ Registry \in [Macs -> Opt(CatIds)]

(* For a user whose rows all target segments, the preview names exactly the
   row FreeRADIUS will use.  FreeRADIUS asks that an exception still lie in
   its segment and breaks ties differently, so this rests on the validators
   of access_policies.py and network_segments.py. *)
SegmentsOnly(u) ==
    \A i \in Live(rows) : rows[i].user = u =>
        rows[i].seg # NULL /\ rows[i].ip = NULL /\ rows[i].mac = NULL

PreviewAgreesOnSegments ==
    \A q \in Requests :
        q.ip # NULL /\ SegmentsOnly(q.user)
        => Preview(rows, segs, nas, q) = Authorize(rows, segs, nas, Registry, q)
=============================================================================
