---------------------------- MODULE MCAdminAccounts ----------------------------
(***************************************************************************)
(* Instances of AdminAccounts for TLC: who logs in and what superadmins    *)
(* send.                                                                   *)
(***************************************************************************)
EXTENDS AdminAccounts

CONSTANTS admin, ann, p, q

None == {}

New(n, r) == [name |-> n, role |-> r, active |-> TRUE, password |-> p]
TwoRoles == {New(ann, "superadmin"), New(ann, "auditor")}

Put(r, a, s) == [role |-> r, active |-> a, password |-> s]
EachColumn ==
    {Put(NULL, NULL, p), Put("superadmin", FALSE, NULL), Put("auditor", TRUE, q)}
=============================================================================
