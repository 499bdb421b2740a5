------------------------- MODULE RadiusAuthorization -------------------------
(***************************************************************************)
(* FreeRADIUS deciding one Access-Request while the backend's handlers     *)
(* change the tables it reads.                                             *)
(*                                                                         *)
(* Each sql expansion of nas_based_authorization is a statement of its own *)
(* in autocommit, so between two steps of one request any handler may      *)
(* commit.  A restart of radius-server, which every change of the nas      *)
(* table asks for, loses the request in hand.  The device registry is a    *)
(* parameter here: its own handlers are outside this module.               *)
(***************************************************************************)
EXTENDS PolicyAgreement

VARIABLES
    auth,           \* the request in hand, and how far it has come
    stable          \* observer: what matched in every state since it arrived

radiusVars == <<vars, auth, stable>>

NoRequest == [step |-> "none"]

(* Where a match stands in the chain: "MAC+IP > MAC > IP > Range Exception"
   by the comment of step 1, then the device, the segment and the category. *)
Ranks == 1 .. 7
Rejected == 8

(* The ranks at which row r decides q if nothing comes before it.          *)
MatchRanks(r, q, s, n) ==
    {k \in Ranks :
        \/ k = 1 /\ MacHit(r, q) /\ r.ip = q.ip
        \/ k = 2 /\ MacHit(r, q) /\ r.ip # q.ip
        \/ k = 3 /\ IpHit(r, q)
        \/ k = 4 /\ RangeHit(r, s, q)
        \/ k = 5 /\ DeviceHit(r, Registry, q)
        \/ k = 6 /\ BaseHit(r, s, q)
        \/ k = 7 /\ r.cat # NULL /\ CategoryHit(r, r.cat) /\ NasCategories(n, q) = {r.cat}}

Matching(q) ==
    {m \in RowIds \X Ranks :
        m[1] \in Active(rows, q) /\ m[2] \in MatchRanks(rows[m[1]], q, segs, nas)}

RadiusInit == Init /\ auth = NoRequest /\ stable = {}

Receive ==
    \E q \in Requests :
        /\ auth.step \in {"none", "answered"}
        /\ auth' = IF q.ip = NULL THEN [step |-> "native", q |-> q]
                                  ELSE [step |-> "1", q |-> q]
        /\ stable' = IF q.ip = NULL THEN {} ELSE Matching(q)
        /\ UNCHANGED vars

(* One query found row i, which decides at the best rank it has; or found  *)
(* nothing, and the chain goes on.                                         *)
Answer(i, rank) ==
    auth' = [step |-> "answered", q |-> auth.q, row |-> i, rank |-> rank]

Continue(step) == auth' = [auth EXCEPT !.step = step]

Query1 ==
    /\ auth.step = "1"
    /\ \E i \in Step1(rows, segs, auth.q) :
        IF i = NULL THEN Continue("1.5")
        ELSE \E k \in MatchRanks(rows[i], auth.q, segs, nas) :
                /\ \A l \in MatchRanks(rows[i], auth.q, segs, nas) : k <= l
                /\ Answer(i, k)
    /\ UNCHANGED <<vars, stable>>

QueryDevice ==
    /\ auth.step = "1.5"
    /\ \E i \in StepDevice(rows, Registry, auth.q) :
        IF i = NULL THEN Continue("2") ELSE Answer(i, 5)
    /\ UNCHANGED <<vars, stable>>

Query2 ==
    /\ auth.step = "2"
    /\ \E i \in Step2(rows, segs, auth.q) :
        IF i = NULL THEN Continue("3") ELSE Answer(i, 6)
    /\ UNCHANGED <<vars, stable>>

\* A step with no row in it is the last word: reject.
Query3 ==
    /\ auth.step = "3"
    /\ \E i \in Step3(rows, nas, auth.q) :
        IF i = NULL THEN Answer(NULL, Rejected) ELSE Answer(i, 7)
    /\ UNCHANGED <<vars, stable>>

(* No NAS-IP-Address: the policy is skipped, the native groups decide.     *)
FallThrough ==
    /\ auth.step = "native"
    /\ auth' = NoRequest
    /\ UNCHANGED <<vars, stable>>

Deciding == auth.step \in {"1", "1.5", "2", "3"}

Restarting == RadiusRestart \/ \E w \in Workers : NasPending(w) /\ LogAudit(w)

(* A handler's step.  A restart loses the request unless it comes after the*)
(* answer, or fails.                                                       *)
AdminStep ==
    /\ Next
    /\ auth' = auth \/ (Restarting /\ Deciding /\ auth' = NoRequest)
    /\ stable' = IF Deciding' THEN stable \cap Matching(auth.q)'
                 ELSE IF auth.step = "answered" THEN stable ELSE {}

RadiusNext ==
    Receive \/ Query1 \/ QueryDevice \/ Query2 \/ Query3 \/ FallThrough \/ AdminStep

RadiusSpec == RadiusInit /\ [][RadiusNext]_radiusVars

-----------------------------------------------------------------------------
(* Properties.                                                             *)
(* Whatever handlers commit between the queries of one request, a row that
   matches it throughout is not passed over: the answer is that row or one
   that ranks no lower, and never a reject (nas_based_authorization). *)
StableMatchWins ==
    auth.step = "answered" => \A m \in stable : auth.rank <= m[2]
=============================================================================
