------------------------ MODULE MCRadiusAuthorization ------------------------
(***************************************************************************)
(* Instances of RadiusAuthorization for TLC: the bodies the handlers get   *)
(* and the Access-Requests that arrive meanwhile.                          *)
(***************************************************************************)
EXTENDS MCAccessPolicies, RadiusAuthorization

CONSTANT m2

FiledUnderOne == [m \in Macs |-> IF m = m1 THEN 1 ELSE NULL]

\* A row for every step of the chain; rows move to step 1 by PUT.
AskEverywhere == {Ask(0, m1), Ask(NULL, NULL)}
EveryPost == {Exception(1, 0, 1), Base(1), Body([cat |-> 1])}
EveryPut == {Body([ip |-> 0]), Body([mac |-> m1])}
\* What no guard and no property here reads, left out of the fingerprint.
WithoutObservers == <<tables, req, auth, stable>>

OneNas == {[ip |-> 0, cat |-> 1]}
=============================================================================
