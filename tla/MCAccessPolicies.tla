-------------------------- MODULE MCAccessPolicies --------------------------
(***************************************************************************)
(* Instances of AccessPolicies for TLC: the request bodies each run sends, *)
(* and the Access-Requests the policy and its preview are compared on.     *)
(***************************************************************************)
EXTENDS PolicyAgreement, TLC

CONSTANTS u1, k1, m1

Body(f) ==
    [x \in {"user", "ip", "mac", "cat", "seg", "cir", "lo", "hi", "active"} |->
        IF x \in DOMAIN f THEN f[x]
        ELSE IF x = "user" THEN u1 ELSE IF x = "active" THEN TRUE ELSE NULL]

Net(a, b) == [lo |-> a, hi |-> b]
Whole == Net(0, 3)
Lower == Net(0, 1)
Upper == Net(2, 3)

None == {}

WorkerSymmetry == Permutations(Workers)

\* Exceptions and base policies of one segment, and their odd shapes.
Base(s) == Body([seg |-> s])
Exception(s, a, b) == Body([seg |-> s, lo |-> a, hi |-> b])
SegmentBodies ==
    {Base(1), Exception(1, 0, 1), Exception(1, 1, 2), Exception(1, 3, 2),
     Body([seg |-> 1, lo |-> BLANK, hi |-> BLANK]),
     Body([seg |-> 1, active |-> FALSE])}
SegmentPuts == {Exception(1, 1, 1), Exception(1, 2, 3), Body([seg |-> 1, cir |-> k1])}
TwoNets == {Whole, Lower}
ThreeNets == {Whole, Lower, Upper}

\* Targets by address, device, category and circuit.
TargetBodies ==
    {Body([ip |-> 0]), Body([mac |-> m1]), Body([cat |-> 1]), Body([cat |-> 2])}
TargetPuts == {Body([ip |-> 1]), Body([cat |-> 1, active |-> FALSE])}
TwoAddresses == {<<0, 1>>, <<1, 1>>}
NasTwo == {[ip |-> 0, cat |-> NULL], [ip |-> 1, cat |-> 1]}
RaceBodies == {Body([cat |-> 1]), Body([ip |-> 0]), Base(1)}
RacePuts == {Body([ip |-> 0]), Body([cat |-> 1])}
OneNet == {Net(0, 1)}
NasFiled == {[ip |-> 0, cat |-> NULL], [ip |-> 1, cat |-> 1]}

\* Access-Requests of the one user, and a registry that files no device.
Ask(a, m) == [user |-> u1, ip |-> a, mac |-> m]
AskAnywhere == {Ask(0, NULL), Ask(1, NULL), Ask(2, m1), Ask(3, NULL)}
EmptyRegistry == [m \in Macs |-> NULL]
=============================================================================
