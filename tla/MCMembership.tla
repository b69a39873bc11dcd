---------------------------- MODULE MCMembership ----------------------------
(* Instances of Membership: nodes n1, n2, ... with server ids 1, 2, ...    *)
EXTENDS Membership

CONSTANTS n1, n2, n3

TwoNodes == {n1, n2}
ThreeNodes == {n1, n2, n3}
MCServerId == [n \in Nodes |-> CASE n = n1 -> 1 [] n = n2 -> 2 [] OTHER -> 3]
NoConfig == <<>>
TwoConfig == <<n1, n2>>
=============================================================================
