-------------------------- MODULE MCCascadeDelete --------------------------
(* A source s1 with two applications, an endpoint and a connection that it *)
(* shares with a second source s2. The application authentication of a1    *)
(* points to the credential of the endpoint where there is one. A run      *)
(* takes the part of this it needs.                                        *)
EXTENDS CascadeDelete

CONSTANTS s1, s2, a1, a2, aa1, e1, k1, ta, te, ts

MCSourceOf == [x \in Apps \cup Endpoints |-> s1]
MCAppOf    == [x \in AppAuths |-> a1]
MCAuthOf   == [x \in AppAuths |-> IF te \in Auths THEN te ELSE ta]
MCLinked   == [x \in Conns |-> Sources]
MCOwner    == [x \in Auths |-> CASE x = ta -> a1 [] x = te -> e1 [] x = ts -> s1]
=============================================================================
