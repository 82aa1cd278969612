------------------------------- MODULE MCLinks -------------------------------
(* Requests that look before they write, in three workloads: the names of  *)
(* the sources of two tenants, the endpoints of a source, and connections  *)
(* that two tenants share.                                                 *)
EXTENDS Links

CONSTANTS s1, s2, e1, e2, k1, k2, t1, t2, v1

Shared(tenants, names) ==
    [kind : {"createSource"}, tenant : tenants, user : {Nil}, owner : {Nil}, name : names]

NamesWorkload ==
    Shared(Tenants, Names)
    \cup {[kind |-> "createSource", tenant |-> t1, user |-> v1, owner |-> Nil, name |-> "n1"],
          [kind |-> "createSource", tenant |-> t1, user |-> Nil, owner |-> v1, name |-> "n1"]}
    \cup [kind : {"renameSource"}, tenant : {t1}, user : {v1}, id : SourceIds, name : Names]
    \cup [kind : {"deleteSource"}, tenant : {t1}, user : {Nil}, id : {s1}]

OneSource == Shared({t1}, {"n1"})

Creation(r, d) == [kind |-> "createEndpoint", tenant |-> t1, user |-> Nil, source |-> s1,
                   role |-> r, default |-> d]
Edition(r, d) == [kind |-> "editEndpoint", tenant |-> t1, id |-> e1, role |-> r, default |-> d]

EndpointWorkload ==
    OneSource
    \cup [kind : {"deleteSource"}, tenant : {t1}, user : {Nil}, id : {s1}]
    \cup {Creation("r1", FALSE), Creation("r1", TRUE), Creation("r2", TRUE)}
    \cup {Edition("r1", Nil), Edition(Nil, TRUE), Edition(Nil, FALSE)}
    \cup [kind : {"deleteEndpoint"}, tenant : {t1}, id : {e2}]

ConnectionWorkload ==
    Shared(Tenants, {"n1"})
    \cup [kind : {"deleteSource"}, tenant : {t1}, user : {Nil}, id : {s1}]
    \cup [kind : {"connect"}, tenant : Tenants, source : SourceIds, rhcId : RhcIds]
    \cup [kind : {"disconnect"}, tenant : Tenants, id : {k1}]

MCWorkloads == {NamesWorkload, EndpointWorkload, ConnectionWorkload}

\* Nothing tells one request from another.
Symmetry == Permutations(Requests)
=============================================================================
