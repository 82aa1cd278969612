-------------------------- MODULE MCStatusListener --------------------------
(* A source with an application, and a second source that belongs to a     *)
(* user, with an application everybody sees, and an authentication of the  *)
(* first.                                                                  *)
EXTENDS StatusListener

CONSTANTS s1, s2, a1, a2, t1

MCSourceOf == [x \in Resources \ Sources |-> IF x = a2 THEN s2 ELSE s1]

Report(x, v) == [id |-> x, status |-> v]

(* Reports that disagree, one with a status that does not exist, and one   *)
(* for each of the others.                                                 *)
MCReports ==
    {Report(a1, "available"), Report(a1, "unavailable"), Report(a1, "bogus"),
     Report(s1, "unavailable"), Report(a2, "available"), Report(t1, "available")}
=============================================================================
