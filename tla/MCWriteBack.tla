----------------------------- MODULE MCWriteBack -----------------------------
(* Rows and secrets that are read, changed and written back. A behaviour is *)
(* of one of the two sides:                                                 *)
(*   rows     requests of ResourceEdit about a source and its application,  *)
(*            with one more source to create                                *)
(*   secrets  three workloads of VaultStore on a source with two            *)
(*            applications, the id of the second beginning with that of the *)
(*            first, and a credential of each                               *)
EXTENDS ResourceEdit, VaultStore, TLC

CONSTANTS s1, s2, a1, a11, n1, n2, t1, u1, u2, u3

VARIABLE side

MCSourceOf == [a \in Apps |-> s1]

-----------------------------------------------------------------------------
MCValues == {"available", "unavailable", "in_progress", "paused", n1, n2, t1}

Fresh == [Empty EXCEPT !["config"] = n1, !["status"] = "in_progress"]

MCRows == [x \in Resources |-> IF x \in Absent THEN Empty ELSE Fresh]

Plain(kind, x)    == [kind |-> kind, id |-> x, input |-> <<>>]
Edit(x, input)    == [kind |-> "edit", id |-> x, input |-> input]
Create(x, name)   == [kind |-> "create", id |-> x, input |-> "config" :> name]
Report(status, t) == ("status" :> status) @@ ("checked" :> t)

MCPings == {[status |-> "available", at |-> t1], [status |-> "unavailable", at |-> t1]}

PauseOps == {Plain("pause", s1), Plain("unpause", s1), Plain("pause", a1)}

\* Everything a client may ask for.
MCAllOps ==
    PauseOps \cup {Plain("unpause", a1), Plain("check", s1), Create(s2, n2),
                   Edit(s1, ("config" :> n2) @@ ("status" :> "available")),
                   Edit(a1, Report("available", t1))}

-----------------------------------------------------------------------------
MCLonger == {<<a11, a1>>}
Credential(r) == [of |-> r, source |-> s1, name |-> n1, status |-> Nil, error |-> Nil]
MCFirst == u1 :> Credential(a1) @@ u2 :> Credential(a11)

EditingWorkload ==
    [kind : {"edit"}, uid : {u1}, name : {n1, n2}]
    \cup [kind : {"report"}, uid : {u1}, status : Statuses, error : Errors]
    \cup [kind : {"delete"}, uid : {u1}]
    \cup [kind : {"cascade"}, of : {a1}]

CreatingWorkload ==
    [kind : {"create"}, of : {s1, a1}, name : {n1}]
    \cup [kind : {"edit"}, uid : {u3}, name : {n2}]
    \cup [kind : {"delete"}, uid : {u1}]
    \cup [kind : {"cascade"}, of : {s1, a1}]

ListingWorkload ==
    [kind : {"create"}, of : {a11}, name : {n1}]
    \cup [kind : {"list"}, of : {a1, s1, Nil}]
    \cup [kind : {"delete"}, uid : {u2}]
    \cup [kind : {"cascade"}, of : {a1}]

MCWorkloads == {EditingWorkload, CreatingWorkload, ListingWorkload}

-----------------------------------------------------------------------------
MCInit ==
    /\ InitEdit /\ Init /\ side \in {"rows", "secrets"}
    /\ side = "rows" => workload = ListingWorkload

MCNext ==
    /\ UNCHANGED side
    /\ \/ side = "rows" /\ NextEdit /\ UNCHANGED vars
       \/ side = "secrets" /\ Next /\ UNCHANGED editVars

MCSpec == MCInit /\ [][MCNext]_<<vars, editVars, side>>
=============================================================================
