-------------------------- MODULE DeletionContract --------------------------
(***************************************************************************)
(* What the deletion of resources promises to clients and to the consumers *)
(* of the event stream, with no transactions, locks or goroutines:         *)
(*   - rows disappear in one step, and with them everything below them;    *)
(*   - a credential disappears only after its resource;                    *)
(*   - an event announces only what is already gone.                       *)
(***************************************************************************)
CONSTANTS
    Rows, Auths,
    Parents,  \* what a row refers to: rows, and a credential for some
    Owner     \* the resource of a credential

VARIABLES live, auths, born, announced

vars == <<live, auths, born, announced>>

Init ==
    /\ live \subseteq Rows
    /\ auths \subseteq Auths
    /\ born = live \cup auths
    /\ announced = {}

InsertRow(x) ==
    /\ x \in Rows \ born
    /\ Parents[x] \subseteq live \cup auths
    /\ live' = live \cup {x}
    /\ born' = born \cup {x}
    /\ UNCHANGED <<auths, announced>>

InsertAuth(a) ==
    /\ a \in Auths \ born
    /\ auths' = auths \cup {a}
    /\ born' = born \cup {a}
    /\ UNCHANGED <<live, announced>>

RemoveRows ==
    /\ live' \subseteq live
    /\ \A x \in live' : Parents[x] \subseteq live' \cup auths
    /\ UNCHANGED <<auths, born, announced>>

Purge ==
    /\ auths' \subseteq auths
    /\ \A a \in auths \ auths' : Owner[a] \notin live
    /\ live' = {x \in live : Parents[x] \cap (auths \ auths') = {}}
    /\ UNCHANGED <<born, announced>>

Announce(x) ==
    /\ x \in born \ (live \cup auths)
    /\ announced' = announced \cup {x}
    /\ UNCHANGED <<live, auths, born>>

Next ==
    \/ \E x \in Rows : InsertRow(x)
    \/ \E a \in Auths : InsertAuth(a)
    \/ RemoveRows
    \/ Purge
    \/ \E x \in Rows \cup Auths : Announce(x)

Spec == Init /\ [][Next]_vars
=============================================================================
