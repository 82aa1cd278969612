------------------------- MODULE MCSuperkeyDestroy -------------------------
(* One superkey source with two applications.                              *)
EXTENDS SuperkeyDestroy

CONSTANTS s1, a1, a2

MCSourceOf == [a \in Apps |-> s1]
=============================================================================
