----------------------------- MODULE MCTenants -----------------------------
(* Two customers: o1 has the account number a1, o2 has a2.                 *)
EXTENDS Tenants

CONSTANTS a1, a2, o1, o2, u1, u2, u3

MCOrgOf == a1 :> o1 @@ a2 :> o2

Row(account, org) == [account |-> account, org |-> org]

Identity(account, org, user) == [account |-> account, org |-> org, user |-> user]

MCIdentities ==
    {Identity(a1, Nil, u1), Identity(a1, o1, u1), Identity(Nil, o1, Nil),
     Identity(Nil, o2, u2), Identity(Nil, Nil, Nil)}

MCSenders == {Identity(a1, o1, Nil)}

(* No tenant yet; a tenant of each customer without an org id; duplicates  *)
(* by account number and by org id that overlap; and three times the same  *)
(* tenant next to one without identifiers.                                 *)
MCTables ==
    {[tenants |-> <<>>, users |-> <<>>],
     [tenants |-> <<Row(a1, Nil), Row(a2, Nil)>>, users |-> u1 :> 1]}
    \cup
    {[tenants |-> <<Row(a1, Empty), Row(a1, o1), Row(Empty, o1)>>,
      users |-> u1 :> 1 @@ u2 :> 2 @@ u3 :> 3]}
    \cup
    {[tenants |-> <<Row(a1, o1), Row(a1, o1), Row(a1, Empty), Row(Empty, Empty)>>,
      users |-> u1 :> 2 @@ u2 :> 3]}

ASSUME Coherent
=============================================================================
