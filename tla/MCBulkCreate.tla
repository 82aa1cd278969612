---------------------------- MODULE MCBulkCreate ----------------------------
(* Bulk requests, seen from two sides; a behaviour is of one of the two.    *)
(*   pool      a request with a password and one without, next to two other *)
(*             requests, about an authentication, a secret of the tenant and *)
(*             the first credential of the bulk request                     *)
(*   assembly  what becomes of a body. The type own belongs to users, free  *)
(*             does not; free has no availability checks on amazon sources, and *)
(*             azure sources are not compatible with either.                *)
EXTENDS BulkCreate, BulkAssembly, TLC

CONSTANTS b1, c1, c2, p1, own, free, amazon, google, azure

VARIABLE side

poolVars == <<vars, bulkVars>>

MCAuthsOf == b1 :> {c1, c2}

MCGiven == [a \in Auths |-> IF a = c2 THEN Nil ELSE p1]

-----------------------------------------------------------------------------
Names == {"A", "B"}

Source(name, type, superkey) == [name |-> name, type |-> type, superkey |-> superkey]
App(source, name)  == [source |-> source, type |-> name[1], name |-> name]
ById(source, type) == [source |-> source, type |-> type, name |-> <<>>]
New(of, name)      == [of |-> of, id |-> 0, name |-> name]
Known(of, id)      == [of |-> of, id |-> id, name |-> <<>>]
Short(type) == <<type, "short">>
Full(type)  == <<type, "full">>

Body(sources, applications, endpoints, auths) ==
    [user : BOOLEAN, sources : sources, applications : applications,
     endpoints : endpoints, auths : auths]

\* One source of each kind, with every way to give a type.
Single1 ==
    Body({<<Source("A", amazon, x)>> : x \in BOOLEAN},
         {<<App("A", n)>> : n \in {Short(own), Full(own), Short(free)}} \cup
         {<<ById("A", own), ById("A", free)>>, <<App("A", Short(own)), App("A", Short(free))>>,
          <<App("B", Short(own))>>, <<>>},
         {<<>>},
         {<<>>, <<New("Source", <<>>), New("Application", Short(own)), New("Application", Full(free))>>})

\* Two sources, of two types or workflows, or of one name.
Sources2 ==
    Body({<<Source("A", amazon, x), Source(n, google, FALSE)>> : x \in BOOLEAN, n \in Names} \cup {<<>>},
         {<<App("A", Short(free)), App("B", Short(free))>>, <<App("B", Short(own))>>,
          <<App("A", Short(free)), App("C", Short(free))>>},
         {<<>>, <<[source |-> "B", host |-> "h1"]>>},
         {<<New("Application", Short(free))>>, <<New("Source", <<>>)>>,
          <<New("Application", Short(own))>>})

\* Authentications of what exists, and of endpoints.
Existing1 ==
    Body({<<Source("A", t, FALSE)>> : t \in {amazon, azure}} \cup {<<Source("N", amazon, FALSE)>>},
         {<<>>, <<App("A", Short(own))>>},
         {<<[source |-> "A", host |-> "h1"], [source |-> "A", host |-> "h2"]>>, <<[source |-> "C", host |-> "h1"]>>},
         {<<Known("Source", 101), Known("Application", 102)>>, <<Known("Source", 109), New("Endpoint", <<"2">>)>>,
          <<Known("Application", 109)>>, <<New("Endpoint", <<"h">>), Known("Endpoint", 103)>>})

MCBodies == Single1 \cup Sources2 \cup Existing1
MCExisting == {<<"Source", 101>>, <<"Application", 102>>, <<"Endpoint", 103>>}
MCCompatible == {own, free} \X {amazon, google}
MCOverride == {<<amazon, free>>}
MCWithin == {<<<<"h">>, "h1">>, <<<<"h">>, "h2">>, <<<<"2">>, "h2">>}

-----------------------------------------------------------------------------
MCInit ==
    /\ Init /\ InitAssembly /\ side \in {"pool", "assembly"}
    /\ side = "pool" => body = CHOOSE b \in Single1 : TRUE

MCNext ==
    /\ UNCHANGED side
    /\ \/ side = "pool" /\ Next /\ UNCHANGED assemblyVars
       \/ side = "assembly" /\ NextAssembly /\ UNCHANGED poolVars
       \/ side = "assembly" /\ Ended /\ UNCHANGED <<poolVars, assemblyVars>>

MCSpec == MCInit /\ [][MCNext]_<<poolVars, assemblyVars, side>> /\ Fairness
=============================================================================
