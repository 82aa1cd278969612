---------------------------- MODULE LinksProofs ----------------------------
(***************************************************************************)
(* The properties of Links, for any number of requests, rows and tenants,  *)
(* and any orders. A request writes on the strength of what it looked up   *)
(* earlier (Ready); the argument is that what other requests do meanwhile  *)
(* leaves it alone (Undisturbed), either because a foreign key or a unique *)
(* index or an id that is not reused protects it, or because the overlap   *)
(* is in raced. What a lookup that failed has missed is in misled.         *)
(***************************************************************************)
EXTENDS Links, TLAPS

USE DEF Somebody

-----------------------------------------------------------------------------
(* The fields that an order of each kind has.                              *)
LEMMA OrderFields ==
    ASSUME NEW o \in Orders
    PROVE  /\ o.kind \in {"createSource", "renameSource", "deleteSource", "createEndpoint",
                          "editEndpoint", "deleteEndpoint", "connect", "disconnect"}
           /\ o.tenant \in Tenants
           /\ o.kind \in {"createSource", "renameSource"} => o.name \in Names
           /\ o.kind \in {"createSource", "renameSource", "deleteSource", "createEndpoint"} =>
                o.user \in Somebody
           /\ o.kind = "createSource" =>
                o.owner \in Somebody /\ (o.owner = Nil \/ o.user = Nil)
           /\ o.kind \in {"renameSource", "deleteSource"} => o.id \in SourceIds
           /\ o.kind \in {"editEndpoint", "deleteEndpoint"} => o.id \in EndpointIds
           /\ o.kind = "disconnect" => o.id \in ConnIds
           /\ o.kind \in {"createEndpoint", "connect"} =>
                o.source \in SourceIds /\ "source" \in DOMAIN o
           /\ o.kind = "createEndpoint" => o.role \in Roles /\ o.default \in BOOLEAN
           /\ o.kind = "editEndpoint" =>
                o.role \in Roles \cup {Nil} /\ o.default \in BOOLEAN \cup {Nil}
           /\ o.kind = "connect" => o.rhcId \in RhcIds
           /\ o.kind \in {"renameSource", "deleteSource", "editEndpoint",
                          "deleteEndpoint", "disconnect"} => "id" \in DOMAIN o
BY DEF Orders

(* What a request at work has the type of.                                 *)
LEMMA WorkingFields ==
    ASSUME TypeOK, NEW q \in Requests, Active(q)
    PROVE  /\ req[q] \in Working
           /\ req[q].pc \in Busy /\ req[q].order \in Orders
           /\ req[q].scope \subseteq Tenants \cup SourceIds
           /\ req[q].copy \in Endpoints \cup {Nil}
           /\ req[q].id \in ConnIds \cup {Nil} /\ req[q].seen \subseteq ConnIds
<1>1. req[q] \in Working \cup {Idle}  BY DEF TypeOK
<1>2. req[q] \in Working  BY <1>1 DEF Active, Idle
<1>. QED  BY <1>2 DEF Working

(* The ids that a request at work holds are not given to new rows.         *)
LEMMA HeldHas ==
    ASSUME TypeOK, NEW q \in Requests, Active(q)
    PROVE  /\ req[q].order.kind \in {"renameSource", "deleteSource", "editEndpoint",
                          "deleteEndpoint", "disconnect"} => req[q].order.id \in Held
           /\ req[q].order.kind \in {"createEndpoint", "connect"} =>
                req[q].order.source \in Held
           /\ req[q].id \in Held
           /\ req[q].seen \subseteq Held
<1>. DEFINE Of(p) == {req[p].order[f] : f \in DOMAIN req[p].order \cap {"id", "source"}}
                        \cup {req[p].id} \cup req[p].seen
<1>1. Held = UNION {Of(p) : p \in {p \in Requests : req[p].pc # "idle"}}  BY DEF Held
<1>2. q \in {p \in Requests : req[p].pc # "idle"}  BY DEF Active
<1>3. Of(q) \subseteq Held
  <2>. HIDE DEF Of
  <2>. QED  BY <1>1, <1>2
<1>4. req[q].order \in Orders  BY WorkingFields
<1>. QED  BY <1>3, <1>4, OrderFields

-----------------------------------------------------------------------------
(* A step leaves alone what request p has looked up.                       *)
Undisturbed(p) ==
    /\ raced \subseteq raced' /\ misled \subseteq misled'
    /\ \A s \in DOMAIN sources' \cap Held :
         s \in DOMAIN sources /\ sources'[s].tenant = sources[s].tenant
    /\ \A t \in req[p].scope \ raced' : \A u, n :
         NameExistsInCurrentTenant(t, u, n)' => NameExistsInCurrentTenant(t, u, n)
    /\ \A e \in DOMAIN endpoints' \cap Held :
         e \in DOMAIN endpoints /\ endpoints'[e].source = endpoints[e].source
    /\ \A s \in req[p].scope \ raced' :
         /\ EndpointsOf(s)' = EndpointsOf(s)
         /\ \A e \in EndpointsOf(s) : endpoints'[e] = endpoints[e]
    /\ \A l \in links' : l.source \in req[p].scope \ raced' => l \in links
    /\ fresh' \cap Held \subseteq fresh
    /\ \A k \in DOMAIN conns' \cap Held : k \in DOMAIN conns
    /\ \A r \in partners : r.conn \in DOMAIN conns' => r \in partners'

LEMMA SameNames ==
    ASSUME UNCHANGED sources
    PROVE  \A t, u, n :
             NameExistsInCurrentTenant(t, u, n)' <=> NameExistsInCurrentTenant(t, u, n)
BY DEF NameExistsInCurrentTenant, SourceVisible, SourceExists

(* Such a request is as ready as before.                                   *)
LEMMA StaysReady ==
    ASSUME LinksInv, NEW p \in Requests, Active(p), req'[p] = req[p], Undisturbed(p)
    PROVE  Ready(p)'
<1>. DEFINE o == req[p].order
            c == req[p].copy
<1>1. Ready(p)  BY DEF LinksInv, RequestsReady
<1>2. TypeOK  BY DEF LinksInv
<1>3. o \in Orders  BY <1>2, WorkingFields
<1>4. NameFree(p)'
  BY <1>1 DEF Ready, NameFree, Undisturbed, Unsure
<1>5. EndpointFits(p)'
  <2>. SUFFICES ASSUME o.kind = "createEndpoint"  PROVE EndpointFits(p)'
    BY DEF EndpointFits
  <2>1. EndpointFits(p)  BY <1>1 DEF Ready
  <2>2. ASSUME o.source \notin Unsure'
        PROVE  /\ o.source \notin Unsure
               /\ EndpointsOf(o.source)' = EndpointsOf(o.source)
               /\ \A e \in EndpointsOf(o.source) : endpoints'[e] = endpoints[e]
    BY <2>1, <2>2 DEF EndpointFits, Undisturbed, Unsure
  <2>. QED
    BY <2>1, <2>2 DEF EndpointFits, Loaded, CanEndpointBeSetAsDefaultForSource,
                      SourceHasEndpoints, IsRoleUniqueForSource
<1>6. EndpointKept(p)'
  <2>. SUFFICES ASSUME o.kind \in {"editEndpoint", "deleteEndpoint"}
                PROVE  EndpointKept(p)'
    BY DEF EndpointKept
  <2>1. EndpointKept(p)  BY <1>1 DEF Ready
  <2>2. o.id \in Held  BY <1>2, HeldHas
  <2>3. o.id \in DOMAIN endpoints' =>
          o.id \in DOMAIN endpoints /\ endpoints'[o.id].source = endpoints[o.id].source
    BY <2>2 DEF Undisturbed
  <2>4. ASSUME c.source \notin raced', c.source \in req[p].scope
        PROVE  /\ c.source \notin raced
               /\ EndpointsOf(c.source)' = EndpointsOf(c.source)
               /\ \A e \in EndpointsOf(c.source) : endpoints'[e] = endpoints[e]
    BY <2>4 DEF Undisturbed
  <2>5. ASSUME req[p].pc # "check"
        PROVE  /\ o.id \in DOMAIN endpoints' => endpoints'[o.id].source = c.source
               /\ o.id \in DOMAIN endpoints' /\ c.source \notin raced' =>
                    endpoints'[o.id] = c
    BY <2>1, <2>3, <2>4, <2>5 DEF EndpointKept, EndpointsOf
  <2>6. ASSUME req[p].pc # "check", o.kind = "editEndpoint", c.source \notin Unsure'
        PROVE  /\ req[p].pc \in {"role", "write"} /\ o.default = TRUE =>
                    CanEndpointBeSetAsDefaultForSource(c.source)'
               /\ req[p].pc = "write" /\ o.role # Nil =>
                    IsRoleUniqueForSource(o.role, c.source)'
    <3>1. c.source \notin raced' /\ c.source \notin Unsure
      BY <2>6 DEF Undisturbed, Unsure
    <3>. QED
      BY <2>1, <2>4, <2>6, <3>1 DEF EndpointKept, CanEndpointBeSetAsDefaultForSource,
                                    IsRoleUniqueForSource
  <2>. QED  BY <2>1, <2>3, <2>5, <2>6 DEF EndpointKept, Loaded
<1>7. ConnectionsSeen(p)'
  <2>1. ConnectionsSeen(p)  BY <1>1 DEF Ready
  <2>2. o.kind \in {"deleteSource", "disconnect"} => o.id \in Held  BY <1>2, HeldHas
  <2>3. req[p].seen \subseteq Held  BY <1>2, HeldHas
  <2>4. ASSUME NEW k \in DOMAIN conns' \cap Held, NEW t,
               k \in DOMAIN conns => [tenant |-> t, conn |-> k] \in partners
        PROVE  [tenant |-> t, conn |-> k] \in partners'
    BY <2>4 DEF Undisturbed
  <2>5. o.kind = "disconnect" /\ req[p].pc = "write" =>
          /\ o.id \notin fresh'
          /\ o.id \in DOMAIN conns' => [tenant |-> o.tenant, conn |-> o.id] \in partners'
    <3>1. SUFFICES ASSUME o.kind = "disconnect", req[p].pc = "write"
                   PROVE  /\ o.id \notin fresh'
                          /\ o.id \in DOMAIN conns' =>
                               [tenant |-> o.tenant, conn |-> o.id] \in partners'
      OBVIOUS
    <3>2. o.id \in Held  BY <2>2, <3>1
    <3>3. o.id \notin fresh'  BY <2>1, <3>1, <3>2 DEF ConnectionsSeen, Undisturbed
    <3>4. ASSUME o.id \in DOMAIN conns'
          PROVE  [tenant |-> o.tenant, conn |-> o.id] \in partners'
      BY <2>1, <2>4, <3>1, <3>2, <3>4 DEF ConnectionsSeen
    <3>. QED  BY <3>3, <3>4
  <2>6. o.kind = "deleteSource" /\ req[p].pc = "write" =>
          /\ req[p].seen \cap fresh' = {}
          /\ \A k \in req[p].seen \cap DOMAIN conns' :
               [tenant |-> o.tenant, conn |-> k] \in partners'
          /\ o.id \notin raced' => \A l \in links' : l.source = o.id => l.conn \in req[p].seen
    <3>1. SUFFICES ASSUME o.kind = "deleteSource", req[p].pc = "write"
                   PROVE  /\ req[p].seen \cap fresh' = {}
                          /\ \A k \in req[p].seen \cap DOMAIN conns' :
                               [tenant |-> o.tenant, conn |-> k] \in partners'
                          /\ o.id \notin raced' =>
                               \A l \in links' : l.source = o.id => l.conn \in req[p].seen
      OBVIOUS
    <3>2. req[p].seen \cap fresh' = {}
      BY <2>1, <2>3, <3>1 DEF ConnectionsSeen, Undisturbed
    <3>3. ASSUME NEW k \in req[p].seen \cap DOMAIN conns'
          PROVE  [tenant |-> o.tenant, conn |-> k] \in partners'
      <4>1. k \in DOMAIN conns' \cap Held  BY <2>3, <3>3
      <4>2. k \in DOMAIN conns => [tenant |-> o.tenant, conn |-> k] \in partners
        BY <2>1, <3>1, <3>3 DEF ConnectionsSeen
      <4>. QED  BY <2>4, <4>1, <4>2
    <3>4. ASSUME o.id \notin raced', NEW l \in links', l.source = o.id
          PROVE  l.conn \in req[p].seen
      BY <2>1, <3>1, <3>4 DEF ConnectionsSeen, Undisturbed
    <3>. QED  BY <3>2, <3>3, <3>4
  <2>. QED  BY <2>1, <2>5, <2>6 DEF ConnectionsSeen
<1>8. SourceChecked(p)'
  <2>1. o.kind = "connect" => o.source \in Held  BY <1>2, HeldHas
  <2>. QED  BY <1>1, <2>1 DEF Ready, SourceChecked, Undisturbed
<1>. QED  BY <1>1, <1>4, <1>5, <1>6, <1>7, <1>8 DEF Ready

(* A step of request q keeps every request ready if it keeps q so and       *)
(* leaves alone what the others have looked up.                            *)
LEMMA RequestsStayReady ==
    ASSUME LinksInv, NEW q \in Requests, raced \subseteq raced',
           \A p \in Requests \ {q} : req'[p] = req[p],
           \A p \in Requests \ {q} : Active(p) => Undisturbed(p),
           Active(q)' => Active(q) /\ req'[q].scope = req[q].scope /\ Ready(q)'
    PROVE  RequestsReady'
<1>1. ASSUME NEW p \in Requests, Active(p)'  PROVE Ready(p)'
  <2>1. CASE p = q  BY <1>1, <2>1
  <2>2. CASE p # q
    <3>1. req'[p] = req[p] /\ Active(p) /\ Undisturbed(p)  BY <1>1, <2>2 DEF Active
    <3>. QED  BY <3>1, StaysReady
  <2>. QED  BY <2>1, <2>2
<1>2. ASSUME NEW p \in Requests, NEW r \in Requests, Active(p)', Active(r)', p # r
      PROVE  req'[p].scope \cap req'[r].scope \subseteq raced'
  <2>1. /\ Active(p) /\ req'[p].scope = req[p].scope
        /\ Active(r) /\ req'[r].scope = req[r].scope
    BY <1>2 DEF Active
  <2>2. req[p].scope \cap req[r].scope \subseteq raced
    BY <1>2, <2>1 DEF LinksInv, RequestsReady
  <2>. QED  BY <2>1, <2>2
<1>. QED  BY <1>1, <1>2 DEF RequestsReady

(* A step that only looks up, and may miss a row, keeps the invariant if it *)
(* leaves q ready.                                                         *)
LEMMA MissingKeeps ==
    ASSUME LinksInv, NEW q \in Requests,
           UNCHANGED <<tables, raced, unset, partners, workload>>,
           misled \subseteq misled', misled' \subseteq Tenants \cup SourceIds,
           req' \in [Requests -> Working \cup {Idle}],
           \A p \in Requests \ {q} : req'[p] = req[p],
           Active(q)' => Active(q) /\ req'[q].scope = req[q].scope /\ Ready(q)'
    PROVE  LinksInv'
<1>. USE DEF tables
<1>1. TypeOK'  BY DEF LinksInv, TypeOK
<1>2. ASSUME NEW p \in Requests \ {q}, Active(p)  PROVE Undisturbed(p)
  BY SameNames DEF Undisturbed, EndpointsOf
<1>3. RequestsReady'  BY <1>2, RequestsStayReady
<1>4. \A t, s : SourceExists(t, s)' <=> SourceExists(t, s)  BY DEF SourceExists
<1>. QED  BY <1>1, <1>3, <1>4 DEF LinksInv

LEMMA LookingKeeps ==
    ASSUME LinksInv, NEW q \in Requests, UNCHANGED <<tables, history, workload>>,
           req' \in [Requests -> Working \cup {Idle}],
           \A p \in Requests \ {q} : req'[p] = req[p],
           Active(q)' => Active(q) /\ req'[q].scope = req[q].scope /\ Ready(q)'
    PROVE  LinksInv'
<1>1. misled \subseteq Tenants \cup SourceIds  BY DEF LinksInv, TypeOK
<1>2. UNCHANGED <<tables, raced, unset, partners, workload>> /\ misled' = misled
  BY DEF history
<1>. QED  BY <1>1, <1>2, MissingKeeps

-----------------------------------------------------------------------------
(* The steps that only look up.                                            *)

LEMMA EndFacts ==
    ASSUME TypeOK, NEW q \in Requests, End(q)
    PROVE  /\ req' \in [Requests -> Working \cup {Idle}]
           /\ \A p \in Requests \ {q} : req'[p] = req[p]
           /\ ~Active(q)'
BY DEF TypeOK, End, Active, Idle

LEMMA GotoFacts ==
    ASSUME TypeOK, NEW q \in Requests, Active(q), NEW pc \in Busy, Goto(q, pc)
    PROVE  /\ req' \in [Requests -> Working \cup {Idle}]
           /\ \A p \in Requests \ {q} : req'[p] = req[p]
           /\ req'[q].pc = pc /\ req'[q].order = req[q].order
           /\ req'[q].scope = req[q].scope /\ req'[q].copy = req[q].copy
           /\ req'[q].id = req[q].id /\ req'[q].seen = req[q].seen
<1>1. req[q] \in Working  BY WorkingFields
<1>2. req' = [req EXCEPT ![q] = [req[q] EXCEPT !.pc = pc]]  BY DEF Goto, TypeOK
<1>3. [req[q] EXCEPT !.pc = pc] \in Working  BY <1>1 DEF Working
<1>. QED  BY <1>1, <1>2, <1>3 DEF TypeOK, Working

LEMMA RefuseKeeps ==
    ASSUME LinksInv, NEW q \in Requests, Refuse(q), UNCHANGED workload
    PROVE  LinksInv'
BY EndFacts, LookingKeeps DEF LinksInv, Refuse

LEMMA CheckedKeeps ==
    ASSUME LinksInv, NEW q \in Requests, Active(q), NEW pc \in Busy, Checked(q, pc),
           UNCHANGED workload, Ready(q)'
    PROVE  LinksInv'
BY GotoFacts, LookingKeeps DEF LinksInv, Checked

LEMMA OverlookedKeeps ==
    ASSUME LinksInv, NEW q \in Requests, Active(q), NEW pc \in Busy,
           NEW x \in Tenants \cup SourceIds, Overlooked(q, pc, x),
           UNCHANGED workload, Ready(q)'
    PROVE  LinksInv'
<1>1. misled' = misled \cup {x} /\ Goto(q, pc)  BY DEF Overlooked
<1>2. misled' \subseteq Tenants \cup SourceIds  BY <1>1 DEF LinksInv, TypeOK
<1>3. UNCHANGED <<tables, raced, unset, partners, workload>>  BY DEF Overlooked
<1>4. TypeOK  BY DEF LinksInv
<1>5. /\ req' \in [Requests -> Working \cup {Idle}]
      /\ \A p \in Requests \ {q} : req'[p] = req[p]
      /\ req'[q].scope = req[q].scope
  BY <1>1, <1>4, GotoFacts
<1>. QED  BY <1>1, <1>2, <1>3, <1>5, MissingKeeps

LEMMA ValidateSourceStep ==
    ASSUME LinksInv, NEW q \in Requests, ValidateSource(q), UNCHANGED workload
    PROVE  LinksInv'
<1>1. Active(q) /\ TypeOK /\ Ready(q)
  BY DEF ValidateSource, Active, LinksInv, RequestsReady
<1>2. CASE Refuse(q)  BY <1>2, RefuseKeeps
<1>3. CASE /\ Checked(q, "write")
           /\ ~NameExistsInCurrentTenant(req[q].order.tenant, req[q].order.user,
                                         req[q].order.name)
  <2>1. "write" \in Busy /\ Goto(q, "write")  BY <1>3 DEF Busy, Checked
  <2>2. /\ req'[q].pc = "write" /\ req'[q].order = req[q].order
        /\ req'[q].scope = req[q].scope
    BY <1>1, <2>1, GotoFacts
  <2>3. /\ req[q].order.kind \in {"createSource", "renameSource"}
        /\ UNCHANGED sources
    BY <1>3 DEF ValidateSource, Checked, tables
  <2>4. ~NameExistsInCurrentTenant(req[q].order.tenant, req[q].order.user,
                                   req[q].order.name)'
    BY <1>3, <2>2, <2>3 DEF NameExistsInCurrentTenant, SourceVisible, SourceExists
  <2>5. req[q].order.tenant \in req[q].scope  BY <1>1, <2>3 DEF Ready, NameFree
  <2>6. NameFree(q)'  BY <2>2, <2>4, <2>5 DEF NameFree
  <2>7. Ready(q)'
    BY <2>2, <2>3, <2>6
    DEF Ready, EndpointFits, EndpointKept, ConnectionsSeen, SourceChecked
  <2>. QED  BY <1>1, <1>3, <2>1, <2>7, CheckedKeeps
<1>4. CASE Overlooked(q, "write", req[q].order.tenant)
  <2>1. "write" \in Busy /\ Goto(q, "write")  BY <1>4 DEF Busy, Overlooked
  <2>2. /\ req'[q].pc = "write" /\ req'[q].order = req[q].order
        /\ req'[q].scope = req[q].scope
    BY <1>1, <2>1, GotoFacts
  <2>3. req[q].order.kind \in {"createSource", "renameSource"}  BY DEF ValidateSource
  <2>4. req[q].order.tenant \in req[q].scope  BY <1>1, <2>3 DEF Ready, NameFree
  <2>5. req[q].order.tenant \in Unsure'  BY <1>4 DEF Overlooked, Unsure
  <2>6. NameFree(q)'  BY <2>2, <2>4, <2>5 DEF NameFree
  <2>7. Ready(q)'
    BY <2>2, <2>3, <2>6
    DEF Ready, EndpointFits, EndpointKept, ConnectionsSeen, SourceChecked
  <2>8. req[q].order.tenant \in Tenants  BY <1>1, WorkingFields, OrderFields
  <2>. QED  BY <1>1, <1>4, <2>1, <2>7, <2>8, OverlookedKeeps
<1>. QED  BY <1>2, <1>3, <1>4 DEF ValidateSource

LEMMA LoadConnectionsStep ==
    ASSUME LinksInv, NEW q \in Requests, LoadConnections(q), UNCHANGED workload
    PROVE  LinksInv'
<1>1. Active(q) /\ TypeOK /\ Ready(q)
  BY DEF LoadConnections, At, Active, LinksInv, RequestsReady
<1>2. CASE Refuse(q)  BY <1>2, RefuseKeeps
<1>3. CASE ~Refuse(q)
  <2>. DEFINE o == req[q].order
              seen == ConnectionsForSource(o.tenant, o.id)
  <2>1. /\ o.kind = "deleteSource" /\ SourceVisible(o.tenant, o.user, o.id)
        /\ req' = [req EXCEPT ![q].pc = "write", ![q].seen = seen]
        /\ UNCHANGED <<tables, history>>
    BY <1>3 DEF LoadConnections, At
  <2>2. /\ \A k \in seen : \E l \in links : l.conn = k /\ l.tenant = o.tenant
        /\ \A l \in links : l.source = o.id /\ l.tenant = o.tenant => l.conn \in seen
    BY DEF ConnectionsForSource
  <2>3. \A l \in links : l.source = o.id => l.tenant = o.tenant
    BY <2>1 DEF LinksInv, SourceVisible, SourceExists
  <2>4. seen \subseteq ConnIds  BY <2>2 DEF LinksInv, TypeOK, Links
  <2>. HIDE DEF seen
  <2>5. req[q] \in Working  BY <1>1, WorkingFields
  <2>6. [req[q] EXCEPT !.pc = "write", !.seen = seen] \in Working
    BY <2>4, <2>5 DEF Working, Busy
  <2>7. req' = [req EXCEPT ![q] = [req[q] EXCEPT !.pc = "write", !.seen = seen]]
    BY <2>1 DEF TypeOK, LinksInv
  <2>8. /\ req' \in [Requests -> Working \cup {Idle}]
        /\ \A p \in Requests \ {q} : req'[p] = req[p]
        /\ req'[q].pc = "write" /\ req'[q].order = o /\ req'[q].scope = req[q].scope
        /\ req'[q].seen = seen
    BY <1>1, <2>5, <2>6, <2>7 DEF TypeOK, Working
  <2>9. ConnectionsSeen(q)'
    <3>1. seen \cap fresh = {}
      <4>1. \A l \in links : l.conn \notin fresh  BY DEF LinksInv
      <4>. QED  BY <2>2, <4>1
    <3>2. \A k \in seen : [tenant |-> o.tenant, conn |-> k] \in partners
      BY <2>2 DEF LinksInv
    <3>. QED
      BY <1>1, <2>1, <2>2, <2>3, <2>8, <3>1, <3>2
      DEF ConnectionsSeen, tables, history, Ready
  <2>10. req'[q].order.kind = "deleteSource"  BY <2>1, <2>8
  <2>. HIDE DEF o
  <2>11. Ready(q)'
    BY <2>8, <2>9, <2>10 DEF Ready, NameFree, EndpointFits, EndpointKept, SourceChecked
  <2>. QED  BY <1>1, <2>1, <2>8, <2>11, LookingKeeps
<1>. QED  BY <1>2, <1>3

LEMMA LoadEndpointStep ==
    ASSUME LinksInv, NEW q \in Requests, LoadEndpoint(q), UNCHANGED workload
    PROVE  LinksInv'
<1>. DEFINE o == req[q].order
<1>1. Active(q) /\ TypeOK /\ Ready(q) /\ req[q].pc = "check"
  BY DEF LoadEndpoint, Active, LinksInv, RequestsReady
<1>2. req[q] \in Working /\ o \in Orders  BY <1>1, WorkingFields
<1>3. CASE Refuse(q)  BY <1>3, RefuseKeeps
<1>4. ASSUME NEW c \in Endpoints, NEW pc \in {"default", "write"},
             req' = [req EXCEPT ![q].pc = pc, ![q].copy = c]
      PROVE  /\ req' \in [Requests -> Working \cup {Idle}]
             /\ \A p \in Requests \ {q} : req'[p] = req[p]
             /\ req'[q].pc = pc /\ req'[q].order = o
             /\ req'[q].scope = req[q].scope /\ req'[q].copy = c
  <2>1. [req[q] EXCEPT !.pc = pc, !.copy = c] \in Working  BY <1>2 DEF Working, Busy
  <2>2. req' = [req EXCEPT ![q] = [req[q] EXCEPT !.pc = pc, !.copy = c]]
    BY <1>4 DEF TypeOK, LinksInv
  <2>. QED  BY <1>1, <1>2, <2>1, <2>2 DEF TypeOK, Working
<1>5. CASE o.kind = "createEndpoint" /\ ~Refuse(q)
  <2>. DEFINE c == [source |-> o.source, role |-> o.role, default |-> o.default]
  <2>1. /\ req' = [req EXCEPT ![q].pc = "default", ![q].copy = c]
        /\ UNCHANGED <<tables, history>>
    BY <1>5 DEF LoadEndpoint
  <2>2. c \in Endpoints  BY <1>2, <1>5, OrderFields DEF Endpoints
  <2>3. c.source = o.source /\ c.role = o.role /\ c.default = o.default
    OBVIOUS
  <2>. HIDE DEF c
  <2>4. /\ req' \in [Requests -> Working \cup {Idle}]
        /\ \A p \in Requests \ {q} : req'[p] = req[p]
        /\ req'[q].pc = "default" /\ req'[q].order = o
        /\ req'[q].scope = req[q].scope /\ req'[q].copy = c
    BY <1>4, <2>1, <2>2
  <2>5. EndpointFits(q)'
    BY <1>1, <1>5, <2>2, <2>3, <2>4 DEF Ready, EndpointFits, Loaded
  <2>6. Ready(q)'
    BY <1>5, <2>4, <2>5
    DEF Ready, NameFree, EndpointKept, ConnectionsSeen, SourceChecked
  <2>7. Active(q)'  BY <2>4 DEF Active
  <2>. QED  BY <1>1, <2>1, <2>4, <2>6, LookingKeeps
<1>6. CASE o.kind \in {"editEndpoint", "deleteEndpoint"} /\ ~Refuse(q)
  <2>. DEFINE c  == endpoints[o.id]
              pc == IF o.kind = "editEndpoint" THEN "default" ELSE "write"
  <2>1. /\ req' = [req EXCEPT ![q].copy = c, ![q].pc = pc]
        /\ UNCHANGED <<tables, history>>
        /\ EndpointExists(o.tenant, o.id)
    BY <1>6 DEF LoadEndpoint
  <2>2. c \in Endpoints  BY <2>1 DEF EndpointExists, LinksInv, TypeOK
  <2>3. pc \in {"default", "write"}  OBVIOUS
  <2>4. o.kind = "editEndpoint" => pc = "default"  OBVIOUS
  <2>5. o.kind = "deleteEndpoint" => pc = "write"  OBVIOUS
  <2>6. o.id \in DOMAIN endpoints' => endpoints'[o.id] = c  BY <2>1 DEF tables
  <2>7. c.source \in req[q].scope
    BY <1>1, <1>6, <2>1 DEF Ready, EndpointKept, EndpointExists
  <2>. HIDE DEF c, pc
  <2>8. req' = [req EXCEPT ![q].pc = pc, ![q].copy = c]
    <3>1. req' = [req EXCEPT ![q] = [req[q] EXCEPT !.copy = c, !.pc = pc]]
      BY <1>1, <2>1 DEF TypeOK
    <3>2. [req[q] EXCEPT !.copy = c, !.pc = pc] = [req[q] EXCEPT !.pc = pc, !.copy = c]
      BY <1>2 DEF Working
    <3>. QED  BY <1>1, <3>1, <3>2 DEF TypeOK
  <2>9. /\ req' \in [Requests -> Working \cup {Idle}]
        /\ \A p \in Requests \ {q} : req'[p] = req[p]
        /\ req'[q].pc = pc /\ req'[q].order = o
        /\ req'[q].scope = req[q].scope /\ req'[q].copy = c
    BY <1>4, <2>2, <2>3, <2>8
  <2>10. EndpointKept(q)'
    BY <1>6, <2>2, <2>3, <2>4, <2>5, <2>6, <2>7, <2>9 DEF EndpointKept, Loaded
  <2>11. Ready(q)'
    BY <1>6, <2>3, <2>5, <2>9, <2>10
    DEF Ready, NameFree, EndpointFits, ConnectionsSeen, SourceChecked
  <2>. QED  BY <1>1, <2>1, <2>9, <2>11, LookingKeeps
<1>. QED  BY <1>3, <1>5, <1>6 DEF LoadEndpoint

(* A request that works at an endpoint has it in its copy.                  *)
LEMMA CopyOf ==
    ASSUME NEW p \in Requests, Ready(p), req[p].pc \in {"default", "first", "role"},
           req[p].order.kind \in {"createEndpoint", "editEndpoint"}
    PROVE  /\ req[p].copy \in Endpoints /\ req[p].copy.source \in SourceIds
           /\ req[p].order.kind = "createEndpoint" => req[p].copy.source = req[p].order.source
<1>1. req[p].copy \in Endpoints
      /\ (req[p].order.kind = "createEndpoint" => req[p].copy.source = req[p].order.source)
  BY DEF Ready, EndpointFits, EndpointKept, Loaded
<1>. QED  BY <1>1 DEF Endpoints

(* Nothing is claimed of a source of which a lookup failed.                 *)
LEMMA OverlookedReady ==
    ASSUME TypeOK, NEW q \in Requests, Active(q), Ready(q), NEW pc \in Busy,
           Overlooked(q, pc, req[q].copy.source),
           req[q].order.kind \in {"createEndpoint", "editEndpoint"},
           \/ req[q].pc = "default" /\ pc \in {"first", "role"}
           \/ req[q].pc = "role" /\ pc = "write",
           pc = "first" <=> req[q].pc = "default" /\ req[q].order.kind = "createEndpoint"
    PROVE  Ready(q)'
<1>. DEFINE o == req[q].order
            c == req[q].copy
<1>1. /\ req'[q].pc = pc /\ req'[q].order = o /\ req'[q].scope = req[q].scope
      /\ req'[q].copy = c
  BY GotoFacts DEF Overlooked
<1>2. c \in Endpoints /\ (o.kind = "createEndpoint" => c.source = o.source)
  BY CopyOf
<1>3. UNCHANGED <<endpoints, raced>> /\ c.source \in Unsure'
  BY DEF Overlooked, tables, Unsure
<1>4. pc \in {"first", "role", "write"}  OBVIOUS
<1>5. EndpointFits(q)'
  <2>. SUFFICES ASSUME o.kind = "createEndpoint"  PROVE EndpointFits(q)'
    BY <1>1 DEF EndpointFits
  <2>1. c.role = o.role /\ o.source \in req[q].scope
    BY DEF Ready, EndpointFits, Loaded
  <2>. QED  BY <1>1, <1>2, <1>3, <1>4, <2>1 DEF EndpointFits, Loaded
<1>6. EndpointKept(q)'
  <2>. SUFFICES ASSUME o.kind = "editEndpoint"  PROVE EndpointKept(q)'
    BY <1>1 DEF EndpointKept
  <2>1. EndpointKept(q)  BY DEF Ready
  <2>. QED  BY <1>1, <1>2, <1>3, <1>4, <2>1 DEF EndpointKept, Loaded
<1>. QED
  BY <1>1, <1>4, <1>5, <1>6 DEF Ready, NameFree, ConnectionsSeen, SourceChecked

LEMMA ValidateDefaultStep ==
    ASSUME LinksInv, NEW q \in Requests, ValidateDefault(q), UNCHANGED workload
    PROVE  LinksInv'
<1>. DEFINE o == req[q].order
            s == req[q].copy.source
            next == IF o.kind = "createEndpoint" THEN "first" ELSE "role"
<1>1. Active(q) /\ TypeOK /\ Ready(q) /\ req[q].pc = "default"
  BY DEF ValidateDefault, Active, LinksInv, RequestsReady
<1>2. CASE Refuse(q)  BY <1>2, RefuseKeeps
<1>3. CASE /\ Checked(q, next)
           /\ o.default = TRUE => CanEndpointBeSetAsDefaultForSource(s)
  <2>1. o \in Orders /\ o.kind \in {"createEndpoint", "editEndpoint"}
    BY <1>1, WorkingFields DEF Ready
  <2>2. next \in Busy /\ next \in {"first", "role"} /\ Goto(q, next)
    BY <1>3 DEF Busy, Checked
  <2>3. (o.kind = "createEndpoint" => next = "first")
        /\ (o.kind = "editEndpoint" => next = "role")
    OBVIOUS
  <2>4. /\ req'[q].pc = next /\ req'[q].order = o
        /\ req'[q].scope = req[q].scope /\ req'[q].copy = req[q].copy
    BY <1>1, <2>2, GotoFacts
  <2>5. UNCHANGED <<tables, history>>  BY <1>3 DEF Checked
  <2>6. o.default = TRUE => CanEndpointBeSetAsDefaultForSource(s)'
    BY <1>3, <2>4, <2>5 DEF CanEndpointBeSetAsDefaultForSource, EndpointsOf, tables
  <2>. HIDE DEF next
  <2>7. EndpointFits(q)' /\ EndpointKept(q)'
    BY <1>1, <2>2, <2>3, <2>4, <2>5, <2>6
    DEF Ready, EndpointFits, EndpointKept, Loaded, tables, history, Unsure
  <2>8. Ready(q)'
    BY <2>1, <2>2, <2>3, <2>4, <2>7 DEF Ready, NameFree, ConnectionsSeen, SourceChecked
  <2>. QED  BY <1>1, <1>3, <2>2, <2>8, CheckedKeeps
<1>4. CASE Overlooked(q, next, s)
  <2>1. o.kind \in {"createEndpoint", "editEndpoint"}  BY <1>1 DEF Ready
  <2>2. next \in Busy /\ next \in {"first", "role"} /\ Goto(q, next)
    BY <1>4 DEF Busy, Overlooked
  <2>3. (o.kind = "createEndpoint" => next = "first")
        /\ (o.kind = "editEndpoint" => next = "role")
    OBVIOUS
  <2>. HIDE DEF next
  <2>4. Ready(q)'  BY <1>1, <1>4, <2>1, <2>2, <2>3, OverlookedReady
  <2>5. s \in SourceIds  BY <1>1, <2>1, CopyOf
  <2>. QED  BY <1>1, <1>4, <2>2, <2>4, <2>5, OverlookedKeeps
<1>. QED  BY <1>2, <1>3, <1>4 DEF ValidateDefault

LEMMA DefaultToFirstStep ==
    ASSUME LinksInv, NEW q \in Requests, DefaultToFirst(q), UNCHANGED workload
    PROVE  LinksInv'
<1>. DEFINE o == req[q].order
            s == req[q].copy.source
<1>1. Active(q) /\ TypeOK /\ Ready(q) /\ req[q].pc = "first"
  BY DEF DefaultToFirst, Active, LinksInv, RequestsReady
<1>2. req[q] \in Working /\ o \in Orders  BY <1>1, WorkingFields
<1>3. o.kind = "createEndpoint" /\ EndpointFits(q)  BY <1>1 DEF Ready
<1>4. req[q].copy \in Endpoints /\ s = o.source /\ s \in SourceIds  BY <1>1, <1>3, CopyOf
<1>5. PICK first \in {~SourceHasEndpoints(s), TRUE} :
        /\ req' = [req EXCEPT ![q].pc = "role", ![q].copy.default = @ \/ first]
        /\ misled' = IF first /\ SourceHasEndpoints(s) THEN misled \cup {s} ELSE misled
  BY DEF DefaultToFirst
<1>6. first \in BOOLEAN /\ (~SourceHasEndpoints(s) => first = TRUE)
  BY <1>5 DEF SourceHasEndpoints
<1>7. s \notin misled' /\ first => ~SourceHasEndpoints(s)  BY <1>5
<1>. DEFINE c == [req[q].copy EXCEPT !.default = @ \/ first]
<1>8. /\ c \in Endpoints /\ c.source = s /\ c.role = req[q].copy.role
      /\ c.default <=> req[q].copy.default \/ first
  BY <1>4, <1>6 DEF Endpoints
<1>9. req' = [req EXCEPT ![q] = [req[q] EXCEPT !.pc = "role", !.copy = c]]
  BY <1>1, <1>2, <1>5 DEF TypeOK, Working
<1>. HIDE DEF c
<1>10. [req[q] EXCEPT !.pc = "role", !.copy = c] \in Working
  BY <1>2, <1>8 DEF Working, Busy
<1>11. /\ req' \in [Requests -> Working \cup {Idle}]
       /\ \A p \in Requests \ {q} : req'[p] = req[p]
       /\ req'[q].pc = "role" /\ req'[q].order = o
       /\ req'[q].scope = req[q].scope /\ req'[q].copy = c
  BY <1>1, <1>2, <1>9, <1>10 DEF TypeOK, Working
<1>12. UNCHANGED <<tables, raced, unset, partners>>  BY DEF DefaultToFirst
<1>13. misled \subseteq misled' /\ misled' \subseteq Tenants \cup SourceIds
  BY <1>1, <1>4, <1>5 DEF TypeOK
<1>14. /\ CanEndpointBeSetAsDefaultForSource(s)' <=> CanEndpointBeSetAsDefaultForSource(s)
       /\ SourceHasEndpoints(s)' <=> SourceHasEndpoints(s)
  <2>1. UNCHANGED endpoints  BY <1>12 DEF tables
  <2>2. req'[q].copy.source = s  BY <1>8, <1>11
  <2>3. \A x : EndpointsOf(x)' = EndpointsOf(x)  BY <2>1 DEF EndpointsOf
  <2>. QED
    BY <2>1, <2>2, <2>3 DEF CanEndpointBeSetAsDefaultForSource, SourceHasEndpoints
<1>15. ~SourceHasEndpoints(s) => CanEndpointBeSetAsDefaultForSource(s)
  BY DEF SourceHasEndpoints, CanEndpointBeSetAsDefaultForSource
<1>16. EndpointFits(q)'
  <2>1. s \notin Unsure' => s \notin Unsure /\ s \notin misled'
    BY <1>12, <1>13 DEF Unsure
  <2>2. s \notin Unsure /\ req[q].copy.default => CanEndpointBeSetAsDefaultForSource(s)
    BY <1>1, <1>3, <1>4 DEF EndpointFits
  <2>3. s \in req[q].scope /\ req[q].copy.role = o.role
    BY <1>1, <1>3, <1>4 DEF EndpointFits, Loaded
  <2>4. s \notin Unsure' => /\ c.default => CanEndpointBeSetAsDefaultForSource(s)
                            /\ ~SourceHasEndpoints(s) => c.default
    BY <1>6, <1>7, <1>8, <1>15, <2>1, <2>2
  <2>. QED
    BY <1>3, <1>4, <1>8, <1>11, <1>14, <2>3, <2>4 DEF EndpointFits, Loaded
<1>17. Ready(q)'
  BY <1>3, <1>11, <1>16 DEF Ready, NameFree, EndpointKept, ConnectionsSeen, SourceChecked
<1>. QED  BY <1>1, <1>11, <1>12, <1>13, <1>17, MissingKeeps

LEMMA ValidateRoleStep ==
    ASSUME LinksInv, NEW q \in Requests, ValidateRole(q), UNCHANGED workload
    PROVE  LinksInv'
<1>. DEFINE o == req[q].order
            s == req[q].copy.source
<1>1. Active(q) /\ TypeOK /\ Ready(q) /\ req[q].pc = "role"
  BY DEF ValidateRole, Active, LinksInv, RequestsReady
<1>2. CASE Refuse(q)  BY <1>2, RefuseKeeps
<1>3. CASE Checked(q, "write") /\ (o.role # Nil => IsRoleUniqueForSource(o.role, s))
  <2>1. o \in Orders /\ o.kind \in {"createEndpoint", "editEndpoint"}
    BY <1>1, WorkingFields DEF Ready
  <2>2. "write" \in Busy /\ Goto(q, "write")  BY <1>3 DEF Busy, Checked
  <2>3. /\ req'[q].pc = "write" /\ req'[q].order = o
        /\ req'[q].scope = req[q].scope /\ req'[q].copy = req[q].copy
    BY <1>1, <2>2, GotoFacts
  <2>4. UNCHANGED <<endpoints, raced, misled>>  BY <1>3 DEF Checked, tables, history
  <2>5. \A x : EndpointsOf(x)' = EndpointsOf(x)  BY <2>4 DEF EndpointsOf
  <2>6. EndpointFits(q)'
    <3>1. ASSUME o.kind = "createEndpoint"
          PROVE  EndpointFits(q) /\ o.role # Nil /\ s = o.source /\ req[q].copy.role = o.role
      BY <1>1, <2>1, <3>1, OrderFields, LinksAssumption DEF Ready, EndpointFits, Loaded
    <3>. QED
      BY <1>1, <1>3, <2>3, <2>4, <2>5, <3>1
      DEF EndpointFits, Loaded, CanEndpointBeSetAsDefaultForSource, SourceHasEndpoints,
          IsRoleUniqueForSource, Unsure
  <2>7. EndpointKept(q)'
    BY <1>1, <1>3, <2>3, <2>4, <2>5
    DEF Ready, EndpointKept, Loaded, CanEndpointBeSetAsDefaultForSource,
        IsRoleUniqueForSource, Unsure
  <2>8. Ready(q)'
    BY <2>1, <2>3, <2>6, <2>7 DEF Ready, NameFree, ConnectionsSeen, SourceChecked
  <2>. QED  BY <1>1, <1>3, <2>2, <2>8, CheckedKeeps
<1>4. CASE Overlooked(q, "write", s)
  <2>1. o.kind \in {"createEndpoint", "editEndpoint"}  BY <1>1 DEF Ready
  <2>2. "write" \in Busy /\ Goto(q, "write")  BY <1>4 DEF Busy, Overlooked
  <2>3. Ready(q)'  BY <1>1, <1>4, <2>1, <2>2, OverlookedReady
  <2>4. s \in SourceIds  BY <1>1, <2>1, CopyOf
  <2>. QED  BY <1>1, <1>4, <2>2, <2>3, <2>4, OverlookedKeeps
<1>. QED  BY <1>2, <1>3, <1>4 DEF ValidateRole

LEMMA ConnectStep ==
    ASSUME LinksInv, NEW q \in Requests, Connect(q), UNCHANGED workload
    PROVE  LinksInv'
<1>. DEFINE o == req[q].order
<1>1. /\ Active(q) /\ TypeOK /\ Ready(q)
      /\ req[q].pc = "check" /\ o.kind = "connect"
  BY DEF Connect, At, Active, LinksInv, RequestsReady
<1>2. CASE Refuse(q)  BY <1>2, RefuseKeeps
<1>3. CASE Checked(q, "find") /\ SourceExists(o.tenant, o.source)
  <2>1. "find" \in Busy /\ Goto(q, "find")  BY <1>3 DEF Busy, Checked
  <2>2. /\ req'[q].pc = "find" /\ req'[q].order = o /\ req'[q].scope = req[q].scope
    BY <1>1, <2>1, GotoFacts
  <2>3. UNCHANGED sources  BY <1>3 DEF Checked, tables
  <2>4. SourceChecked(q)'
    BY <1>1, <1>3, <2>2, <2>3 DEF Ready, SourceChecked, SourceExists
  <2>5. Ready(q)'
    BY <1>1, <2>2, <2>4 DEF Ready, NameFree, EndpointFits, EndpointKept, ConnectionsSeen
  <2>. QED  BY <1>1, <1>3, <2>1, <2>5, CheckedKeeps
<1>. QED  BY <1>2, <1>3 DEF Connect

LEMMA FindConnectionStep ==
    ASSUME LinksInv, NEW q \in Requests, FindConnection(q), UNCHANGED workload
    PROVE  LinksInv'
<1>. DEFINE o == req[q].order
<1>1. /\ Active(q) /\ TypeOK /\ Ready(q)
      /\ req[q].pc = "find" /\ o.kind = "connect"
      /\ UNCHANGED <<tables, history>>
  BY DEF FindConnection, At, Active, LinksInv, RequestsReady, Checked
<1>2. PICK pc \in {"insert", "link"} :
        /\ req' \in [Requests -> Working \cup {Idle}]
        /\ \A p \in Requests \ {q} : req'[p] = req[p]
        /\ req'[q].pc = pc /\ req'[q].order = o /\ req'[q].scope = req[q].scope
  <2>1. CASE Checked(q, "insert")
    <3>1. "insert" \in Busy /\ Goto(q, "insert")  BY <2>1 DEF Busy, Checked
    <3>. QED  BY <1>1, <3>1, GotoFacts
  <2>2. ASSUME NEW k \in WithRhcId(o.rhcId) \ fresh,
               req' = [req EXCEPT ![q].pc = "link", ![q].id = k]
        PROVE  /\ req' \in [Requests -> Working \cup {Idle}]
               /\ \A p \in Requests \ {q} : req'[p] = req[p]
               /\ req'[q].pc = "link" /\ req'[q].order = o
               /\ req'[q].scope = req[q].scope
    <3>1. req[q] \in Working  BY <1>1, WorkingFields
    <3>2. k \in ConnIds  BY <1>1 DEF WithRhcId, TypeOK
    <3>3. [req[q] EXCEPT !.pc = "link", !.id = k] \in Working
      BY <3>1, <3>2 DEF Working, Busy
    <3>4. req' = [req EXCEPT ![q] = [req[q] EXCEPT !.pc = "link", !.id = k]]
      BY <1>1, <2>2 DEF TypeOK
    <3>. QED  BY <1>1, <3>1, <3>3, <3>4 DEF TypeOK, Working
  <2>. QED  BY <2>1, <2>2 DEF FindConnection
<1>3. SourceChecked(q)'
  BY <1>1, <1>2 DEF Ready, SourceChecked, tables
<1>4. Ready(q)'
  BY <1>1, <1>2, <1>3 DEF Ready, NameFree, EndpointFits, EndpointKept, ConnectionsSeen
<1>. QED  BY <1>1, <1>2, <1>4, LookingKeeps

LEMMA DisconnectStep ==
    ASSUME LinksInv, NEW q \in Requests, Disconnect(q), UNCHANGED workload
    PROVE  LinksInv'
<1>. DEFINE o == req[q].order
<1>1. /\ Active(q) /\ TypeOK /\ Ready(q)
      /\ req[q].pc = "check" /\ o.kind = "disconnect"
  BY DEF Disconnect, At, Active, LinksInv, RequestsReady
<1>2. CASE Refuse(q)  BY <1>2, RefuseKeeps
<1>3. CASE Checked(q, "write") /\ ConnectionExists(o.tenant, o.id)
  <2>1. "write" \in Busy /\ Goto(q, "write")  BY <1>3 DEF Busy, Checked
  <2>2. /\ req'[q].pc = "write" /\ req'[q].order = o /\ req'[q].scope = req[q].scope
    BY <1>1, <2>1, GotoFacts
  <2>3. UNCHANGED <<fresh, conns, partners>>  BY <1>3 DEF Checked, tables, history
  <2>4. o.id \notin fresh /\ [tenant |-> o.tenant, conn |-> o.id] \in partners
    BY <1>3 DEF ConnectionExists, LinksInv
  <2>5. ConnectionsSeen(q)'
    BY <1>1, <2>2, <2>3, <2>4 DEF ConnectionsSeen
  <2>6. Ready(q)'
    BY <1>1, <2>2, <2>5 DEF Ready, NameFree, EndpointFits, EndpointKept, SourceChecked
  <2>. QED  BY <1>1, <1>3, <2>1, <2>6, CheckedKeeps
<1>. QED  BY <1>2, <1>3 DEF Disconnect

-----------------------------------------------------------------------------
(* The steps that write. What is written is in the scope of the request,    *)
(* which no other shares unless the overlap is in raced.                   *)

LEMMA ScopesApart ==
    ASSUME LinksInv, NEW q \in Requests, Active(q), NEW p \in Requests \ {q}, Active(p)
    PROVE  \A x \in req[q].scope : x \notin raced => x \notin req[p].scope
BY DEF LinksInv, RequestsReady

LEMMA EndKeepsReady ==
    ASSUME LinksInv, NEW q \in Requests, End(q), raced' = raced,
           \A p \in Requests \ {q} : Active(p) => Undisturbed(p)
    PROVE  RequestsReady'
BY EndFacts, RequestsStayReady DEF LinksInv

LEMMA InsertSourceStep ==
    ASSUME LinksInv, NEW q \in Requests, InsertSource(q), UNCHANGED workload
    PROVE  LinksInv'
<1>. DEFINE o == req[q].order
            row == [tenant |-> o.tenant, user |-> o.owner, name |-> o.name]
<1>1. /\ Active(q) /\ TypeOK /\ Ready(q) /\ o.kind = "createSource"
  BY DEF InsertSource, At, Active, LinksInv, RequestsReady
<1>2. CASE Refuse(q)  BY <1>2, RefuseKeeps
<1>3. CASE ~Refuse(q)
  <2>1. PICK s \in SourceIds \ (DOMAIN sources \cup Held) : sources' = With(sources, s, row)
    BY <1>3 DEF InsertSource, Bounded
  <2>2. End(q) /\ UNCHANGED <<endpoints, conns, links, fresh, history, workload>>
    BY <1>3 DEF InsertSource, Bounded
  <2>3. row \in Sources /\ o \in Orders /\ row.tenant = o.tenant /\ row.name = o.name
    <3>1. o \in Orders  BY <1>1, WorkingFields
    <3>. QED  BY <1>1, <3>1, OrderFields DEF Sources
  <2>. HIDE DEF row
  <2>4. /\ DOMAIN sources' = DOMAIN sources \cup {s}
        /\ sources'[s] = row
        /\ \A x \in DOMAIN sources : sources'[x] = sources[x]
    BY <2>1 DEF With
  <2>5. TypeOK'
    <3>1. sources' \in [DOMAIN sources' -> Sources] /\ DOMAIN sources' \subseteq SourceIds
      BY <1>1, <2>1, <2>3 DEF TypeOK, With
    <3>2. req' \in [Requests -> Working \cup {Idle}]  BY <1>1, <2>2, EndFacts
    <3>. QED  BY <1>1, <2>2, <2>4, <3>1, <3>2 DEF TypeOK, history
  <2>6. ASSUME NEW p \in Requests \ {q}, Active(p)  PROVE Undisturbed(p)
    <3>1. ASSUME NEW t \in req[p].scope \ raced', NEW u, NEW n,
                 NameExistsInCurrentTenant(t, u, n)'
          PROVE  NameExistsInCurrentTenant(t, u, n)
      <4>1. PICK x \in DOMAIN sources' : sources'[x].tenant = t
                     /\ sources'[x].user \in {Nil, u} /\ sources'[x].name = n
        BY <3>1 DEF NameExistsInCurrentTenant, SourceVisible, SourceExists
      <4>2. CASE x = s
        <5>1. t = o.tenant  BY <2>3, <2>4, <4>1, <4>2
        <5>2. o.tenant \in req[q].scope  BY <1>1 DEF Ready, NameFree
        <5>. QED  BY <1>1, <2>2, <2>6, <5>1, <5>2, ScopesApart DEF history
      <4>3. CASE x # s
        BY <2>4, <4>1, <4>3 DEF NameExistsInCurrentTenant, SourceVisible, SourceExists
      <4>. QED  BY <4>2, <4>3
    <3>. QED  BY <2>1, <2>2, <2>4, <3>1 DEF Undisturbed, history, EndpointsOf
  <2>7. RequestsReady'  BY <2>2, <2>6, EndKeepsReady DEF history
  <2>8. \A l \in links' : SourceExists(l.tenant, l.source)'
    BY <2>2, <2>4 DEF LinksInv, SourceExists
  <2>. QED  BY <2>2, <2>4, <2>5, <2>7, <2>8 DEF LinksInv, history
<1>. QED  BY <1>2, <1>3

LEMMA UpdateSourceStep ==
    ASSUME LinksInv, NEW q \in Requests, UpdateSource(q), UNCHANGED workload
    PROVE  LinksInv'
<1>. DEFINE o == req[q].order
<1>1. /\ Active(q) /\ TypeOK /\ Ready(q) /\ o.kind = "renameSource"
  BY DEF UpdateSource, At, Active, LinksInv, RequestsReady
<1>2. End(q) /\ UNCHANGED <<endpoints, conns, links, fresh, history, workload>>
  BY DEF UpdateSource
<1>3. o \in Orders  BY <1>1, WorkingFields
<1>4. o.name \in Names /\ o.id \in SourceIds  BY <1>1, <1>3, OrderFields
<1>5. /\ DOMAIN sources' = DOMAIN sources
      /\ \A x \in DOMAIN sources : sources'[x].tenant = sources[x].tenant
      /\ \A x \in DOMAIN sources : sources'[x] # sources[x] => sources[x].tenant = o.tenant
      /\ \A x \in DOMAIN sources : sources'[x] \in Sources
  BY <1>1, <1>4 DEF UpdateSource, TypeOK, SourceVisible, SourceExists, Sources
<1>6. TypeOK'
  <2>1. sources' \in [DOMAIN sources' -> Sources] /\ DOMAIN sources' \subseteq SourceIds
    BY <1>1, <1>4 DEF TypeOK, UpdateSource, SourceVisible, SourceExists, Sources
  <2>2. req' \in [Requests -> Working \cup {Idle}]  BY <1>1, <1>2, EndFacts
  <2>. QED  BY <1>1, <1>2, <1>5, <2>1, <2>2 DEF TypeOK, history
<1>7. ASSUME NEW p \in Requests \ {q}, Active(p)  PROVE Undisturbed(p)
  <2>1. ASSUME NEW t \in req[p].scope \ raced', NEW u, NEW n,
               NameExistsInCurrentTenant(t, u, n)'
        PROVE  NameExistsInCurrentTenant(t, u, n)
    <3>1. PICK x \in DOMAIN sources' : sources'[x].tenant = t
                   /\ sources'[x].user \in {Nil, u} /\ sources'[x].name = n
      BY <2>1 DEF NameExistsInCurrentTenant, SourceVisible, SourceExists
    <3>2. CASE sources'[x] # sources[x]
      <4>1. t = o.tenant  BY <1>5, <3>1, <3>2
      <4>2. o.tenant \in req[q].scope  BY <1>1 DEF Ready, NameFree
      <4>. QED  BY <1>1, <1>2, <1>7, <2>1, <4>1, <4>2, ScopesApart DEF history
    <3>3. CASE sources'[x] = sources[x]
      BY <1>5, <3>1, <3>3 DEF NameExistsInCurrentTenant, SourceVisible, SourceExists
    <3>. QED  BY <3>2, <3>3
  <2>. QED  BY <1>2, <1>5, <2>1 DEF Undisturbed, history, EndpointsOf
<1>8. RequestsReady'  BY <1>2, <1>7, EndKeepsReady DEF history
<1>9. \A l \in links' : SourceExists(l.tenant, l.source)'
  BY <1>2, <1>5 DEF LinksInv, SourceExists
<1>. QED  BY <1>2, <1>5, <1>6, <1>8, <1>9 DEF LinksInv, history

LEMMA DeleteSourceStep ==
    ASSUME LinksInv, NEW q \in Requests, DeleteSource(q), UNCHANGED workload
    PROVE  LinksInv'
<1>. DEFINE s == req[q].order.id
            seen == req[q].seen
<1>1. /\ Active(q) /\ TypeOK /\ Ready(q)
      /\ req[q].order.kind = "deleteSource" /\ req[q].pc = "write"
  BY DEF DeleteSource, At, Active, LinksInv, RequestsReady
<1>2. /\ End(q) /\ UNCHANGED <<fresh, raced, misled, workload>>
      /\ links' = {l \in links : l.source # s /\ l.conn \notin seen}
      /\ unset' = unset \ {s}
      /\ partners' = {p \in partners : p.conn \notin seen}
  BY DEF DeleteSource
<1>3. /\ DOMAIN sources' = DOMAIN sources \ {s}
      /\ \A x \in DOMAIN sources' : sources'[x] = sources[x]
      /\ DOMAIN endpoints' = DOMAIN endpoints \ EndpointsOf(s)
      /\ \A x \in DOMAIN endpoints' : endpoints'[x] = endpoints[x]
      /\ DOMAIN conns' = DOMAIN conns \ seen
      /\ \A x \in DOMAIN conns' : conns'[x] = conns[x]
  BY DEF DeleteSource, Without
<1>4. seen \cap fresh = {} /\ s \in req[q].scope  BY <1>1 DEF Ready, ConnectionsSeen
<1>5. TypeOK'
  <2>1. /\ sources' \in [DOMAIN sources' -> Sources]
        /\ endpoints' \in [DOMAIN endpoints' -> Endpoints]
        /\ conns' \in [DOMAIN conns' -> RhcIds]
    BY <1>1 DEF DeleteSource, Without, TypeOK
  <2>2. req' \in [Requests -> Working \cup {Idle}]  BY <1>1, <1>2, EndFacts
  <2>3. /\ DOMAIN sources' \subseteq SourceIds /\ DOMAIN endpoints' \subseteq EndpointIds
        /\ DOMAIN conns' \subseteq ConnIds /\ fresh' \subseteq DOMAIN conns'
        /\ unset' \subseteq DOMAIN sources'
    BY <1>1, <1>2, <1>3, <1>4 DEF TypeOK
  <2>4. links' \subseteq links /\ partners' \subseteq partners  BY <1>2
  <2>. QED  BY <1>1, <1>2, <2>1, <2>2, <2>3, <2>4 DEF TypeOK
<1>6. ASSUME NEW p \in Requests \ {q}, Active(p)  PROVE Undisturbed(p)
  <2>1. \A x \in req[p].scope \ raced' : x # s  BY <1>1, <1>2, <1>4, <1>6, ScopesApart
  <2>2. ASSUME NEW x \in req[p].scope \ raced'
        PROVE  /\ EndpointsOf(x)' = EndpointsOf(x)
               /\ \A e \in EndpointsOf(x) : endpoints'[e] = endpoints[e]
    BY <1>3, <2>1 DEF EndpointsOf
  <2>3. \A t, u, n : NameExistsInCurrentTenant(t, u, n)' => NameExistsInCurrentTenant(t, u, n)
    BY <1>3 DEF NameExistsInCurrentTenant, SourceVisible, SourceExists
  <2>4. \A r \in partners : r.conn \in DOMAIN conns' => r \in partners'
    BY <1>2, <1>3
  <2>. QED  BY <1>2, <1>3, <2>2, <2>3, <2>4 DEF Undisturbed
<1>7. RequestsReady'  BY <1>2, <1>6, EndKeepsReady
<1>8. ASSUME NEW l \in links'
      PROVE  /\ SourceExists(l.tenant, l.source)' /\ l.conn \in DOMAIN conns' \ fresh'
             /\ [tenant |-> l.tenant, conn |-> l.conn] \in partners'
  BY <1>2, <1>3 DEF LinksInv, SourceExists
<1>9. \A e \in DOMAIN endpoints' : endpoints'[e].source \in DOMAIN sources'
  BY <1>3 DEF LinksInv, EndpointsOf
<1>. QED  BY <1>2, <1>3, <1>5, <1>7, <1>8, <1>9 DEF LinksInv

(* The source of an endpoint that was unset or deleted is still there.      *)
LEMMA UnsetKeeps ==
    ASSUME TypeOK, NEW s, Unset(s),
           \A e \in DOMAIN endpoints' : endpoints'[e].source = s => s \in DOMAIN sources
    PROVE  unset' \subseteq DOMAIN sources
<1>. DEFINE left     == {e \in DOMAIN endpoints' : endpoints'[e].source = s}
            defaults == {e \in EndpointsOf(s) : endpoints[e].default}
<1>1. unset' = IF left = {} THEN unset \ {s}
               ELSE IF \E e \in defaults : e \in left => ~endpoints'[e].default
               THEN unset \cup {s} ELSE unset
  BY DEF Unset
<1>2. unset \subseteq DOMAIN sources  BY DEF TypeOK
<1>3. left # {} => s \in DOMAIN sources  OBVIOUS
<1>. HIDE DEF left, defaults
<1>. QED  BY <1>1, <1>2, <1>3

LEMMA InsertEndpointStep ==
    ASSUME LinksInv, NEW q \in Requests, InsertEndpoint(q), UNCHANGED workload
    PROVE  LinksInv'
<1>. DEFINE c == req[q].copy
<1>1. /\ Active(q) /\ TypeOK /\ Ready(q) /\ req[q].order.kind = "createEndpoint"
      /\ req[q].pc = "write"
  BY DEF InsertEndpoint, At, Active, LinksInv, RequestsReady
<1>2. CASE Refuse(q)  BY <1>2, RefuseKeeps
<1>3. CASE ~Refuse(q)
  <2>1. PICK e \in EndpointIds \ (DOMAIN endpoints \cup Held) :
               endpoints' = With(endpoints, e, c)
    BY <1>3 DEF InsertEndpoint, Bounded
  <2>2. /\ End(q) /\ UNCHANGED <<sources, conns, links, fresh, history, workload>>
        /\ c.source \in DOMAIN sources
    BY <1>3 DEF InsertEndpoint, Bounded
  <2>3. c \in Endpoints /\ c.source \in req[q].scope
    BY <1>1 DEF Ready, EndpointFits, Loaded
  <2>4. /\ DOMAIN endpoints' = DOMAIN endpoints \cup {e}
        /\ endpoints'[e] = c
        /\ \A x \in DOMAIN endpoints : endpoints'[x] = endpoints[x]
    BY <2>1 DEF With
  <2>5. TypeOK'
    <3>1. /\ endpoints' \in [DOMAIN endpoints' -> Endpoints]
          /\ DOMAIN endpoints' \subseteq EndpointIds
      BY <1>1, <2>1, <2>3 DEF TypeOK, With
    <3>2. req' \in [Requests -> Working \cup {Idle}]  BY <1>1, <2>2, EndFacts
    <3>. QED  BY <1>1, <2>2, <3>1, <3>2 DEF TypeOK, history
  <2>6. ASSUME NEW p \in Requests \ {q}, Active(p)  PROVE Undisturbed(p)
    <3>1. ASSUME NEW x \in req[p].scope \ raced'
          PROVE  /\ EndpointsOf(x)' = EndpointsOf(x)
                 /\ \A f \in EndpointsOf(x) : endpoints'[f] = endpoints[f]
      <4>1. x # c.source
        BY <1>1, <2>2, <2>3, <2>6, <3>1, ScopesApart DEF history
      <4>. QED  BY <2>4, <4>1 DEF EndpointsOf
    <3>. QED
      BY <2>1, <2>2, <2>4, <3>1, SameNames DEF Undisturbed, history
  <2>7. RequestsReady'  BY <2>2, <2>6, EndKeepsReady DEF history
  <2>8. \A l \in links' : SourceExists(l.tenant, l.source)'
    BY <2>2 DEF LinksInv, SourceExists
  <2>9. \A f \in DOMAIN endpoints' : endpoints'[f].source \in DOMAIN sources'
    BY <2>2, <2>4 DEF LinksInv
  <2>. QED  BY <2>2, <2>5, <2>7, <2>8, <2>9 DEF LinksInv, history
<1>. QED  BY <1>2, <1>3

LEMMA UpdateEndpointStep ==
    ASSUME LinksInv, NEW q \in Requests, UpdateEndpoint(q), UNCHANGED workload
    PROVE  LinksInv'
<1>. DEFINE o == req[q].order
            c == req[q].copy
            set(f) == IF o[f] = Nil THEN c[f] ELSE o[f]
            row == [source |-> c.source, role |-> set("role"), default |-> set("default")]
<1>1. /\ Active(q) /\ TypeOK /\ Ready(q) /\ o.kind = "editEndpoint" /\ req[q].pc = "write"
  BY DEF UpdateEndpoint, At, Active, LinksInv, RequestsReady
<1>2. /\ End(q) /\ Unset(c.source)
      /\ UNCHANGED <<sources, conns, links, fresh, raced, misled, partners, workload>>
  BY DEF UpdateEndpoint
<1>3. o \in Orders  BY <1>1, WorkingFields
<1>4. /\ c \in Endpoints /\ c.source \in req[q].scope
      /\ o.id \in DOMAIN endpoints => endpoints[o.id].source = c.source
  BY <1>1 DEF Ready, EndpointKept
<1>5. row \in Endpoints /\ row.source = c.source
  <2>1. o.role \in Roles \cup {Nil} /\ o.default \in BOOLEAN \cup {Nil}
    BY <1>1, <1>3, OrderFields
  <2>2. c.source \in SourceIds /\ c.role \in Roles /\ c.default \in BOOLEAN
    BY <1>4 DEF Endpoints
  <2>3. set("role") \in Roles /\ set("default") \in BOOLEAN  BY <2>1, <2>2
  <2>. QED  BY <2>2, <2>3 DEF Endpoints
<1>6. endpoints' = IF o.id \in DOMAIN endpoints THEN [endpoints EXCEPT ![o.id] = row]
                                                ELSE endpoints
  BY DEF UpdateEndpoint
<1>. HIDE DEF row
<1>7. /\ DOMAIN endpoints' = DOMAIN endpoints
      /\ \A e \in DOMAIN endpoints : endpoints'[e].source = endpoints[e].source
      /\ \A e \in DOMAIN endpoints :
           endpoints'[e] # endpoints[e] => endpoints[e].source = c.source
  BY <1>4, <1>5, <1>6
<1>8. TypeOK'
  <2>1. endpoints' \in [DOMAIN endpoints' -> Endpoints]
    BY <1>1, <1>5, <1>6 DEF TypeOK
  <2>2. req' \in [Requests -> Working \cup {Idle}]  BY <1>1, <1>2, EndFacts
  <2>3. unset' \subseteq DOMAIN sources
    BY <1>1, <1>2, <1>7, UnsetKeeps DEF LinksInv
  <2>. QED  BY <1>1, <1>2, <1>7, <2>1, <2>2, <2>3 DEF TypeOK
<1>9. ASSUME NEW p \in Requests \ {q}, Active(p)  PROVE Undisturbed(p)
  <2>1. ASSUME NEW x \in req[p].scope \ raced'
        PROVE  /\ EndpointsOf(x)' = EndpointsOf(x)
               /\ \A f \in EndpointsOf(x) : endpoints'[f] = endpoints[f]
    <3>1. x # c.source  BY <1>1, <1>2, <1>4, <1>9, <2>1, ScopesApart
    <3>. QED  BY <1>7, <3>1 DEF EndpointsOf
  <2>. QED  BY <1>2, <1>7, <2>1, SameNames DEF Undisturbed
<1>10. RequestsReady'  BY <1>2, <1>9, EndKeepsReady
<1>11. \A l \in links' : SourceExists(l.tenant, l.source)'
  BY <1>2 DEF LinksInv, SourceExists
<1>12. \A f \in DOMAIN endpoints' : endpoints'[f].source \in DOMAIN sources'
  BY <1>2, <1>7 DEF LinksInv
<1>. QED  BY <1>2, <1>8, <1>10, <1>11, <1>12 DEF LinksInv

LEMMA DeleteEndpointStep ==
    ASSUME LinksInv, NEW q \in Requests, DeleteEndpoint(q), UNCHANGED workload
    PROVE  LinksInv'
<1>. DEFINE o == req[q].order
            c == req[q].copy
<1>1. /\ Active(q) /\ TypeOK /\ Ready(q) /\ o.kind = "deleteEndpoint"
      /\ req[q].pc = "write"
  BY DEF DeleteEndpoint, At, Active, LinksInv, RequestsReady
<1>2. /\ End(q) /\ Unset(c.source)
      /\ UNCHANGED <<sources, conns, links, fresh, raced, misled, partners, workload>>
  BY DEF DeleteEndpoint
<1>3. /\ c.source \in req[q].scope
      /\ o.id \in DOMAIN endpoints => endpoints[o.id].source = c.source
  BY <1>1 DEF Ready, EndpointKept
<1>4. /\ DOMAIN endpoints' = DOMAIN endpoints \ {o.id}
      /\ \A e \in DOMAIN endpoints' : endpoints'[e] = endpoints[e]
  BY DEF DeleteEndpoint, Without
<1>5. TypeOK'
  <2>1. endpoints' \in [DOMAIN endpoints' -> Endpoints]
    BY <1>1 DEF TypeOK, DeleteEndpoint, Without
  <2>2. req' \in [Requests -> Working \cup {Idle}]  BY <1>1, <1>2, EndFacts
  <2>3. unset' \subseteq DOMAIN sources
    BY <1>1, <1>2, <1>4, UnsetKeeps DEF LinksInv
  <2>. QED  BY <1>1, <1>2, <1>4, <2>1, <2>2, <2>3 DEF TypeOK
<1>6. ASSUME NEW p \in Requests \ {q}, Active(p)  PROVE Undisturbed(p)
  <2>1. ASSUME NEW x \in req[p].scope \ raced'
        PROVE  /\ EndpointsOf(x)' = EndpointsOf(x)
               /\ \A f \in EndpointsOf(x) : endpoints'[f] = endpoints[f]
    <3>1. x # c.source  BY <1>1, <1>2, <1>3, <1>6, <2>1, ScopesApart
    <3>. QED  BY <1>3, <1>4, <3>1 DEF EndpointsOf
  <2>. QED  BY <1>2, <1>4, <2>1, SameNames DEF Undisturbed
<1>7. RequestsReady'  BY <1>2, <1>6, EndKeepsReady
<1>8. \A l \in links' : SourceExists(l.tenant, l.source)'
  BY <1>2 DEF LinksInv, SourceExists
<1>9. \A f \in DOMAIN endpoints' : endpoints'[f].source \in DOMAIN sources'
  BY <1>2, <1>4 DEF LinksInv
<1>. QED  BY <1>2, <1>5, <1>7, <1>8, <1>9 DEF LinksInv

LEMMA InsertConnectionStep ==
    ASSUME LinksInv, NEW q \in Requests, InsertConnection(q), UNCHANGED workload
    PROVE  LinksInv'
<1>. DEFINE o == req[q].order
            x == o.rhcId
<1>1. /\ Active(q) /\ TypeOK /\ Ready(q) /\ o.kind = "connect" /\ req[q].pc = "insert"
  BY DEF InsertConnection, At, Active, LinksInv, RequestsReady
<1>2. CASE Refuse(q)  BY <1>2, RefuseKeeps
<1>3. CASE ~Refuse(q)
  <2>1. PICK k \in ConnIds \ (DOMAIN conns \cup Held) :
          /\ conns' = With(conns, k, x)
          /\ fresh' = fresh \cup {k}
          /\ req' = [req EXCEPT ![q].pc = "link", ![q].id = k]
    BY <1>3 DEF InsertConnection, Bounded
  <2>2. UNCHANGED <<sources, endpoints, links, history, workload>> /\ WithRhcId(x) = {}
    BY <1>3 DEF InsertConnection, Bounded
  <2>3. x \in RhcIds
    <3>1. o \in Orders  BY <1>1, WorkingFields
    <3>. QED  BY <1>1, <3>1, OrderFields
  <2>4. /\ DOMAIN conns' = DOMAIN conns \cup {k} /\ conns'[k] = x
        /\ \A m \in DOMAIN conns : conns'[m] = conns[m] /\ conns[m] # x
    BY <2>1, <2>2 DEF With, WithRhcId
  <2>5. /\ req' \in [Requests -> Working \cup {Idle}]
        /\ \A p \in Requests \ {q} : req'[p] = req[p]
        /\ req'[q].pc = "link" /\ req'[q].order = o /\ req'[q].scope = req[q].scope
    <3>1. req[q] \in Working  BY <1>1, WorkingFields
    <3>2. [req[q] EXCEPT !.pc = "link", !.id = k] \in Working
      BY <3>1 DEF Working, Busy
    <3>3. req' = [req EXCEPT ![q] = [req[q] EXCEPT !.pc = "link", !.id = k]]
      BY <1>1, <2>1 DEF TypeOK
    <3>. QED  BY <1>1, <3>1, <3>2, <3>3 DEF TypeOK, Working
  <2>6. TypeOK'
    <3>1. conns' \in [DOMAIN conns' -> RhcIds]  BY <1>1, <2>1, <2>3 DEF TypeOK, With
    <3>. QED  BY <1>1, <2>1, <2>2, <2>4, <2>5, <3>1 DEF TypeOK, history
  <2>7. ASSUME NEW p \in Requests \ {q}, Active(p)  PROVE Undisturbed(p)
    BY <2>1, <2>2, <2>4, SameNames DEF Undisturbed, EndpointsOf, history
  <2>8. SourceChecked(q)'
    BY <1>1, <2>2, <2>5 DEF Ready, SourceChecked
  <2>9. Ready(q)'
    BY <1>1, <2>5, <2>8 DEF Ready, NameFree, EndpointFits, EndpointKept, ConnectionsSeen
  <2>10. RequestsReady'
    BY <1>1, <2>2, <2>5, <2>7, <2>9, RequestsStayReady DEF history
  <2>11. ASSUME NEW l \in links'
         PROVE  /\ SourceExists(l.tenant, l.source)' /\ l.conn \in DOMAIN conns' \ fresh'
                /\ [tenant |-> l.tenant, conn |-> l.conn] \in partners'
    BY <2>1, <2>2, <2>4 DEF LinksInv, SourceExists, history
  <2>12. \A m, n \in DOMAIN conns' : conns'[m] = conns'[n] => m = n
    BY <2>4 DEF LinksInv
  <2>. QED  BY <2>2, <2>6, <2>10, <2>11, <2>12 DEF LinksInv
<1>. QED  BY <1>2, <1>3

LEMMA RollBackStep ==
    ASSUME LinksInv, NEW q \in Requests, RollBack(q), UNCHANGED workload
    PROVE  LinksInv'
<1>1. Active(q) /\ TypeOK  BY DEF RollBack, At, Active, LinksInv
<1>2. /\ End(q) /\ UNCHANGED <<sources, endpoints, links, history, workload>>
      /\ fresh' = fresh \ {req[q].id}
  BY DEF RollBack
<1>3. /\ DOMAIN conns' = DOMAIN conns \ ({req[q].id} \cap fresh)
      /\ \A k \in DOMAIN conns' : conns'[k] = conns[k]
  BY DEF RollBack, Without
<1>4. TypeOK'
  <2>1. conns' \in [DOMAIN conns' -> RhcIds]  BY <1>1 DEF TypeOK, RollBack, Without
  <2>2. req' \in [Requests -> Working \cup {Idle}]  BY <1>1, <1>2, EndFacts
  <2>. QED  BY <1>1, <1>2, <1>3, <2>1, <2>2 DEF TypeOK, history
<1>5. ASSUME NEW p \in Requests \ {q}, Active(p)  PROVE Undisturbed(p)
  BY <1>2, <1>3, SameNames DEF Undisturbed, EndpointsOf, history
<1>6. RequestsReady'  BY <1>2, <1>5, EndKeepsReady DEF history
<1>7. ASSUME NEW l \in links'
      PROVE  /\ SourceExists(l.tenant, l.source)' /\ l.conn \in DOMAIN conns' \ fresh'
             /\ [tenant |-> l.tenant, conn |-> l.conn] \in partners'
  BY <1>2, <1>3 DEF LinksInv, SourceExists, history
<1>. QED  BY <1>2, <1>3, <1>4, <1>6, <1>7 DEF LinksInv

LEMMA LinkStep ==
    ASSUME LinksInv, NEW q \in Requests, Link(q), UNCHANGED workload
    PROVE  LinksInv'
<1>. DEFINE o == req[q].order
            l == [source |-> o.source, conn |-> req[q].id, tenant |-> o.tenant]
            p == [tenant |-> o.tenant, conn |-> req[q].id]
<1>1. /\ Active(q) /\ TypeOK /\ Ready(q) /\ o.kind = "connect" /\ req[q].pc = "link"
  BY DEF Link, At, Active, LinksInv, RequestsReady
<1>2. /\ End(q) /\ UNCHANGED <<sources, endpoints, conns, raced, misled, unset, workload>>
      /\ links' = links \cup {l}
      /\ fresh' = fresh \ {req[q].id}
      /\ partners' = partners \cup {p}
      /\ o.source \in DOMAIN sources /\ req[q].id \in DOMAIN conns
      /\ \A m \in links : ~(m.source = o.source /\ m.conn = req[q].id)
  BY DEF Link
<1>3. o \in Orders  BY <1>1, WorkingFields
<1>4. /\ l \in Links /\ p \in [tenant : Tenants, conn : ConnIds]
  BY <1>1, <1>2, <1>3, OrderFields DEF Links, TypeOK
<1>5. /\ l.source = o.source /\ l.conn = req[q].id /\ l.tenant = o.tenant
      /\ [tenant |-> l.tenant, conn |-> l.conn] = p
  OBVIOUS
<1>6. SourceExists(o.tenant, o.source) /\ o.source \in req[q].scope
  BY <1>1, <1>2 DEF Ready, SourceChecked, SourceExists
<1>. HIDE DEF l, p
<1>7. TypeOK'
  <2>1. req' \in [Requests -> Working \cup {Idle}]  BY <1>1, <1>2, EndFacts
  <2>. QED  BY <1>1, <1>2, <1>4, <2>1 DEF TypeOK
<1>8. ASSUME NEW r \in Requests \ {q}, Active(r)  PROVE Undisturbed(r)
  <2>1. \A x \in req[r].scope \ raced' : x # o.source
    BY <1>1, <1>2, <1>6, <1>8, ScopesApart
  <2>. QED
    BY <1>2, <1>5, <2>1, SameNames DEF Undisturbed, EndpointsOf
<1>9. RequestsReady'  BY <1>2, <1>8, EndKeepsReady
<1>10. ASSUME NEW m \in links'
       PROVE  /\ SourceExists(m.tenant, m.source)' /\ m.conn \in DOMAIN conns' \ fresh'
              /\ [tenant |-> m.tenant, conn |-> m.conn] \in partners'
  <2>1. CASE m = l  BY <1>2, <1>5, <1>6, <2>1 DEF SourceExists
  <2>2. CASE m \in links  BY <1>2, <2>2 DEF LinksInv, SourceExists
  <2>. QED  BY <1>2, <2>1, <2>2
<1>11. \A m, n \in links' : m.source = n.source /\ m.conn = n.conn => m = n
  BY <1>2, <1>5 DEF LinksInv
<1>. QED  BY <1>2, <1>7, <1>9, <1>10, <1>11 DEF LinksInv

LEMMA DeleteConnectionStep ==
    ASSUME LinksInv, NEW q \in Requests, DeleteConnection(q), UNCHANGED workload
    PROVE  LinksInv'
<1>. DEFINE k == req[q].order.id
<1>1. /\ Active(q) /\ TypeOK /\ Ready(q)
      /\ req[q].order.kind = "disconnect" /\ req[q].pc = "write"
  BY DEF DeleteConnection, At, Active, LinksInv, RequestsReady
<1>2. /\ End(q) /\ UNCHANGED <<sources, endpoints, fresh, raced, misled, unset, workload>>
      /\ links' = {l \in links : l.conn # k}
      /\ partners' = {p \in partners : p.conn # k}
  BY DEF DeleteConnection
<1>3. /\ DOMAIN conns' = DOMAIN conns \ {k}
      /\ \A m \in DOMAIN conns' : conns'[m] = conns[m]
  BY DEF DeleteConnection, Without
<1>4. k \notin fresh  BY <1>1 DEF Ready, ConnectionsSeen
<1>5. TypeOK'
  <2>1. conns' \in [DOMAIN conns' -> RhcIds]
    BY <1>1 DEF TypeOK, DeleteConnection, Without
  <2>2. req' \in [Requests -> Working \cup {Idle}]  BY <1>1, <1>2, EndFacts
  <2>. QED  BY <1>1, <1>2, <1>3, <1>4, <2>1, <2>2 DEF TypeOK
<1>6. ASSUME NEW p \in Requests \ {q}, Active(p)  PROVE Undisturbed(p)
  BY <1>2, <1>3, SameNames DEF Undisturbed, EndpointsOf
<1>7. RequestsReady'  BY <1>2, <1>6, EndKeepsReady
<1>8. ASSUME NEW l \in links'
      PROVE  /\ SourceExists(l.tenant, l.source)' /\ l.conn \in DOMAIN conns' \ fresh'
             /\ [tenant |-> l.tenant, conn |-> l.conn] \in partners'
  BY <1>2, <1>3 DEF LinksInv, SourceExists
<1>. QED  BY <1>2, <1>3, <1>5, <1>7, <1>8 DEF LinksInv

(* A request comes in: an overlap with another of its scope is noted.       *)
LEMMA ReceiveStep ==
    ASSUME LinksInv, NEW q \in Requests, NEW o \in workload, Receive(q, o),
           UNCHANGED workload
    PROVE  LinksInv'
<1>. DEFINE job == [pc |-> "check", order |-> o, scope |-> Scope(o), copy |-> Nil,
                    id |-> Nil, seen |-> {}]
<1>1. TypeOK /\ UNCHANGED <<tables, misled, unset, partners, workload>>
      /\ raced \subseteq raced'
  BY DEF Receive, LinksInv
<1>2. o \in Orders  BY <1>1 DEF TypeOK
<1>3. /\ o.kind \in {"createSource", "renameSource"} => o.tenant \in Scope(o)
      /\ o.kind = "deleteSource" => o.id \in Scope(o)
      /\ o.kind \in {"createEndpoint", "connect"} => o.source \in Scope(o)
      /\ o.kind \in {"editEndpoint", "deleteEndpoint"} /\ o.id \in DOMAIN endpoints =>
           endpoints[o.id].source \in Scope(o)
  BY DEF Scope
<1>4. Scope(o) \subseteq Tenants \cup SourceIds
  <2>1. \A e \in DOMAIN endpoints : endpoints[e].source \in SourceIds
    BY <1>1 DEF TypeOK, Endpoints
  <2>. QED  BY <1>2, <2>1, OrderFields DEF Scope
<1>5. /\ req' \in [Requests -> Working \cup {Idle}]
      /\ \A p \in Requests \ {q} : req'[p] = req[p]
      /\ req'[q].pc = "check" /\ req'[q].order = o /\ req'[q].scope = Scope(o)
  <2>1. job \in Working  BY <1>2, <1>4 DEF Working, Busy
  <2>. QED  BY <1>1, <2>1 DEF Receive, TypeOK
<1>6. TypeOK'
  <2>1. raced' \subseteq Tenants \cup SourceIds  BY <1>1, <1>4 DEF Receive, TypeOK
  <2>. QED  BY <1>1, <1>5, <2>1 DEF TypeOK, tables
<1>7. Ready(q)'
  BY <1>1, <1>3, <1>5
  DEF Ready, NameFree, EndpointFits, EndpointKept, ConnectionsSeen, SourceChecked,
      Loaded, tables
<1>8. ASSUME NEW p \in Requests, Active(p)'  PROVE Ready(p)'
  <2>1. CASE p = q  BY <1>7, <2>1
  <2>2. CASE p # q
    <3>1. Active(p) /\ req'[p] = req[p]  BY <1>5, <1>8, <2>2 DEF Active
    <3>2. Undisturbed(p)
      BY <1>1, SameNames DEF Undisturbed, tables, EndpointsOf
    <3>. QED  BY <3>1, <3>2, StaysReady
  <2>. QED  BY <2>1, <2>2
<1>9. ASSUME NEW p \in Requests \ {q}, Active(p)
      PROVE  Scope(o) \cap req[p].scope \subseteq raced'
  BY <1>9 DEF Receive, Active
<1>10. ASSUME NEW p \in Requests, NEW r \in Requests, Active(p)', Active(r)', p # r
       PROVE  req'[p].scope \cap req'[r].scope \subseteq raced'
  <2>1. \A x \in Requests \ {q} : Active(x)' => Active(x) /\ req'[x].scope = req[x].scope
    BY <1>5 DEF Active
  <2>2. CASE p = q  BY <1>5, <1>9, <1>10, <2>1, <2>2
  <2>3. CASE r = q  BY <1>5, <1>9, <1>10, <2>1, <2>3
  <2>4. CASE p # q /\ r # q
    <3>1. req[p].scope \cap req[r].scope \subseteq raced
      BY <1>10, <2>1, <2>4 DEF LinksInv, RequestsReady
    <3>. QED  BY <1>1, <2>1, <2>4, <1>10, <3>1
  <2>. QED  BY <2>2, <2>3, <2>4
<1>11. RequestsReady'  BY <1>8, <1>10 DEF RequestsReady
<1>12. \A l \in links' : SourceExists(l.tenant, l.source)'
  BY <1>1 DEF LinksInv, SourceExists, tables
<1>. QED  BY <1>1, <1>6, <1>11, <1>12 DEF LinksInv, tables

-----------------------------------------------------------------------------
(* Whatever overlaps, the rows, links and partners agree, and a request     *)
(* keeps what it has checked unless a lookup failed, which endpoint_dao.go  *)
(* and source_dao.go take for "free": the links of rhc_connection_dao.go    *)
(* and the checks of the services before their writes.                     *)
THEOREM LinksSafe == Spec => []LinksInv
<1>1. Init => LinksInv
  BY LinksAssumption DEF Init, LinksInv, TypeOK, RequestsReady, Active, Idle
<1>2. LinksInv /\ [Next]_vars => LinksInv'
  <2>. SUFFICES ASSUME LinksInv, [Next]_vars  PROVE LinksInv'
    OBVIOUS
  <2>1. CASE UNCHANGED vars
    BY <2>1 DEF vars, LinksInv, TypeOK, RequestsReady, Active, Ready, NameFree, EndpointFits,
                EndpointKept, ConnectionsSeen, SourceChecked, Loaded, Unsure, SourceExists,
                SourceVisible, NameExistsInCurrentTenant, CanEndpointBeSetAsDefaultForSource,
                SourceHasEndpoints, IsRoleUniqueForSource, EndpointsOf
  <2>2. ASSUME NEW q \in Requests, NEW o \in workload, Receive(q, o), UNCHANGED workload
        PROVE  LinksInv'
    BY <2>2, ReceiveStep
  <2>3. ASSUME NEW q \in Requests, Serve(q), UNCHANGED workload
        PROVE  LinksInv'
    BY <2>3, ValidateSourceStep, InsertSourceStep, UpdateSourceStep, LoadConnectionsStep,
       DeleteSourceStep, LoadEndpointStep, ValidateDefaultStep, DefaultToFirstStep,
       ValidateRoleStep, InsertEndpointStep, UpdateEndpointStep, DeleteEndpointStep,
       ConnectStep, FindConnectionStep, InsertConnectionStep, RollBackStep, LinkStep,
       DisconnectStep, DeleteConnectionStep, RefuseKeeps
    DEF Serve, Fail
  <2>. QED  BY <2>1, <2>2, <2>3 DEF Next
<1>. QED  BY <1>1, <1>2, PTL DEF Spec

-----------------------------------------------------------------------------
(* Names, roles and defaults.                                              *)

(* Unsure only grows; a step that changes neither table keeps them unique.  *)
LEMMA UniqueUndisturbed ==
    ASSUME UniqueUnlessRaced, UNCHANGED <<sources, endpoints, unset>>,
           Unsure \subseteq Unsure'
    PROVE  UniqueUnlessRaced'
<1>1. \A s : EndpointsOf(s)' = EndpointsOf(s)  BY DEF EndpointsOf
<1>2. \A t, u, s : SourceVisible(t, u, s)' <=> SourceVisible(t, u, s)
  BY DEF SourceVisible, SourceExists
<1>. QED  BY <1>1, <1>2 DEF UniqueUnlessRaced, UniqueNames, UniqueEndpoints

(* Unset is about one source.                                              *)
LEMMA UnsetElsewhere ==
    ASSUME NEW s, Unset(s), NEW x, x # s
    PROVE  x \in unset' <=> x \in unset
<1>. DEFINE left     == {e \in DOMAIN endpoints' : endpoints'[e].source = s}
            defaults == {e \in EndpointsOf(s) : endpoints[e].default}
            lost     == \E e \in defaults : e \in left => ~endpoints'[e].default
<1>1. unset' = IF left = {} THEN unset \ {s}
               ELSE IF lost THEN unset \cup {s} ELSE unset
  BY DEF Unset
<1>. HIDE DEF left, lost
<1>. QED  BY <1>1

(* When the default of s is unset or deleted it is noted.                   *)
LEMMA UnsetIsNoted ==
    ASSUME NEW s, Unset(s), UniqueEndpoints(s), EndpointsOf(s)' \subseteq EndpointsOf(s)
    PROVE  EndpointsOf(s)' # {} /\ s \notin unset' =>
               \E e \in EndpointsOf(s)' : endpoints'[e].default
<1>. DEFINE left     == {e \in DOMAIN endpoints' : endpoints'[e].source = s}
            defaults == {e \in EndpointsOf(s) : endpoints[e].default}
            lost     == \E e \in defaults : e \in left => ~endpoints'[e].default
<1>1. unset' = IF left = {} THEN unset \ {s}
               ELSE IF lost THEN unset \cup {s} ELSE unset
  BY DEF Unset
<1>2. left = EndpointsOf(s)'  BY DEF EndpointsOf
<1>3. EndpointsOf(s) # {} /\ s \notin unset => defaults # {}  BY DEF UniqueEndpoints
<1>4. defaults # {} /\ ~lost => \E e \in left : endpoints'[e].default  OBVIOUS
<1>. HIDE DEF left, defaults, lost
<1>. SUFFICES ASSUME EndpointsOf(s)' # {}, s \notin unset'
              PROVE  \E e \in EndpointsOf(s)' : endpoints'[e].default
  OBVIOUS
<1>5. left # {} /\ ~lost /\ s \notin unset  BY <1>1, <1>2
<1>6. defaults # {}  BY <1>2, <1>3, <1>5
<1>. QED  BY <1>2, <1>4, <1>5, <1>6

LEMMA InsertSourceUnique ==
    ASSUME LinksInv, UniqueUnlessRaced, NEW q \in Requests, InsertSource(q)
    PROVE  UniqueUnlessRaced'
<1>. DEFINE o == req[q].order
            row == [tenant |-> o.tenant, user |-> o.owner, name |-> o.name]
<1>1. Ready(q) /\ o.kind = "createSource" /\ req[q].pc = "write"
  BY DEF InsertSource, At, Active, LinksInv, RequestsReady
<1>2. CASE Refuse(q)
  BY <1>2, UniqueUndisturbed DEF Refuse, tables, history, Unsure
<1>3. CASE ~Refuse(q)
  <2>1. PICK s \in SourceIds \ (DOMAIN sources \cup Held) : sources' = With(sources, s, row)
    BY <1>3 DEF InsertSource, Bounded
  <2>2. UNCHANGED <<endpoints, unset, Unsure>>
    BY <1>3 DEF InsertSource, Bounded, history, Unsure
  <2>3. /\ DOMAIN sources' = DOMAIN sources \cup {s} /\ sources'[s] = row
        /\ \A x \in DOMAIN sources : sources'[x] = sources[x]
    BY <2>1 DEF With
  <2>4. ASSUME NEW t \in Tenants \ Unsure'  PROVE UniqueNames(t)'
    <3>1. UniqueNames(t)  BY <2>2, <2>4 DEF UniqueUnlessRaced
    <3>2. t = o.tenant /\ o.owner = Nil => \A x \in DOMAIN sources : sources[x] # row
      <4>1. \A x \in DOMAIN sources : sources[x] = row /\ o.owner = Nil =>
              SourceVisible(o.tenant, o.user, x) /\ sources[x].name = o.name
        BY DEF SourceVisible, SourceExists
      <4>. QED  BY <1>1, <2>2, <2>4, <4>1 DEF Ready, NameFree, NameExistsInCurrentTenant
    <3>3. row.tenant = o.tenant /\ row.user = o.owner  OBVIOUS
    <3>. HIDE DEF row
    <3>. QED
      BY <2>3, <3>1, <3>2, <3>3 DEF UniqueNames, SourceVisible, SourceExists
  <2>5. ASSUME NEW x \in DOMAIN sources' \ Unsure'  PROVE UniqueEndpoints(x)'
    <3>1. EndpointsOf(x)' = EndpointsOf(x)  BY <2>2 DEF EndpointsOf
    <3>2. CASE x = s
      <4>1. EndpointsOf(s) = {}  BY <2>1 DEF LinksInv, EndpointsOf
      <4>. QED  BY <3>1, <3>2, <4>1 DEF UniqueEndpoints
    <3>3. CASE x # s
      BY <2>2, <2>3, <2>5, <3>1, <3>3 DEF UniqueUnlessRaced, UniqueEndpoints
    <3>. QED  BY <3>2, <3>3
  <2>. QED  BY <2>4, <2>5 DEF UniqueUnlessRaced
<1>. QED  BY <1>2, <1>3

LEMMA UpdateSourceUnique ==
    ASSUME LinksInv, UniqueUnlessRaced, NEW q \in Requests, UpdateSource(q)
    PROVE  UniqueUnlessRaced'
<1>. DEFINE o == req[q].order
<1>1. TypeOK /\ Ready(q) /\ o.kind = "renameSource" /\ req[q].pc = "write"
  BY DEF UpdateSource, At, Active, LinksInv, RequestsReady
<1>2. UNCHANGED <<endpoints, unset, Unsure>>  BY DEF UpdateSource, history, Unsure
<1>3. CASE ~SourceVisible(o.tenant, o.user, o.id)
  BY <1>2, <1>3, UniqueUndisturbed DEF UpdateSource
<1>4. CASE SourceVisible(o.tenant, o.user, o.id)
  <2>. DEFINE row == [tenant |-> o.tenant, user |-> sources[o.id].user, name |-> o.name]
  <2>1. /\ DOMAIN sources' = DOMAIN sources /\ o.id \in DOMAIN sources
        /\ sources'[o.id] = row
        /\ \A x \in DOMAIN sources \ {o.id} : sources'[x] = sources[x]
    BY <1>1, <1>4 DEF UpdateSource, SourceVisible, SourceExists, TypeOK, Sources
  <2>2. ASSUME NEW t \in Tenants \ Unsure'  PROVE UniqueNames(t)'
    <3>1. UniqueNames(t)  BY <1>2, <2>2 DEF UniqueUnlessRaced
    <3>2. t = o.tenant /\ row.user = Nil => \A x \in DOMAIN sources : sources[x] # row
      <4>1. \A x \in DOMAIN sources : sources[x] = row /\ row.user = Nil =>
              SourceVisible(o.tenant, o.user, x) /\ sources[x].name = o.name
        BY DEF SourceVisible, SourceExists
      <4>. QED  BY <1>1, <1>2, <2>2, <4>1 DEF Ready, NameFree, NameExistsInCurrentTenant
    <3>3. row.tenant = o.tenant  OBVIOUS
    <3>. HIDE DEF row
    <3>. QED
      BY <2>1, <3>1, <3>2, <3>3 DEF UniqueNames, SourceVisible, SourceExists
  <2>3. ASSUME NEW x \in DOMAIN sources' \ Unsure'  PROVE UniqueEndpoints(x)'
    <3>1. EndpointsOf(x)' = EndpointsOf(x)  BY <1>2 DEF EndpointsOf
    <3>. QED  BY <1>2, <2>1, <2>3, <3>1 DEF UniqueUnlessRaced, UniqueEndpoints
  <2>. QED  BY <2>2, <2>3 DEF UniqueUnlessRaced
<1>. QED  BY <1>3, <1>4

LEMMA DeleteSourceUnique ==
    ASSUME UniqueUnlessRaced, NEW q \in Requests, DeleteSource(q)
    PROVE  UniqueUnlessRaced'
<1>. DEFINE s == req[q].order.id
<1>1. /\ DOMAIN sources' = DOMAIN sources \ {s}
      /\ \A x \in DOMAIN sources' : sources'[x] = sources[x]
      /\ DOMAIN endpoints' = DOMAIN endpoints \ EndpointsOf(s)
      /\ \A x \in DOMAIN endpoints' : endpoints'[x] = endpoints[x]
      /\ unset' = unset \ {s} /\ UNCHANGED Unsure
  BY DEF DeleteSource, Without, Unsure
<1>2. ASSUME NEW x \in DOMAIN sources' \ Unsure'  PROVE UniqueEndpoints(x)'
  <2>1. /\ EndpointsOf(x)' = EndpointsOf(x) /\ (x \in unset' <=> x \in unset)
        /\ \A e \in EndpointsOf(x) : endpoints'[e] = endpoints[e]
    BY <1>1, <1>2 DEF EndpointsOf
  <2>. QED  BY <1>1, <1>2, <2>1 DEF UniqueUnlessRaced, UniqueEndpoints
<1>3. ASSUME NEW t \in Tenants \ Unsure'  PROVE UniqueNames(t)'
  BY <1>1, <1>3 DEF UniqueUnlessRaced, UniqueNames, SourceVisible, SourceExists
<1>. QED  BY <1>2, <1>3 DEF UniqueUnlessRaced

LEMMA InsertEndpointUnique ==
    ASSUME LinksInv, UniqueUnlessRaced, NEW q \in Requests, InsertEndpoint(q)
    PROVE  UniqueUnlessRaced'
<1>. DEFINE c == req[q].copy
<1>1. Ready(q) /\ req[q].order.kind = "createEndpoint" /\ req[q].pc = "write"
  BY DEF InsertEndpoint, At, Active, LinksInv, RequestsReady
<1>2. CASE Refuse(q)
  BY <1>2, UniqueUndisturbed DEF Refuse, tables, history, Unsure
<1>3. CASE ~Refuse(q)
  <2>1. PICK e \in EndpointIds \ (DOMAIN endpoints \cup Held) :
               endpoints' = With(endpoints, e, c)
    BY <1>3 DEF InsertEndpoint, Bounded
  <2>2. UNCHANGED <<sources, unset, Unsure>>
    BY <1>3 DEF InsertEndpoint, Bounded, history, Unsure
  <2>3. /\ DOMAIN endpoints' = DOMAIN endpoints \cup {e} /\ endpoints'[e] = c
        /\ \A x \in DOMAIN endpoints : endpoints'[x] = endpoints[x]
        /\ e \notin DOMAIN endpoints
    BY <2>1 DEF With
  <2>4. ASSUME NEW s \in DOMAIN sources' \ Unsure'  PROVE UniqueEndpoints(s)'
    <3>1. UniqueEndpoints(s)  BY <2>2, <2>4 DEF UniqueUnlessRaced
    <3>2. CASE s # c.source
      <4>1. /\ EndpointsOf(s)' = EndpointsOf(s)
            /\ \A f \in EndpointsOf(s) : endpoints'[f] = endpoints[f]
        BY <2>3, <3>2 DEF EndpointsOf
      <4>. QED  BY <2>2, <3>1, <4>1 DEF UniqueEndpoints
    <3>3. CASE s = c.source
      <4>1. /\ EndpointsOf(s)' = EndpointsOf(s) \cup {e}
            /\ \A f \in EndpointsOf(s) : endpoints'[f] = endpoints[f] /\ f # e
        BY <2>3, <3>3 DEF EndpointsOf
      <4>2. /\ \A f \in EndpointsOf(s) : endpoints[f].role # c.role
            /\ c.default => \A f \in EndpointsOf(s) : ~endpoints[f].default
            /\ EndpointsOf(s) = {} => c.default
        BY <1>1, <2>2, <2>4, <3>3
        DEF Ready, EndpointFits, Loaded, IsRoleUniqueForSource, SourceHasEndpoints,
            CanEndpointBeSetAsDefaultForSource
      <4>. QED  BY <2>2, <2>3, <3>1, <4>1, <4>2 DEF UniqueEndpoints
    <3>. QED  BY <3>2, <3>3
  <2>5. ASSUME NEW t \in Tenants \ Unsure'  PROVE UniqueNames(t)'
    BY <2>2, <2>5 DEF UniqueUnlessRaced, UniqueNames, SourceVisible, SourceExists
  <2>. QED  BY <2>4, <2>5 DEF UniqueUnlessRaced
<1>. QED  BY <1>2, <1>3

LEMMA UpdateEndpointUnique ==
    ASSUME LinksInv, UniqueUnlessRaced, NEW q \in Requests, UpdateEndpoint(q)
    PROVE  UniqueUnlessRaced'
<1>. DEFINE o == req[q].order
            c == req[q].copy
            set(f) == IF o[f] = Nil THEN c[f] ELSE o[f]
            row == [source |-> c.source, role |-> set("role"), default |-> set("default")]
<1>1. /\ TypeOK /\ Active(q) /\ Ready(q) /\ o.kind = "editEndpoint" /\ req[q].pc = "write"
  BY DEF UpdateEndpoint, At, Active, LinksInv, RequestsReady
<1>2. Unset(c.source) /\ UNCHANGED <<sources, Unsure>>
  BY DEF UpdateEndpoint, Unsure
<1>3. o \in Orders  BY <1>1, WorkingFields
<1>4. o.role \in Roles \cup {Nil} /\ o.default \in BOOLEAN \cup {Nil}
  BY <1>1, <1>3, OrderFields
<1>5. /\ endpoints' = IF o.id \in DOMAIN endpoints THEN [endpoints EXCEPT ![o.id] = row]
                                                  ELSE endpoints
      /\ row.source = c.source
      /\ row.role = IF o.role = Nil THEN c.role ELSE o.role
      /\ row.default = IF o.default = Nil THEN c.default ELSE o.default
  BY DEF UpdateEndpoint
<1>6. o.id \in DOMAIN endpoints => endpoints[o.id].source = c.source
  BY <1>1 DEF Ready, EndpointKept
<1>. HIDE DEF row
<1>7. /\ DOMAIN endpoints' = DOMAIN endpoints
      /\ \A e \in DOMAIN endpoints : e # o.id => endpoints'[e] = endpoints[e]
      /\ \A e \in DOMAIN endpoints : e = o.id => endpoints'[e] = row
  BY <1>5
<1>8. ASSUME NEW s \in DOMAIN sources' \ Unsure'  PROVE UniqueEndpoints(s)'
  <2>1. UniqueEndpoints(s)  BY <1>2, <1>8 DEF UniqueUnlessRaced
  <2>2. EndpointsOf(s)' = EndpointsOf(s)  BY <1>5, <1>6, <1>7 DEF EndpointsOf
  <2>3. CASE s # c.source
    <3>1. \A f \in EndpointsOf(s) : endpoints'[f] = endpoints[f]
      BY <1>6, <1>7, <2>3 DEF EndpointsOf
    <3>2. s \in unset' <=> s \in unset  BY <1>2, <2>3, UnsetElsewhere
    <3>. QED  BY <2>1, <2>2, <3>1, <3>2 DEF UniqueEndpoints
  <2>4. CASE s = c.source
    <3>1. /\ o.id \in DOMAIN endpoints => endpoints[o.id] = c
          /\ o.default = TRUE => \A f \in EndpointsOf(s) : ~endpoints[f].default
          /\ o.role # Nil => \A f \in EndpointsOf(s) : endpoints[f].role # o.role
      BY <1>1, <1>2, <1>8, <2>4
      DEF Ready, EndpointKept, IsRoleUniqueForSource, CanEndpointBeSetAsDefaultForSource, Unsure
    <3>2. \A e \in EndpointsOf(s) : e \in DOMAIN endpoints  BY DEF EndpointsOf
    <3>3. \A e, f \in EndpointsOf(s) : endpoints'[e].role = endpoints'[f].role => e = f
      BY <1>5, <1>7, <2>1, <3>1, <3>2 DEF UniqueEndpoints
    <3>4. ASSUME NEW e \in EndpointsOf(s), NEW f \in EndpointsOf(s),
                 endpoints'[e].default, endpoints'[f].default
          PROVE  e = f
      <4>1. CASE o.default = TRUE
        BY <1>7, <3>1, <3>2, <3>4, <4>1
      <4>2. CASE o.default # TRUE
        <5>1. ASSUME NEW g \in EndpointsOf(s), endpoints'[g].default
              PROVE  endpoints[g].default
          <6>1. CASE g # o.id  BY <1>7, <3>2, <5>1, <6>1
          <6>2. CASE g = o.id
            <7>1. row.default  BY <1>7, <3>2, <5>1, <6>2
            <7>2. o.default # FALSE  BY <1>5, <7>1, LinksAssumption
            <7>3. o.default = Nil  BY <1>4, <4>2, <7>2
            <7>. QED  BY <1>5, <3>1, <3>2, <6>2, <7>1, <7>3
          <6>. QED  BY <6>1, <6>2
        <5>. QED  BY <2>1, <3>4, <5>1 DEF UniqueEndpoints
      <4>. QED  BY <4>1, <4>2
    <3>5. EndpointsOf(s) # {} /\ s \notin unset' =>
            \E e \in EndpointsOf(s) : endpoints'[e].default
      BY <1>2, <2>1, <2>2, <2>4, UnsetIsNoted
    <3>. QED  BY <2>2, <3>3, <3>4, <3>5 DEF UniqueEndpoints
  <2>. QED  BY <2>3, <2>4
<1>9. ASSUME NEW t \in Tenants \ Unsure'  PROVE UniqueNames(t)'
  BY <1>2, <1>9 DEF UniqueUnlessRaced, UniqueNames, SourceVisible, SourceExists
<1>. QED  BY <1>8, <1>9 DEF UniqueUnlessRaced

LEMMA DeleteEndpointUnique ==
    ASSUME LinksInv, UniqueUnlessRaced, NEW q \in Requests, DeleteEndpoint(q)
    PROVE  UniqueUnlessRaced'
<1>. DEFINE o == req[q].order
            c == req[q].copy
<1>1. Ready(q) /\ o.kind = "deleteEndpoint" /\ req[q].pc = "write"
  BY DEF DeleteEndpoint, At, Active, LinksInv, RequestsReady
<1>2. Unset(c.source) /\ UNCHANGED <<sources, Unsure>>
  BY DEF DeleteEndpoint, Unsure
<1>3. o.id \in DOMAIN endpoints => endpoints[o.id].source = c.source
  BY <1>1 DEF Ready, EndpointKept
<1>4. /\ DOMAIN endpoints' = DOMAIN endpoints \ {o.id}
      /\ \A e \in DOMAIN endpoints' : endpoints'[e] = endpoints[e]
  BY DEF DeleteEndpoint, Without
<1>5. ASSUME NEW s \in DOMAIN sources' \ Unsure'  PROVE UniqueEndpoints(s)'
  <2>1. UniqueEndpoints(s)  BY <1>2, <1>5 DEF UniqueUnlessRaced
  <2>2. /\ EndpointsOf(s)' \subseteq EndpointsOf(s)
        /\ \A e \in EndpointsOf(s)' : endpoints'[e] = endpoints[e]
    BY <1>4 DEF EndpointsOf
  <2>3. CASE s # c.source
    <3>1. EndpointsOf(s)' = EndpointsOf(s)  BY <1>3, <1>4, <2>3 DEF EndpointsOf
    <3>2. s \in unset' <=> s \in unset  BY <1>2, <2>3, UnsetElsewhere
    <3>. QED  BY <2>1, <2>2, <3>1, <3>2 DEF UniqueEndpoints
  <2>4. CASE s = c.source
    <3>1. EndpointsOf(s)' # {} /\ s \notin unset' =>
            \E e \in EndpointsOf(s)' : endpoints'[e].default
      BY <1>2, <2>1, <2>2, <2>4, UnsetIsNoted
    <3>. QED  BY <2>1, <2>2, <3>1 DEF UniqueEndpoints
  <2>. QED  BY <2>3, <2>4
<1>6. ASSUME NEW t \in Tenants \ Unsure'  PROVE UniqueNames(t)'
  BY <1>2, <1>6 DEF UniqueUnlessRaced, UniqueNames, SourceVisible, SourceExists
<1>. QED  BY <1>5, <1>6 DEF UniqueUnlessRaced

(* The names of the sources that the users of a tenant share, the roles of  *)
(* the endpoints of a source and its default are unique, although no index  *)
(* backs the checks of the services, unless two requests about them         *)
(* overlapped or a lookup that failed missed a row.                        *)
THEOREM UniqueSafe == Spec => []UniqueUnlessRaced
<1>1. Init => UniqueUnlessRaced
  BY DEF Init, UniqueUnlessRaced, UniqueNames, UniqueEndpoints
<1>2. LinksInv /\ UniqueUnlessRaced /\ [Next]_vars => UniqueUnlessRaced'
  <2>. SUFFICES ASSUME LinksInv, UniqueUnlessRaced, [Next]_vars  PROVE UniqueUnlessRaced'
    OBVIOUS
  <2>1. CASE UNCHANGED vars  BY <2>1, UniqueUndisturbed DEF vars, Unsure
  <2>2. ASSUME NEW q \in Requests, NEW o \in workload, Receive(q, o)
        PROVE  UniqueUnlessRaced'
    BY <2>2, UniqueUndisturbed DEF Receive, tables, Unsure
  <2>3. ASSUME NEW q \in Requests, Serve(q)  PROVE UniqueUnlessRaced'
    <3>. USE <2>3, UniqueUndisturbed DEF tables, history, Unsure
    <3>1. CASE ValidateSource(q) \/ LoadConnections(q) \/ LoadEndpoint(q)
      BY <3>1 DEF ValidateSource, LoadConnections, LoadEndpoint, Refuse, Checked, Overlooked
    <3>2. CASE ValidateDefault(q) \/ DefaultToFirst(q) \/ ValidateRole(q)
      BY <3>2 DEF ValidateDefault, DefaultToFirst, ValidateRole, Refuse, Checked, Overlooked
    <3>3. CASE Connect(q) \/ FindConnection(q) \/ InsertConnection(q) \/ RollBack(q)
      BY <3>3 DEF Connect, FindConnection, InsertConnection, RollBack, Bounded, Refuse, Checked
    <3>4. CASE Link(q) \/ Disconnect(q) \/ DeleteConnection(q)
      BY <3>4 DEF Link, Disconnect, DeleteConnection, Refuse, Checked
    <3>5. CASE InsertSource(q)  BY <3>5, InsertSourceUnique
    <3>6. CASE UpdateSource(q)  BY <3>6, UpdateSourceUnique
    <3>7. CASE DeleteSource(q)  BY <3>7, DeleteSourceUnique
    <3>8. CASE InsertEndpoint(q)  BY <3>8, InsertEndpointUnique
    <3>9. CASE UpdateEndpoint(q)  BY <3>9, UpdateEndpointUnique
    <3>10. CASE DeleteEndpoint(q)  BY <3>10, DeleteEndpointUnique
    <3>11. CASE Fail(q)  BY <3>11 DEF Fail, Refuse
    <3>. QED
      BY <3>1, <3>2, <3>3, <3>4, <3>5, <3>6, <3>7, <3>8, <3>9, <3>10, <3>11 DEF Serve
  <2>. QED  BY <2>1, <2>2, <2>3 DEF Next
<1>. QED  BY <1>1, <1>2, LinksSafe, PTL DEF Spec

-----------------------------------------------------------------------------
(* Connections.                                                            *)

(* A connection without a link is one that a transaction still open has     *)
(* inserted, unless the deletion of a source overlapped a request about it. *)
THEOREM NoneAdrift == Spec => []NoConnectionAdrift
<1>1. Init => NoConnectionAdrift
  BY DEF Init, NoConnectionAdrift
<1>2. LinksInv /\ NoConnectionAdrift /\ [Next]_vars => NoConnectionAdrift'
  <2>. SUFFICES ASSUME LinksInv, NoConnectionAdrift, [Next]_vars  PROVE NoConnectionAdrift'
    OBVIOUS
  <2>1. ASSUME UNCHANGED <<conns, links, fresh>>, raced \subseteq raced'
        PROVE  NoConnectionAdrift'
    BY <2>1 DEF NoConnectionAdrift
  <2>2. CASE UNCHANGED vars  BY <2>1, <2>2 DEF vars
  <2>3. ASSUME NEW q \in Requests, NEW o \in workload, Receive(q, o)
        PROVE  NoConnectionAdrift'
    BY <2>1, <2>3 DEF Receive, tables
  <2>4. ASSUME NEW q \in Requests, Serve(q)  PROVE NoConnectionAdrift'
    <3>1. CASE ValidateSource(q) \/ LoadConnections(q) \/ LoadEndpoint(q)
      BY <2>1, <3>1 DEF ValidateSource, LoadConnections, LoadEndpoint, Refuse, Checked,
                        Overlooked, tables, history
    <3>2. CASE ValidateDefault(q) \/ DefaultToFirst(q) \/ ValidateRole(q)
      BY <2>1, <3>2 DEF ValidateDefault, DefaultToFirst, ValidateRole, Refuse, Checked,
                        Overlooked, tables, history
    <3>3. CASE InsertSource(q) \/ UpdateSource(q) \/ InsertEndpoint(q)
      BY <2>1, <3>3 DEF InsertSource, UpdateSource, InsertEndpoint, Bounded, Refuse,
                        tables, history
    <3>4. CASE UpdateEndpoint(q) \/ DeleteEndpoint(q)
      BY <2>1, <3>4 DEF UpdateEndpoint, DeleteEndpoint
    <3>5. CASE Connect(q) \/ FindConnection(q) \/ Disconnect(q)
      BY <2>1, <3>5 DEF Connect, FindConnection, Disconnect, Refuse, Checked, tables, history
    <3>6. CASE InsertConnection(q)
      <4>1. CASE Refuse(q)  BY <2>1, <4>1 DEF Refuse, tables, history
      <4>2. CASE ~Refuse(q)
        <5>1. PICK k \in ConnIds \ (DOMAIN conns \cup Held) :
                     /\ conns' = With(conns, k, req[q].order.rhcId)
                     /\ fresh' = fresh \cup {k} /\ UNCHANGED <<links, raced>>
          BY <3>6, <4>2 DEF InsertConnection, Bounded, history
        <5>. QED  BY <5>1 DEF NoConnectionAdrift, With
      <4>. QED  BY <4>1, <4>2
    <3>7. CASE RollBack(q)
      BY <3>7 DEF RollBack, Without, NoConnectionAdrift, history
    <3>8. CASE Link(q)
      <4>1. /\ links \subseteq links' /\ UNCHANGED <<conns, raced>>
            /\ fresh' = fresh \ {req[q].id}
        BY <3>8 DEF Link
      <4>2. \E l \in links' : l.conn = req[q].id
        <5>. DEFINE l == [source |-> req[q].order.source, conn |-> req[q].id,
                          tenant |-> req[q].order.tenant]
        <5>1. l \in links'  BY <3>8 DEF Link
        <5>2. l.conn = req[q].id  OBVIOUS
        <5>. HIDE DEF l
        <5>. QED  BY <5>1, <5>2
      <4>3. ASSUME raced = {}, NEW k \in DOMAIN conns \ fresh'
            PROVE  \E l \in links' : l.conn = k
        <5>1. CASE k = req[q].id  BY <4>2, <5>1
        <5>2. CASE k # req[q].id  BY <4>1, <4>3, <5>2 DEF NoConnectionAdrift
        <5>. QED  BY <5>1, <5>2
      <4>. QED  BY <4>1, <4>3 DEF NoConnectionAdrift
    <3>9. CASE DeleteConnection(q)
      BY <3>9 DEF DeleteConnection, Without, NoConnectionAdrift
    <3>10. CASE DeleteSource(q)
      <4>1. Ready(q) /\ req[q].order.kind = "deleteSource" /\ req[q].pc = "write"
        BY <3>10 DEF DeleteSource, At, Active, LinksInv, RequestsReady
      <4>2. raced = {} => \A l \in links : l.source = req[q].order.id => l.conn \in req[q].seen
        BY <4>1 DEF Ready, ConnectionsSeen
      <4>. QED  BY <3>10, <4>2 DEF DeleteSource, Without, NoConnectionAdrift
    <3>11. CASE Fail(q)  BY <2>1, <3>11 DEF Fail, Refuse, tables, history
    <3>. QED
      BY <2>4, <3>1, <3>2, <3>3, <3>4, <3>5, <3>6, <3>7, <3>8, <3>9, <3>10, <3>11
      DEF Serve
  <2>. QED  BY <2>2, <2>3, <2>4 DEF Next
<1>. QED  BY <1>1, <1>2, LinksSafe, PTL DEF Spec

(* Only a deletion takes links away, and it holds its tenant's partners.    *)
LEMMA StepPartners ==
    ASSUME LinksInv, [Next]_vars
    PROVE  \A l \in links \ links' :
               l.source \in DOMAIN sources' =>
                 \E q \in Requests :
                     /\ req[q].pc = "write" /\ req'[q].pc = "idle"
                     /\ [tenant |-> req[q].order.tenant, conn |-> l.conn] \in partners
<1>. DEFINE Unlinked ==
             \A l \in links \ links' :
               l.source \in DOMAIN sources' =>
                 \E q \in Requests :
                     /\ req[q].pc = "write" /\ req'[q].pc = "idle"
                     /\ [tenant |-> req[q].order.tenant, conn |-> l.conn] \in partners
<1>. SUFFICES Unlinked
  OBVIOUS
<1>1. ASSUME links \subseteq links'  PROVE Unlinked
  BY <1>1
<1>2. CASE UNCHANGED vars  BY <1>1, <1>2 DEF vars
<1>3. ASSUME NEW q \in Requests, NEW o \in workload, Receive(q, o)
      PROVE  Unlinked
  BY <1>1, <1>3 DEF Receive, tables
<1>4. ASSUME NEW q \in Requests, Serve(q)  PROVE Unlinked
  <2>1. CASE ValidateSource(q) \/ LoadConnections(q) \/ LoadEndpoint(q)
    BY <1>1, <2>1 DEF ValidateSource, LoadConnections, LoadEndpoint, Refuse, Checked,
                      Overlooked, tables
  <2>2. CASE ValidateDefault(q) \/ DefaultToFirst(q) \/ ValidateRole(q)
    BY <1>1, <2>2 DEF ValidateDefault, DefaultToFirst, ValidateRole, Refuse, Checked,
                      Overlooked, tables
  <2>3. CASE InsertSource(q) \/ UpdateSource(q) \/ InsertEndpoint(q)
    BY <1>1, <2>3 DEF InsertSource, UpdateSource, InsertEndpoint, Bounded, Refuse, tables
  <2>4. CASE UpdateEndpoint(q) \/ DeleteEndpoint(q)
    BY <1>1, <2>4 DEF UpdateEndpoint, DeleteEndpoint
  <2>5. CASE Connect(q) \/ FindConnection(q) \/ Disconnect(q)
    BY <1>1, <2>5 DEF Connect, FindConnection, Disconnect, Refuse, Checked, tables
  <2>6. CASE InsertConnection(q) \/ RollBack(q) \/ Link(q)
    BY <1>1, <2>6 DEF InsertConnection, RollBack, Link, Bounded, Refuse, tables
  <2>7. CASE DeleteSource(q) \/ DeleteConnection(q)
    <3>1. /\ TypeOK /\ Ready(q) /\ req[q].pc = "write" /\ End(q)
          /\ req[q].order.kind \in {"deleteSource", "disconnect"}
      BY <2>7 DEF DeleteSource, DeleteConnection, At, Active, LinksInv, RequestsReady
    <3>2. req'[q].pc = "idle"  BY <3>1 DEF End, TypeOK, Idle
    <3>3. ASSUME NEW l \in links \ links', l.source \in DOMAIN sources'
          PROVE  [tenant |-> req[q].order.tenant, conn |-> l.conn] \in partners
      <4>1. l.conn \in DOMAIN conns  BY DEF LinksInv
      <4>2. CASE DeleteSource(q)
        <5>1. req[q].order.kind = "deleteSource" /\ l.conn \in req[q].seen
          BY <3>3, <4>2 DEF DeleteSource, At, Without
        <5>. QED  BY <3>1, <4>1, <5>1 DEF Ready, ConnectionsSeen
      <4>3. CASE DeleteConnection(q)
        <5>1. req[q].order.kind = "disconnect" /\ l.conn = req[q].order.id
          BY <3>3, <4>3 DEF DeleteConnection, At
        <5>. QED  BY <3>1, <4>1, <5>1 DEF Ready, ConnectionsSeen
      <4>. QED  BY <2>7, <4>2, <4>3
    <3>. QED  BY <3>1, <3>2, <3>3
  <2>8. CASE Fail(q)  BY <1>1, <2>8 DEF Fail, Refuse, tables
  <2>. QED  BY <1>4, <2>1, <2>2, <2>3, <2>4, <2>5, <2>6, <2>7, <2>8 DEF Serve
<1>. QED  BY <1>2, <1>3, <1>4 DEF Next

(* A link that goes while its source stays is taken by a request of a       *)
(* tenant that has been linked to the connection: the deletion of the      *)
(* connection, or of another source that shares it.                        *)
THEOREM UnlinkedByPartners == Spec => OnlyPartnersUnlink
<1>1. LinksInv /\ [Next]_vars =>
        [\A l \in links \ links' :
           l.source \in DOMAIN sources' =>
             \E q \in Requests :
                 /\ req[q].pc = "write" /\ req'[q].pc = "idle"
                 /\ [tenant |-> req[q].order.tenant, conn |-> l.conn] \in partners]_vars
  BY StepPartners
<1>. QED  BY <1>1, LinksSafe, PTL DEF Spec, OnlyPartnersUnlink
=============================================================================
