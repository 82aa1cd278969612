------------------------------- MODULE Links -------------------------------
(***************************************************************************)
(* Requests that look before they write: the creation and edition of       *)
(* sources, whose name is unique in a tenant; of endpoints, of which a     *)
(* source has one default and one per role; and the Red Hat Connector      *)
(* connections, rows shared by the tenants whose sources link to them.     *)
(*                                                                         *)
(* Names, roles and defaults are looked up in queries of their own before  *)
(* the insert and no index backs them; a lookup that fails counts as       *)
(* "free", and that of a name does not see the sources of other users. The *)
(* identifier of a connection and its links have unique indexes and        *)
(* foreign keys, and are written in one transaction. The deletion of a     *)
(* source is split where the links matter: the query for its connections,  *)
(* and the rest (CascadeDelete has the other steps of it). The ids of rows *)
(* are reused, never one that a request still holds: an abstraction of a   *)
(* sequence that keeps growing.                                            *)
(***************************************************************************)
EXTENDS Naturals, FiniteSets, TLC

CONSTANTS
    SourceIds, EndpointIds, ConnIds,  \* primary keys (bounds on the tables)
    Tenants, Users,                   \* whose requests and rows
    Names, Roles, RhcIds,             \* what clients choose from
    Workloads,  \* sets of orders; the clients of a behaviour keep to one
    Requests,   \* requests served at the same time (a bound)
    Nil

(* Nil is the user of a request without one and of the rows that all users  *)
(* of the tenant share. A source is looked up as the user of the request;   *)
(* only the bulk creation, which looks it up as nobody, gives it an owner.  *)
Somebody == Users \cup {Nil}

Orders ==
    {o \in [kind : {"createSource"}, tenant : Tenants, user : Somebody, owner : Somebody,
            name : Names] : Nil \in {o.user, o.owner}}
    \cup [kind : {"renameSource"}, tenant : Tenants, user : Somebody, id : SourceIds,
          name : Names]
    \cup [kind : {"deleteSource"}, tenant : Tenants, user : Somebody, id : SourceIds]
    \cup [kind : {"createEndpoint"}, tenant : Tenants, user : Somebody, source : SourceIds,
          role : Roles, default : BOOLEAN]
    \cup [kind : {"editEndpoint"}, tenant : Tenants, id : EndpointIds,
          role : Roles \cup {Nil}, default : BOOLEAN \cup {Nil}]
    \cup [kind : {"deleteEndpoint"}, tenant : Tenants, id : EndpointIds]
    \cup [kind : {"connect"}, tenant : Tenants, source : SourceIds, rhcId : RhcIds]
    \cup [kind : {"disconnect"}, tenant : Tenants, id : ConnIds]

ASSUME LinksAssumption ==
    /\ \A w \in Workloads : w \subseteq Orders
    /\ Nil \notin SourceIds \cup EndpointIds \cup ConnIds \cup Roles
    /\ Nil \notin BOOLEAN

VARIABLES
    sources,    \* the rows, by id
    endpoints,
    conns,      \* the identifier of each connection, by id
    links,      \* the rows of source_rhc_connections
    fresh,      \* the connections inserted by a transaction still open
    req,        \* what each request is doing
    workload,   \* the orders of the clients of this behaviour
    raced,      \* tenants and sources of which two requests have overlapped
    misled,     \* tenants and sources of which a failing lookup missed a row
    unset,      \* sources whose default was unset or deleted since their first
    partners    \* the tenants that have ever had a link to a connection

vars == <<sources, endpoints, conns, links, fresh, req, workload, raced, misled,
          unset, partners>>
history == <<raced, misled, unset, partners>>
tables == <<sources, endpoints, conns, links, fresh>>

Sources   == [tenant : Tenants, user : Somebody, name : Names]
Endpoints == [source : SourceIds, role : Roles, default : BOOLEAN]
Links     == [source : SourceIds, conn : ConnIds, tenant : Tenants]

Idle == [pc |-> "idle"]
Busy == {"check", "default", "first", "role", "find", "insert", "link", "write"}

(* A request at work: its order, what the order is about, the endpoint it   *)
(* has loaded, the connection it links and those it deletes.                *)
Working == [pc : Busy, order : Orders, scope : SUBSET (Tenants \cup SourceIds),
            copy : Endpoints \cup {Nil}, id : ConnIds \cup {Nil},
            seen : SUBSET ConnIds]

-----------------------------------------------------------------------------
(* Queries. *)

\* The source, for the queries that look at the tenant alone.
SourceExists(t, s) == s \in DOMAIN sources /\ sources[s].tenant = t

\* The source, for the queries that look at the tenant and the user.
SourceVisible(t, u, s) == SourceExists(t, s) /\ sources[s].user \in {Nil, u}

NameExistsInCurrentTenant(t, u, n) ==
    \E s \in DOMAIN sources : SourceVisible(t, u, s) /\ sources[s].name = n

EndpointsOf(s) == {e \in DOMAIN endpoints : endpoints[e].source = s}

\* Endpoints carry the tenant of their source.
EndpointExists(t, e) ==
    e \in DOMAIN endpoints /\ SourceExists(t, endpoints[e].source)

CanEndpointBeSetAsDefaultForSource(s) ==
    \A e \in EndpointsOf(s) : ~endpoints[e].default

SourceHasEndpoints(s) == EndpointsOf(s) # {}

IsRoleUniqueForSource(r, s) == \A e \in EndpointsOf(s) : endpoints[e].role # r

\* Faulty variant: the tenant of the link is not looked at.
ConnectionExistsForAnyone(t, k) == \E l \in links : l.conn = k

\* Connections are seen by the tenants that have a link to them.
ConnectionExists(t, k) == \E l \in links : l.conn = k /\ l.tenant = t

ConnectionsForSource(t, s) ==
    {l.conn : l \in {m \in links : m.source = s /\ m.tenant = t}}

-----------------------------------------------------------------------------
(* Requests. *)

At(q, kind, pc) == req[q].pc = pc /\ req[q].order.kind = kind
Goto(q, pc) == req' = [req EXCEPT ![q].pc = pc]
End(q) == req' = [req EXCEPT ![q] = Idle]

\* The tenant's names, or the source whose rows an order is about.
Scope(o) ==
    CASE o.kind \in {"createSource", "renameSource"} -> {o.tenant}
      [] o.kind = "deleteSource" -> {o.id}
      [] o.kind \in {"createEndpoint", "connect"} -> {o.source}
      [] o.kind \in {"editEndpoint", "deleteEndpoint"} ->
            {endpoints[e].source : e \in DOMAIN endpoints \cap {o.id}}
      [] OTHER -> {}

\* Ids that requests at work still hold.
Held == UNION {{req[q].order[f] : f \in DOMAIN req[q].order \cap {"id", "source"}}
                  \cup {req[q].id} \cup req[q].seen : q \in {p \in Requests : req[p].pc # "idle"}}

Init ==
    /\ sources = <<>> /\ endpoints = <<>> /\ conns = <<>>
    /\ links = {} /\ fresh = {}
    /\ req = [q \in Requests |-> Idle]
    /\ workload \in Workloads
    /\ raced = {} /\ misled = {} /\ unset = {} /\ partners = {}

Receive(q, o) ==
    /\ req[q].pc = "idle"
    /\ req' = [req EXCEPT ![q] = [pc |-> "check", order |-> o, scope |-> Scope(o),
                                  copy |-> Nil, id |-> Nil, seen |-> {}]]
    /\ raced' = raced \cup
         {x \in Scope(o) : \E p \in Requests : req[p].pc # "idle" /\ x \in req[p].scope}
    /\ UNCHANGED <<tables, misled, unset, partners>>

\* The request ends with an error and nothing is written.
Refuse(q) == End(q) /\ UNCHANGED <<tables, history>>

\* The bound on the tables: when every id is taken a creation is refused.
Bounded(q, free) == free = {} /\ Refuse(q)

Checked(q, pc) == Goto(q, pc) /\ UNCHANGED <<tables, history>>

\* A lookup fails, which counts as "free": what it should have found is missed.
Overlooked(q, pc, x) ==
    /\ Goto(q, pc)
    /\ misled' = misled \cup {x}
    /\ UNCHANGED <<tables, raced, unset, partners>>

\* Any other call that fails ends the request.
Fail(q) == req[q].pc \notin {"idle", "link"} /\ Refuse(q)

\* A table after an insert, and after a delete.
With(table, id, row) ==
    [x \in DOMAIN table \cup {id} |-> IF x = id THEN row ELSE table[x]]

Without(table, ids) == [x \in DOMAIN table \ ids |-> table[x]]

-----------------------------------------------------------------------------
(* Sources: SourceCreate, SourceEdit (of its name) and SourceDelete. *)

ValidateSource(q) ==
    LET o == req[q].order IN
    /\ req[q].pc = "check"
    /\ o.kind \in {"createSource", "renameSource"}
    /\ IF o.kind = "renameSource" /\ ~SourceVisible(o.tenant, o.user, o.id) THEN Refuse(q)
       ELSE IF NameExistsInCurrentTenant(o.tenant, o.user, o.name)
       THEN Refuse(q) \/ Overlooked(q, "write", o.tenant)
       ELSE Checked(q, "write")

InsertSource(q) ==
    LET free == SourceIds \ (DOMAIN sources \cup Held)
        o    == req[q].order
    IN
    /\ At(q, "createSource", "write")
    /\ \/ Bounded(q, free)
       \/ /\ \E s \in free : sources' = With(sources, s, [tenant |-> o.tenant, user |-> o.owner,
                                                            name |-> o.name])
          /\ End(q)
          /\ UNCHANGED <<endpoints, conns, links, fresh, history>>

\* An update of a row that is gone changes nothing and is no error.
UpdateSource(q) ==
    LET o == req[q].order IN
    /\ At(q, "renameSource", "write")
    /\ sources' = IF SourceVisible(o.tenant, o.user, o.id)
                    THEN [sources EXCEPT ![o.id].name = o.name] ELSE sources
    /\ End(q)
    /\ UNCHANGED <<endpoints, conns, links, fresh, history>>

(* The existence of the source and, in the transaction of DeleteCascade,    *)
(* its connections.                                                         *)
LoadConnections(q) ==
    LET o == req[q].order IN
    /\ At(q, "deleteSource", "check")
    /\ IF ~SourceVisible(o.tenant, o.user, o.id) THEN Refuse(q)
       ELSE /\ req' = [req EXCEPT ![q].pc = "write",
                         ![q].seen = ConnectionsForSource(o.tenant, o.id)]
            /\ UNCHANGED <<tables, history>>

\* Faulty variant: the connections stay when the source goes.
DeleteSourceKeepingConnections(q) ==
    LET s == req[q].order.id IN
    /\ At(q, "deleteSource", "write")
    /\ sources' = Without(sources, {s})
    /\ endpoints' = Without(endpoints, EndpointsOf(s))
    /\ links' = {l \in links : l.source # s}
    /\ unset' = unset \ {s}
    /\ End(q)
    /\ UNCHANGED <<conns, fresh, raced, misled, partners>>

\* The links of the source and of its connections go with their rows.
DeleteSource(q) ==
    LET s == req[q].order.id IN
    /\ At(q, "deleteSource", "write")
    /\ sources' = Without(sources, {s})
    /\ endpoints' = Without(endpoints, EndpointsOf(s))
    /\ conns' = Without(conns, req[q].seen)
    /\ links' = {l \in links : l.source # s /\ l.conn \notin req[q].seen}
    /\ unset' = unset \ {s}
    /\ partners' = {p \in partners : p.conn \notin req[q].seen}
    /\ End(q)
    /\ UNCHANGED <<fresh, raced, misled>>

-----------------------------------------------------------------------------
(* Endpoints: the four queries of the validation, then the write. *)

LoadEndpoint(q) ==
    LET o == req[q].order IN
    /\ req[q].pc = "check"
    /\ \/ /\ o.kind = "createEndpoint"
          /\ IF ~SourceVisible(o.tenant, o.user, o.source) THEN Refuse(q)
             ELSE /\ req' = [req EXCEPT ![q].pc = "default",
                               ![q].copy = [source |-> o.source, role |-> o.role,
                                            default |-> o.default]]
                  /\ UNCHANGED <<tables, history>>
       \/ /\ o.kind \in {"editEndpoint", "deleteEndpoint"}
          /\ IF ~EndpointExists(o.tenant, o.id) THEN Refuse(q)
             ELSE /\ req' = [req EXCEPT ![q].copy = endpoints[o.id],
                               ![q].pc = IF o.kind = "editEndpoint" THEN "default"
                                                                    ELSE "write"]
                  /\ UNCHANGED <<tables, history>>

\* Faulty variant: the edition does not look for the default of the source.
ValidateDefaultOfNew(q) ==
    LET o == req[q].order IN
    /\ req[q].pc = "default"
    /\ IF /\ o.kind = "createEndpoint" /\ o.default = TRUE
          /\ ~CanEndpointBeSetAsDefaultForSource(req[q].copy.source)
         THEN Refuse(q)
         ELSE Checked(q, IF o.kind = "createEndpoint" THEN "first" ELSE "role")

\* Only an order that asks for the default is checked against it.
ValidateDefault(q) ==
    LET o    == req[q].order
        s    == req[q].copy.source
        then == IF o.kind = "createEndpoint" THEN "first" ELSE "role"
    IN
    /\ req[q].pc = "default"
    /\ IF o.default = TRUE /\ ~CanEndpointBeSetAsDefaultForSource(s)
         THEN Refuse(q) \/ Overlooked(q, then, s)
         ELSE Checked(q, then)

(* The first endpoint of a source is its default, whatever was asked; so is *)
(* a later one when the lookup of the others fails.                         *)
DefaultToFirst(q) ==
    LET s == req[q].copy.source IN
    /\ req[q].pc = "first"
    /\ \E first \in {~SourceHasEndpoints(s), TRUE} :
         /\ req' = [req EXCEPT ![q].pc = "role", ![q].copy.default = @ \/ first]
         /\ misled' = IF first /\ SourceHasEndpoints(s) THEN misled \cup {s} ELSE misled
    /\ UNCHANGED <<tables, raced, unset, partners>>

\* The role of the edited endpoint itself counts too.
ValidateRole(q) ==
    LET o == req[q].order
        s == req[q].copy.source
    IN
    /\ req[q].pc = "role"
    /\ IF o.role # Nil /\ ~IsRoleUniqueForSource(o.role, s)
         THEN Refuse(q) \/ Overlooked(q, "write", s)
         ELSE Checked(q, "write")

\* The default of s is gone; without endpoints, s starts afresh.
Unset(s) ==
    LET left     == {e \in DOMAIN endpoints' : endpoints'[e].source = s}
        defaults == {e \in EndpointsOf(s) : endpoints[e].default}
    IN  unset' = IF left = {} THEN unset \ {s}
                 ELSE IF \E e \in defaults : e \in left => ~endpoints'[e].default
                 THEN unset \cup {s}
                 ELSE unset

\* The foreign key refuses the endpoint of a source that is gone.
InsertEndpoint(q) ==
    LET free == EndpointIds \ (DOMAIN endpoints \cup Held) IN
    /\ At(q, "createEndpoint", "write")
    /\ \/ Bounded(q, free)
       \/ /\ req[q].copy.source \notin DOMAIN sources
          /\ Refuse(q)
       \/ /\ req[q].copy.source \in DOMAIN sources
          /\ \E e \in free : endpoints' = With(endpoints, e, req[q].copy)
          /\ End(q)
          /\ UNCHANGED <<sources, conns, links, fresh, history>>

\* The whole row is written, with what was loaded before the validation.
UpdateEndpoint(q) ==
    LET o == req[q].order
        s == req[q].copy.source
        set(f) == IF o[f] = Nil THEN req[q].copy[f] ELSE o[f]
    IN
    /\ At(q, "editEndpoint", "write")
    /\ endpoints' = IF o.id \in DOMAIN endpoints
                      THEN [endpoints EXCEPT ![o.id] =
                              [source |-> s, role |-> set("role"),
                               default |-> set("default")]]
                      ELSE endpoints
    /\ Unset(s)
    /\ End(q)
    /\ UNCHANGED <<sources, conns, links, fresh, raced, misled, partners>>

DeleteEndpoint(q) ==
    /\ At(q, "deleteEndpoint", "write")
    /\ endpoints' = Without(endpoints, {req[q].order.id})
    /\ Unset(req[q].copy.source)
    /\ End(q)
    /\ UNCHANGED <<sources, conns, links, fresh, raced, misled, partners>>

-----------------------------------------------------------------------------
(* Connections. *)

Connect(q) ==
    LET o == req[q].order IN
    /\ At(q, "connect", "check")
    /\ IF SourceExists(o.tenant, o.source) THEN Checked(q, "find") ELSE Refuse(q)

WithRhcId(x) == {k \in DOMAIN conns : conns[k] = x}

(* FirstOrCreate: a query that does not see the rows of open transactions,  *)
(* and an insert that waits for them and then finds the unique index taken. *)
FindConnection(q) ==
    LET found == WithRhcId(req[q].order.rhcId) \ fresh IN
    /\ At(q, "connect", "find")
    /\ IF found = {} THEN Checked(q, "insert")
       ELSE /\ \E k \in found : req' = [req EXCEPT ![q].pc = "link", ![q].id = k]
            /\ UNCHANGED <<tables, history>>

InsertConnection(q) ==
    LET x    == req[q].order.rhcId
        free == ConnIds \ (DOMAIN conns \cup Held)
    IN
    /\ At(q, "connect", "insert")
    /\ WithRhcId(x) \cap fresh = {}
    /\ \/ Bounded(q, free)
       \/ /\ WithRhcId(x) # {}
          /\ Refuse(q)
       \/ /\ WithRhcId(x) = {}
          /\ \E k \in free :
               /\ conns' = With(conns, k, x)
               /\ fresh' = fresh \cup {k}
               /\ req' = [req EXCEPT ![q].pc = "link", ![q].id = k]
          /\ UNCHANGED <<sources, endpoints, links, history>>

\* The transaction fails, or the link is there already: all is rolled back.
RollBack(q) ==
    /\ At(q, "connect", "link")
    /\ conns' = Without(conns, {req[q].id} \cap fresh)
    /\ fresh' = fresh \ {req[q].id}
    /\ End(q)
    /\ UNCHANGED <<sources, endpoints, links, history>>

\* Faulty variant: a link is inserted although its connection is gone.
LinkUnchecked(q) ==
    LET o == req[q].order
        l == [source |-> o.source, conn |-> req[q].id, tenant |-> o.tenant]
    IN
    /\ At(q, "connect", "link")
    /\ links' = links \cup {l}
    /\ fresh' = fresh \ {l.conn}
    /\ partners' = partners \cup {[tenant |-> l.tenant, conn |-> l.conn]}
    /\ End(q)
    /\ UNCHANGED <<sources, endpoints, conns, raced, misled, unset>>

\* The link is inserted, with both its foreign keys, and committed.
Link(q) ==
    LET o == req[q].order
        l == [source |-> o.source, conn |-> req[q].id, tenant |-> o.tenant]
    IN
    /\ At(q, "connect", "link")
    /\ l.source \in DOMAIN sources
    /\ l.conn \in DOMAIN conns
    /\ \A m \in links : <<m.source, m.conn>> # <<l.source, l.conn>>
    /\ links' = links \cup {l}
    /\ fresh' = fresh \ {l.conn}
    /\ partners' = partners \cup {[tenant |-> l.tenant, conn |-> l.conn]}
    /\ End(q)
    /\ UNCHANGED <<sources, endpoints, conns, raced, misled, unset>>

Disconnect(q) ==
    LET o == req[q].order IN
    /\ At(q, "disconnect", "check")
    /\ IF ConnectionExists(o.tenant, o.id) THEN Checked(q, "write") ELSE Refuse(q)

\* The row and, with it, the links of every tenant.
DeleteConnection(q) ==
    LET k == req[q].order.id IN
    /\ At(q, "disconnect", "write")
    /\ conns' = Without(conns, {k})
    /\ links' = {l \in links : l.conn # k}
    /\ partners' = {p \in partners : p.conn # k}
    /\ End(q)
    /\ UNCHANGED <<sources, endpoints, fresh, raced, misled, unset>>

-----------------------------------------------------------------------------
Serve(q) ==
    \/ ValidateSource(q) \/ InsertSource(q) \/ UpdateSource(q)
    \/ LoadConnections(q) \/ DeleteSource(q)
    \/ LoadEndpoint(q) \/ ValidateDefault(q) \/ DefaultToFirst(q) \/ ValidateRole(q)
    \/ InsertEndpoint(q) \/ UpdateEndpoint(q) \/ DeleteEndpoint(q)
    \/ Connect(q) \/ FindConnection(q) \/ InsertConnection(q) \/ RollBack(q) \/ Link(q)
    \/ Disconnect(q) \/ DeleteConnection(q)
    \/ Fail(q)

Next ==
    /\ UNCHANGED workload
    /\ \E q \in Requests : Serve(q) \/ \E o \in workload : Receive(q, o)

Spec == Init /\ [][Next]_vars

-----------------------------------------------------------------------------
TypeOK ==
    /\ sources \in [DOMAIN sources -> Sources] /\ DOMAIN sources \subseteq SourceIds
    /\ endpoints \in [DOMAIN endpoints -> Endpoints]
    /\ DOMAIN endpoints \subseteq EndpointIds
    /\ conns \in [DOMAIN conns -> RhcIds] /\ DOMAIN conns \subseteq ConnIds
    /\ links \subseteq Links
    /\ fresh \subseteq DOMAIN conns
    /\ req \in [Requests -> Working \cup {Idle}]
    /\ workload \subseteq Orders
    /\ raced \cup misled \subseteq Tenants \cup SourceIds /\ unset \subseteq DOMAIN sources
    /\ partners \subseteq [tenant : Tenants, conn : ConnIds]

Active(q) == req[q].pc # "idle"

Loaded(q) == req[q].pc \in {"default", "first", "role", "write"}

(* Tenants and sources of which nothing can be said of what is looked up.   *)
Unsure == raced \cup misled

(* What a request that overlapped none about the same tenant or source has  *)
(* looked up is still so when it writes, unless a lookup failed.            *)
NameFree(q) ==
    req[q].order.kind \in {"createSource", "renameSource"} =>
        LET o == req[q].order IN
        /\ o.tenant \in req[q].scope
        /\ req[q].pc = "write" /\ o.tenant \notin Unsure =>
             ~NameExistsInCurrentTenant(o.tenant, o.user, o.name)

\* A new endpoint: its source, its default and its role.
EndpointFits(q) ==
    req[q].order.kind = "createEndpoint" =>
        LET c == req[q].copy
            s == req[q].order.source
        IN
        /\ s \in req[q].scope
        /\ Loaded(q) => c \in Endpoints /\ c.source = s /\ c.role = req[q].order.role
        /\ req[q].pc = "default" => c.default = req[q].order.default
        /\ s \notin Unsure =>
             /\ req[q].pc \in {"first", "role", "write"} /\ c.default =>
                    CanEndpointBeSetAsDefaultForSource(s)
             /\ req[q].pc \in {"role", "write"} /\ ~SourceHasEndpoints(s) => c.default
             /\ req[q].pc = "write" => IsRoleUniqueForSource(c.role, s)

(* One that is edited or deleted: its id is not given to another while the  *)
(* request holds it, so it is of the source that it was of when loaded.     *)
EndpointKept(q) ==
    req[q].order.kind \in {"editEndpoint", "deleteEndpoint"} =>
        LET o == req[q].order
            c == req[q].copy
        IN
        /\ o.id \in DOMAIN endpoints => endpoints[o.id].source \in req[q].scope
        /\ req[q].pc # "check" =>
             /\ Loaded(q) /\ c \in Endpoints /\ c.source \in req[q].scope
             /\ o.id \in DOMAIN endpoints =>
                  /\ endpoints[o.id].source = c.source
                  /\ c.source \notin raced => endpoints[o.id] = c
             /\ o.kind = "editEndpoint" /\ c.source \notin Unsure =>
                  /\ req[q].pc \in {"role", "write"} /\ o.default = TRUE =>
                         CanEndpointBeSetAsDefaultForSource(c.source)
                  /\ req[q].pc = "write" /\ o.role # Nil =>
                         IsRoleUniqueForSource(o.role, c.source)

(* A deletion holds connections that its tenant has been linked to, and all *)
(* those of its source; none is of a transaction that is still open.        *)
ConnectionsSeen(q) ==
    /\ req[q].order.kind = "deleteSource" =>
         /\ req[q].order.id \in req[q].scope
         /\ req[q].pc = "write" =>
              /\ req[q].seen \cap fresh = {}
              /\ \A k \in req[q].seen \cap DOMAIN conns :
                    [tenant |-> req[q].order.tenant, conn |-> k] \in partners
              /\ req[q].order.id \notin raced =>
                    \A l \in links : l.source = req[q].order.id => l.conn \in req[q].seen
    /\ req[q].order.kind = "disconnect" /\ req[q].pc = "write" =>
         /\ req[q].order.id \notin fresh
         /\ req[q].order.id \in DOMAIN conns =>
              [tenant |-> req[q].order.tenant, conn |-> req[q].order.id] \in partners

(* The source that is linked is of the tenant, or gone.                     *)
SourceChecked(q) ==
    req[q].order.kind = "connect" =>
        LET o == req[q].order IN
        /\ o.source \in req[q].scope
        /\ req[q].pc # "check" /\ o.source \in DOMAIN sources =>
             sources[o.source].tenant = o.tenant

Ready(q) ==
    /\ NameFree(q) /\ EndpointFits(q) /\ EndpointKept(q) /\ ConnectionsSeen(q)
    /\ SourceChecked(q)
    /\ req[q].pc \in {"default", "role"} =>
          req[q].order.kind \in {"createEndpoint", "editEndpoint"}
    /\ req[q].pc = "first" => req[q].order.kind = "createEndpoint"

RequestsReady ==
    /\ \A q \in Requests : Active(q) => Ready(q)
    /\ \A p, q \in Requests : Active(p) /\ Active(q) /\ p # q =>
          req[p].scope \cap req[q].scope \subseteq raced

(* Whatever overlaps: a link joins two rows that exist and belongs to the   *)
(* tenant of its source, who becomes a partner of the connection; an        *)
(* endpoint has a source; a connection identifier is stored once, and the   *)
(* links of one source and connection are one. For all of it a request      *)
(* keeps what it has checked.                                               *)
LinksInv ==
    /\ TypeOK
    /\ \A l \in links : /\ SourceExists(l.tenant, l.source)
                        /\ l.conn \in DOMAIN conns \ fresh
                        /\ [tenant |-> l.tenant, conn |-> l.conn] \in partners
    /\ \A e \in DOMAIN endpoints : endpoints[e].source \in DOMAIN sources
    /\ \A k, m \in DOMAIN conns : conns[k] = conns[m] => k = m
    /\ \A l, m \in links : l.source = m.source /\ l.conn = m.conn => l = m
    /\ RequestsReady

\* Of the sources that the users of the tenant share.
UniqueNames(t) ==
    \A s, v \in DOMAIN sources :
        SourceVisible(t, Nil, s) /\ sources[s] = sources[v] => s = v

UniqueEndpoints(s) ==
    LET defaults == {e \in EndpointsOf(s) : endpoints[e].default}
    IN  /\ \A e, f \in EndpointsOf(s) : endpoints[e].role = endpoints[f].role => e = f
        /\ \A e, f \in defaults : e = f
        /\ EndpointsOf(s) # {} /\ s \notin unset => defaults # {}

(* The names of shared sources, the roles and the default stay unique as    *)
(* long as no two requests about them overlapped and no lookup that failed  *)
(* was taken for "free", in any sequence of creations, editions and         *)
(* deletions by any users, and a source with endpoints has a default until  *)
(* that is unset or deleted.                                                *)
UniqueUnlessRaced ==
    /\ \A t \in Tenants \ Unsure : UniqueNames(t)
    /\ \A s \in DOMAIN sources \ Unsure : UniqueEndpoints(s)

(* No connection is left that no tenant sees and none can delete, unless    *)
(* the deletion of a source overlapped a request that linked it.            *)
NoConnectionAdrift ==
    raced = {} => \A k \in DOMAIN conns \ fresh : \E l \in links : l.conn = k

(* A tenant loses a link only with its source, or by a request of a tenant  *)
(* that has itself been linked to the connection.                           *)
OnlyPartnersUnlink ==
    [][\A l \in links \ links' :
         l.source \in DOMAIN sources' =>
           \E q \in Requests :
               /\ req[q].pc = "write" /\ req'[q].pc = "idle"
               /\ [tenant |-> req[q].order.tenant, conn |-> l.conn] \in partners]_vars
=============================================================================
