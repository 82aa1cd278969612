------------------------------ MODULE Tenants ------------------------------
(***************************************************************************)
(* How a request and a status message find their tenant and their user:    *)
(* the middlewares that look the tenant up by org id and by EBS account    *)
(* number and create it, the user that is found or created under it, the   *)
(* lookup of the status listener, and the job that asks an external        *)
(* service for the org ids of the tenants that only have an account        *)
(* number. Every statement of a request is a transaction of its own; the   *)
(* translation is one transaction that other statements run next to.       *)
(***************************************************************************)
EXTENDS TenantMigrations

CONSTANTS
    Clients,     \* the requests, each sent again when it fails, and messages
    Identities,  \* what the headers of requests carry
    Senders,     \* what those of messages carry
    OrgOf,       \* the org id the service has for an account number
    Refresh,     \* the values HandleTenantRefresh may have
    BatchSize,   \* how many tenants are translated at a time, 100 in the code
    MaxFaults    \* failing statements (a bound)

Customers == Orgs

ASSUME RequestAssumption ==
    /\ \A id \in Identities \cup Senders : /\ id.account \in Accounts \cup {Nil}
                                         /\ id.org \in Orgs \cup {Nil}
                                         /\ id.user \in Users \cup {Nil}
    /\ OrgOf \in [Accounts -> Orgs]
    /\ Refresh \subseteq BOOLEAN
    /\ BatchSize \in Nat \ {0}
    /\ MaxFaults \in Nat

VARIABLES
    client,      \* what each request or message is doing
    translator,  \* the translation that is running
    faults,      \* how many statements have failed
    refresh      \* config HandleTenantRefresh

requestVars == <<client, translator, faults, refresh>>
vars == <<migrationVars, requestVars>>

-----------------------------------------------------------------------------
(* A request: its identity, the tenant it found and the tenant that had    *)
(* its org id when it came in (history).                                   *)
Nobody == [account |-> Nil, org |-> Nil, user |-> Nil]

Phases == {"idle", "byOrg", "byAccount", "insert", "user", "addUser",
           "served", "failed", "unauthorized", "heard"}

Requests == [pc : Phases, id : Identities \cup Senders \cup {Nobody},
             tenant : Ids \cup {Nil}, known : Ids \cup {Nil}]

Waiting == [pc |-> "idle", id |-> Nobody, tenant |-> Nil, known |-> Nil]

\* A table with a row inserted or updated.
With(table, id, row) ==
    [r \in DOMAIN table \cup {id} |-> IF r = id THEN row ELSE table[r]]

\* First(&tenant): the row with the smallest id.
First(found) == IF found = {} THEN Nil ELSE Min(found)

(* The translation: the account numbers of its batch, what it has written, *)
(* which nobody sees before the commit, and whether Postgres has aborted   *)
(* its transaction.                                                        *)
NotTranslating == [phase |-> "idle", batches |-> 0, todo |-> {}, written |-> <<>>,
                   aborted |-> FALSE]

Init ==
    /\ InitMigrations
    /\ client = [q \in Clients |-> Waiting]
    /\ translator = NotTranslating
    /\ faults = 0
    /\ refresh \in Refresh

-----------------------------------------------------------------------------
Serving == step = "serve"

At(q, pc) == client[q].pc = pc

Goto(q, pc) == client' = [client EXCEPT ![q].pc = pc]

Found(q, t, pc) == client' = [client EXCEPT ![q].tenant = t, ![q].pc = pc]

\* ParseHeaders, and the 401 of Tenancy for an identity with neither number.
Arrive(q, id) ==
    /\ Serving
    /\ At(q, "idle")
    /\ client' = [client EXCEPT ![q] =
                    [pc |-> IF id.account = Nil /\ id.org = Nil THEN "unauthorized"
                            ELSE "byOrg",
                     id |-> id, tenant |-> Nil, known |-> First(Holding("org", id.org))]]
    /\ UNCHANGED <<migrationVars, translator, faults, refresh>>

\* Faulty variant: the account number is looked up first.
FindByAccountFirst(q) ==
    /\ At(q, "byOrg")
    /\ LET t == First(Holding("account", client[q].id.account))
       IN  IF t # Nil THEN Found(q, t, "user") ELSE Goto(q, "byAccount")
    /\ UNCHANGED <<migrationVars, translator, faults, refresh>>

\* GetOrCreateTenant: the first statement.
FindByOrg(q) ==
    /\ At(q, "byOrg")
    /\ LET t == First(Holding("org", client[q].id.org))
       IN  IF t # Nil THEN Found(q, t, "user") ELSE Goto(q, "byAccount")
    /\ UNCHANGED <<migrationVars, translator, faults, refresh>>

\* Faulty variant: an empty account number finds a tenant without one.
FindByAccountOrNone(q) ==
    /\ At(q, "byAccount")
    /\ LET t == First({r \in DOMAIN tenants :
                         tenants[r].account = client[q].id.account})
       IN  IF t # Nil THEN Found(q, t, "user") ELSE Goto(q, "insert")
    /\ UNCHANGED <<migrationVars, translator, faults, refresh>>

\* The second one. The tenant it finds is not given the org id.
FindByAccount(q) ==
    /\ At(q, "byAccount")
    /\ LET t == First(Holding("account", client[q].id.account))
       IN  IF t # Nil THEN Found(q, t, "user") ELSE Goto(q, "insert")
    /\ UNCHANGED <<migrationVars, translator, faults, refresh>>

\* An uncommitted row with the same org id: the insert waits for its end.
Locked(org) ==
    /\ translator.phase \in {"batch", "results"}
    /\ \E t \in DOMAIN translator.written : translator.written[t] = org

\* The third one, which a unique index refuses: 500.
InsertTenant(q) ==
    LET id == client[q].id
        t  == Max(DOMAIN tenants \cup {0}) + 1
    IN  /\ At(q, "insert")
        /\ ~Locked(id.org)
        /\ IF Holding("org", id.org) \cup Holding("account", id.account) # {}
             THEN Goto(q, "failed") /\ UNCHANGED tenants
             ELSE /\ t \in Ids
                  /\ tenants' = With(tenants, t, [account |-> id.account, org |-> id.org])
                  /\ Found(q, t, "user")
    /\ UNCHANGED <<users, step, groups, before, translator, faults, refresh>>

(* UserCatcher: FindOrCreate of the user of the tenant, in two statements. *)
FindUser(q) ==
    LET user == client[q].id.user
    IN  /\ At(q, "user")
        /\ Goto(q, IF \/ user = Nil
                      \/ user \in DOMAIN users /\ users[user] = client[q].tenant
                     THEN "served" ELSE "addUser")
    /\ UNCHANGED <<migrationVars, translator, faults, refresh>>

\* Faulty variant: ON CONFLICT DO NOTHING.
AddUserIgnoringConflicts(q) ==
    LET user == client[q].id.user
    IN  /\ At(q, "addUser")
        /\ users' = IF user \in DOMAIN users THEN users
                    ELSE With(users, user, client[q].tenant)
        /\ Goto(q, "served")
    /\ UNCHANGED <<tenants, step, groups, before, translator, faults, refresh>>

\* Faulty variant: never ON CONFLICT.
AddUserOnce(q) ==
    LET user == client[q].id.user
    IN  /\ At(q, "addUser")
        /\ IF user \in DOMAIN users
             THEN Goto(q, "failed") /\ UNCHANGED users
             ELSE /\ users' = With(users, user, client[q].tenant)
                  /\ Goto(q, "served")
    /\ UNCHANGED <<tenants, step, groups, before, translator, faults, refresh>>

(* The user id is unique over all tenants. With HandleTenantRefresh a user *)
(* of another tenant is moved to this one, without it the insert fails.    *)
AddUser(q) ==
    LET user == client[q].id.user
    IN  /\ At(q, "addUser")
        /\ IF user \in DOMAIN users /\ ~refresh
             THEN Goto(q, "failed") /\ UNCHANGED users
             ELSE /\ users' = With(users, user, client[q].tenant)
                  /\ Goto(q, "served")
    /\ UNCHANGED <<tenants, step, groups, before, translator, faults, refresh>>

(* A statement fails: 500. The query for the user is the exception, any    *)
(* error of it is taken for "not found".                                   *)
Fail(q) ==
    /\ faults < MaxFaults
    /\ client[q].pc \in {"byOrg", "byAccount", "insert", "user", "addUser"}
    /\ At(q, "user") => client[q].id.user # Nil
    /\ Goto(q, IF At(q, "user") THEN "addUser" ELSE "failed")
    /\ faults' = faults + 1
    /\ UNCHANGED <<migrationVars, translator, refresh>>

\* The client sends a request that was answered with 500 again.
Retry(q) ==
    /\ At(q, "failed")
    /\ client' = [client EXCEPT ![q].pc = "byOrg", ![q].tenant = Nil,
                                ![q].known = First(Holding("org", client[q].id.org))]
    /\ UNCHANGED <<migrationVars, translator, faults, refresh>>

-----------------------------------------------------------------------------
(* The status listener: one query for the tenant with either number. A     *)
(* message with neither is refused, one that finds nothing is dropped.     *)
HearMessage(q, id) ==
    /\ Serving
    /\ At(q, "idle")
    /\ id.account # Nil \/ id.org # Nil
    /\ client' = [client EXCEPT ![q] =
                    [pc |-> "heard", id |-> id, known |-> First(Holding("org", id.org)),
                     tenant |-> First(Holding("org", id.org) \cup
                                      Holding("account", id.account))]]
    /\ UNCHANGED <<migrationVars, translator, faults, refresh>>

-----------------------------------------------------------------------------
\* The table as the transaction of the translation sees it.
Seen == [t \in DOMAIN tenants |->
           IF t \in DOMAIN translator.written
             THEN [tenants[t] EXCEPT !.org = translator.written[t]] ELSE tenants[t]]

Untranslated == {t \in DOMAIN tenants : Seen[t].account # Nil /\ Seen[t].org = Nil}

\* TranslateTenants begins: Count. Once in a behaviour (a bound).
CountTenants ==
    /\ Serving
    /\ translator.phase = "idle"
    /\ translator' = [NotTranslating EXCEPT
                        !.phase = "batch",
                        !.batches = (Cardinality(Untranslated) + BatchSize - 1) \div BatchSize]
    /\ UNCHANGED <<migrationVars, client, faults, refresh>>

(* Pluck runs before the Offset and the Limit that follow it are set: every *)
(* batch reads all the tenants that are left. In an aborted transaction it  *)
(* fails, as the whole translation does when the service does not answer.   *)
PluckAccounts ==
    /\ translator.phase = "batch"
    /\ translator.batches > 0
    /\ \/ translator' = [translator EXCEPT !.phase = "error", !.written = <<>>]
       \/ /\ ~translator.aborted
          /\ translator' = [translator EXCEPT
                              !.phase = "results", !.batches = @ - 1,
                              !.todo = {Seen[t].account : t \in Untranslated}]
    /\ UNCHANGED <<migrationVars, client, faults, refresh>>

\* The service has no org id for an account number.
SkipAccount(a) ==
    /\ translator.phase = "results"
    /\ a \in translator.todo
    /\ translator' = [translator EXCEPT !.todo = @ \ {a}]
    /\ UNCHANGED <<migrationVars, client, faults, refresh>>

(* The org id of an account number is written. A unique index may refuse   *)
(* it; the code goes on with the next one, but Postgres then refuses every *)
(* statement of the transaction.                                           *)
TranslateAccount(a) ==
    LET t == First({r \in DOMAIN tenants : tenants[r].account = a})
    IN  /\ translator.phase = "results"
        /\ a \in translator.todo \cap Accounts
        /\ translator' =
             IF translator.aborted \/ \E r \in DOMAIN tenants \ {t} : Seen[r].org = OrgOf[a]
               THEN [translator EXCEPT !.todo = @ \ {a}, !.aborted = TRUE]
               ELSE [translator EXCEPT !.todo = @ \ {a},
                                       !.written = With(@, t, OrgOf[a])]
    /\ UNCHANGED <<migrationVars, client, faults, refresh>>

EndBatch ==
    /\ translator.phase = "results"
    /\ translator.todo = {}
    /\ translator' = [translator EXCEPT !.phase = "batch"]
    /\ UNCHANGED <<migrationVars, client, faults, refresh>>

(* The commit; that of an aborted transaction is refused, and the answer is *)
(* an error.                                                               *)
CommitTranslation ==
    /\ translator.phase = "batch"
    /\ translator.batches = 0
    /\ translator' = [translator EXCEPT !.written = <<>>,
                         !.phase = IF translator.aborted THEN "error" ELSE "done"]
    /\ tenants' = IF translator.aborted THEN tenants ELSE Seen
    /\ UNCHANGED <<users, step, groups, before, client, faults, refresh>>

-----------------------------------------------------------------------------
RequestStep(q) ==
    \/ FindByOrg(q) \/ FindByAccount(q) \/ InsertTenant(q)
    \/ FindUser(q) \/ AddUser(q) \/ Retry(q)

TranslatorStep ==
    \/ PluckAccounts \/ EndBatch \/ CommitTranslation
    \/ \E a \in translator.todo : SkipAccount(a) \/ TranslateAccount(a)

Next ==
    \/ Migrate /\ UNCHANGED requestVars
    \/ \E q \in Clients :
          \/ \E id \in Identities : Arrive(q, id)
          \/ \E id \in Senders : HearMessage(q, id)
          \/ RequestStep(q) \/ Fail(q)
    \/ CountTenants \/ TranslatorStep

Spec == Init /\ [][Next]_vars

(* A request that is being handled goes on, and its client repeats it; a   *)
(* translation that has begun ends, and lets go the inserts that wait for it. *)
FairSpec ==
    /\ Spec
    /\ \A q \in Clients : WF_vars(RequestStep(q))
    /\ WF_vars(TranslatorStep)

-----------------------------------------------------------------------------
Translations ==
    [phase : {"idle", "batch", "results", "done", "error"}, batches : Nat,
     todo : SUBSET (Accounts \cup {Empty} \cup Marks),
     written : UNION {[S -> Orgs] : S \in SUBSET Ids}, aborted : BOOLEAN]

TypeOK ==
    /\ DOMAIN tenants \subseteq Ids
    /\ \A t \in DOMAIN tenants : tenants[t] \in Tenants
    /\ DOMAIN users \subseteq Users
    /\ \A u \in DOMAIN users : users[u] \in DOMAIN tenants
    /\ step \in {"nullify", "find", "merge", "remove", "serve", "failed"}
    /\ Serving \/ before \in InitialTables
    /\ client \in [Clients -> Requests]
    /\ translator \in Translations
    /\ faults \in 0..MaxFaults
    /\ refresh \in Refresh

\* The customers whose identifiers a tenant or an identity carries.
CustomersOf(row) ==
    ({row.org} \cap Orgs) \cup {OrgOf[a] : a \in {row.account} \cap Accounts}

(* Nobody ever works in the tenant of somebody else: whatever the          *)
(* identifiers a request or a message carries, and whatever was merged,    *)
(* translated or inserted next to it, the tenant it gets and the tenant of *)
(* its user carry identifiers of its own customer only, and no tenant ever *)
(* carries those of two.                                                   *)
CustomersKeptApart ==
    /\ \A t \in DOMAIN tenants : \A x, y \in CustomersOf(tenants[t]) : x = y
    /\ \A q \in Clients :
          client[q].pc \in {"user", "addUser", "served", "heard"}
          /\ client[q].tenant # Nil =>
            CustomersOf(tenants[client[q].tenant]) = CustomersOf(client[q].id)

(* ... provided that what comes from outside does not mix them up: the      *)
(* headers, the messages and the tables the migrations find.               *)
Coherent ==
    \A row \in Identities \cup Senders
              \cup UNION {{table.tenants[t] : t \in DOMAIN table.tenants} :
                          table \in InitialTables} :
        \A x, y \in CustomersOf(row) : x = y

(* "It tries to fetch the tenant by its OrgId, and if it is not present, by *)
(* its EBS account number" (dao/interfaces.go:175): a request whose org id  *)
(* already had a tenant when it came in ends in that tenant, whatever other *)
(* tenant its account number has and whatever is translated meanwhile.      *)
OrgIdWins ==
    \A q \in Clients :
        At(q, "served") /\ client[q].known # Nil => client[q].tenant = client[q].known

(* What makes it inductive. A request holds a row, and the row it knew       *)
(* still has its org id; it looks further only when there was none.         *)
RequestOK(c) ==
    /\ c.tenant # Nil => c.tenant \in DOMAIN tenants
    /\ c.pc \in {"user", "addUser", "served"} =>
          c.tenant # Nil /\ (c.known # Nil => c.tenant = c.known)
    /\ c.pc = "addUser" => c.id.user # Nil
    /\ c.pc \in {"byAccount", "insert"} => c.known = Nil
    /\ c.known # Nil => /\ c.known \in DOMAIN tenants
                       /\ tenants[c.known].org = c.id.org /\ c.id.org \in Orgs

(* The translation writes what the service answered, where nothing was, and *)
(* nothing a committed or a written row already has.                        *)
TranslatorOK ==
    /\ translator.phase \notin {"batch", "results"} => DOMAIN translator.written = {}
    /\ DOMAIN translator.written \subseteq DOMAIN tenants
    /\ \A t \in DOMAIN translator.written :
          /\ tenants[t].account \in Accounts /\ tenants[t].org = Nil
          /\ translator.written[t] = OrgOf[tenants[t].account]
    /\ translator.phase = "results" =>
          \A a \in translator.todo \cap Accounts :
              \E t \in DOMAIN tenants : tenants[t].account = a /\ tenants[t].org = Nil
    /\ \A t, o \in DOMAIN tenants :
          Serving /\ Seen[t].org = Seen[o].org /\ Seen[t].org # Nil => t = o

(* What the migrations leave is ready for requests: one tenant for every    *)
(* identifier, and with it everything its duplicates had; and a request is  *)
(* served in the tenant of its org id.                                     *)
TenantsInv ==
    /\ TypeOK
    /\ MigrationsOK /\ IndexesCreated /\ MergedTogether
    /\ ~Serving => (\A q \in Clients : client[q] = Waiting) /\ translator = NotTranslating
    /\ \A q \in Clients : RequestOK(client[q])
    /\ TranslatorOK
    /\ OrgIdWins

(* When a request goes on to its handler its user is one of its tenant: the *)
(* handlers filter by both.                                                 *)
UserOfItsTenant ==
    [][\A q \in Clients :
          ~At(q, "served") /\ At(q, "served")' /\ client[q].id.user # Nil =>
              users'[client[q].id.user] = client[q].tenant]_vars

(* "tenant refresh = we run into conflicts where one user_id is tied to     *)
(* another tenant" (dao/user_dao.go:50): with HandleTenantRefresh a request *)
(* that is sent again when it fails is served in the end, whichever         *)
(* requests created its tenant or its user meanwhile.                       *)
RetriedIsServed ==
    \A q \in Clients : (At(q, "byOrg") /\ refresh) ~> At(q, "served")
=============================================================================
