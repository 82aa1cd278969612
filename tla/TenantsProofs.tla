--------------------------- MODULE TenantsProofs ---------------------------
(***************************************************************************)
(* The schema, what its migrations leave, and who is served from it.       *)
(*                                                                         *)
(* Of Tenants: the migrations leave unique identifiers and keep together   *)
(* what belonged together, a request is served in the tenant of its org    *)
(* id, its user is one of that tenant, and nobody is ever served in the    *)
(* tenant of another customer.                                             *)
(*                                                                         *)
(* Of Startup, where the instances run the migrations: the schema is       *)
(* migrated in order, and complete before anyone serves, for any number of *)
(* instances and migrations, although the lock excludes nobody: recorded   *)
(* and applied only grow, so what an instance has seen of them stays true  *)
(* whatever the others do.                                                 *)
(***************************************************************************)
EXTENDS Tenants, Startup, FiniteSetTheorems, WellFoundedInduction, TLAPS

-----------------------------------------------------------------------------
(* A set of natural numbers has a least element: the sets 1..x of its       *)
(* elements have a minimal one.                                            *)
LEMMA LeastExists ==
    ASSUME NEW S \in SUBSET Nat, S # {}
    PROVE  Min(S) \in S /\ \A y \in S : Min(S) <= y
<1> DEFINE T == {1..x : x \in S}
<1>1. T \subseteq FiniteSubsetsOf(Nat) /\ T # {}
  <2>1. \A x \in S : 1..x \subseteq Nat /\ IsFiniteSet(1..x)
    BY FS_Interval
  <2> QED BY <2>1 DEF FiniteSubsetsOf
<1>2. PICK m \in T : \A U \in T : ~(<<U, m>> \in StrictSubsetOrdering(Nat))
  <2> HIDE DEF T
  <2> QED BY <1>1, FS_StrictSubsetOrderingWellFounded, WFMin
<1>3. PICK x \in S : m = 1..x
  BY <1>2
<1>4. \A y \in S : x <= y
  <2> SUFFICES ASSUME NEW y \in S, y < x  PROVE FALSE
    OBVIOUS
  <2>1. 1..y \subseteq 1..x /\ x \in 1..x /\ x \notin 1..y /\ 1..x \subseteq Nat
    BY SMT
  <2>2. <<1..y, m>> \in StrictSubsetOrdering(Nat)
    BY <2>1, <1>3 DEF StrictSubsetOrdering
  <2> QED BY <2>2, <1>2
<1> QED BY <1>4 DEF Min

(* ... and a bounded one a greatest.                                        *)
LEMMA GreatestExists ==
    ASSUME NEW n \in Nat, NEW S \in SUBSET (0..n), S # {}
    PROVE  Max(S) \in S /\ \A y \in S : Max(S) >= y
<1> DEFINE T == {n - x : x \in S}
<1>1. T \in SUBSET Nat /\ T # {}
  <2>1. \A x \in S : n - x \in Nat
    OBVIOUS
  <2> QED BY <2>1
<1>2. Min(T) \in T /\ \A y \in T : Min(T) <= y
  <2> HIDE DEF T
  <2> QED BY <1>1, LeastExists
<1>3. PICK x \in S : Min(T) = n - x
  BY <1>2
<1>4. \A y \in S : x >= y
  <2> TAKE y \in S
  <2>1. n - x <= n - y
    BY <1>2, <1>3
  <2> QED BY <2>1
<1> QED BY <1>4 DEF Max

\* First(&tenant) is one of the rows found, if there are any.
LEMMA FirstOf ==
    ASSUME NEW S \in SUBSET Ids
    PROVE  (First(S) = Nil <=> S = {}) /\ (S # {} => First(S) \in S)
<1>1. S # {} => Min(S) \in S
  BY LeastExists, TenantAssumption DEF Ids
<1> QED BY <1>1, TenantAssumption DEF First, Ids

LEMMA EmptyFunction == <<>> \in [{} -> Orgs] /\ DOMAIN <<>> = {}
OBVIOUS

-----------------------------------------------------------------------------
(* The migrations.                                                         *)
MigrationTypes ==
    /\ DOMAIN tenants \subseteq Ids
    /\ \A t \in DOMAIN tenants : tenants[t] \in Tenants
    /\ DOMAIN users \subseteq Users
    /\ \A u \in DOMAIN users : users[u] \in DOMAIN tenants
    /\ step \in {"nullify", "find", "merge", "remove", "serve", "failed"}
    /\ Serving \/ before \in InitialTables

\* The tables the migrations found.
LEMMA Found0 ==
    ASSUME NEW b \in InitialTables
    PROVE  /\ DOMAIN b.tenants \subseteq Ids
           /\ \A t \in DOMAIN b.tenants :
                 b.tenants[t] \in [account : Accounts \cup {Nil, Empty},
                                   org     : Orgs \cup {Nil, Empty}]
           /\ \A u \in DOMAIN b.users :
                 u \in Users /\ b.users[u] \in DOMAIN b.tenants
BY TenantAssumption

LEMMA StepNullify ==
    ASSUME MigrationTypes, MigrationsOK, MakeEmptyNull
    PROVE  MigrationTypes' /\ MigrationsOK' /\ IndexesCreated' /\ step' # "serve"
<1>1. before \in InitialTables /\ tenants = before.tenants
  BY DEF MakeEmptyNull, MigrationTypes, MigrationsOK, Serving
<1>2. \A t \in DOMAIN tenants :
        /\ tenants[t] \in [account : Accounts \cup {Nil, Empty}, org : Orgs \cup {Nil, Empty}]
        /\ tenants'[t] \in Tenants
        /\ \A c \in Columns : tenants'[t][c] = NoEmpty(tenants[t][c])
  BY <1>1, Found0 DEF MakeEmptyNull, Tenants, NoEmpty, Columns
<1> QED BY <1>1, <1>2 DEF MakeEmptyNull, MigrationTypes, MigrationsOK, Serving,
             Original, Unmerged, IndexesCreated

LEMMA StepFind ==
    ASSUME MigrationTypes, MigrationsOK, FindDuplicates
    PROVE  MigrationTypes' /\ MigrationsOK' /\ IndexesCreated' /\ step' # "serve"
<1>1. /\ step = "find" /\ step' = "merge"
      /\ tenants' = tenants /\ users' = users /\ before' = before
      /\ DOMAIN tenants = DOMAIN before.tenants /\ users = before.users
      /\ \A t \in DOMAIN tenants : \A c \in Columns : tenants[t][c] = Original(t, c)
      /\ before \in InitialTables
  BY DEF FindDuplicates, MigrationTypes, MigrationsOK, Unmerged, tables, Serving
<1>2. PICK order \in Injection(Duplicated, 1..Cardinality(Duplicated)) :
         groups' = GroupsBy(order)
  BY DEF FindDuplicates
<1>g. \A g : g \in groups' <=> /\ \E c \in Columns, v \in Values : g = Group(c, v, order)
                                /\ DOMAIN g.place # {}
  BY <1>2 DEF GroupsBy
<1> DEFINE D == Duplicated
<1>3. /\ \A t \in D : order[t] \in Ids
      /\ \A t, o \in D : order[t] = order[o] => t = o
  <2>1. IsFiniteSet(Ids) /\ Cardinality(Ids) = MaxTenants
    BY FS_Interval, TenantAssumption DEF Ids
  <2>2. D \in SUBSET Ids
    BY DEF Duplicated, MigrationTypes
  <2>3. Cardinality(D) <= MaxTenants /\ Cardinality(D) \in Nat
    <3> HIDE DEF D
    <3> QED BY <2>1, <2>2, FS_Subset, FS_CardinalityType
  <2>4. 1..Cardinality(D) \subseteq Ids
    <3> HIDE DEF D
    <3> QED BY <2>3, TenantAssumption DEF Ids
  <2>5. order \in [D -> 1..Cardinality(D)] /\ IsInjective(order)
    BY <1>2 DEF Injection
  <2> HIDE DEF D
  <2>6. \A t, o \in D : order[t] = order[o] => t = o
    BY <2>5 DEF IsInjective
  <2>7. \A t \in D : order[t] \in 1..Cardinality(D)
    BY <2>5
  <2> QED BY <2>4, <2>6, <2>7
<1>4. ASSUME NEW c \in Columns, NEW v \in Values, NEW t \in DOMAIN tenants
      PROVE  /\ t \in Holding(c, v) <=> Original(t, c) = v
             /\ Original(t, c) = v /\ DOMAIN Group(c, v, order).place # {}
                  => t \in DOMAIN Group(c, v, order).place
  <2>1. t \in Holding(c, v) <=> Original(t, c) = v
    BY <1>1 DEF Holding
  <2>2. ASSUME Original(t, c) = v, NEW o \in D, o \in Holding(c, v)
        PROVE  t \in D
    <3>1. t # o => o \in Holding(c, tenants[t][c]) \ {t}
      BY <2>2, <1>1
    <3> QED BY <2>2, <3>1 DEF Duplicated
  <2>3. DOMAIN Group(c, v, order).place = D \cap Holding(c, v)
    BY DEF Group, Restrict
  <2> HIDE DEF D
  <2> QED BY <2>1, <2>2, <2>3
<1>5. ASSUME NEW c \in Columns, NEW v \in Values
      PROVE  LET g == Group(c, v, order)
             IN  /\ g.column = c /\ g.value = v
                 /\ DOMAIN g.place = D \cap Holding(c, v)
                 /\ \A t \in DOMAIN g.place : g.place[t] = order[t]
  BY DEF Group, Restrict
<1>6. GroupsOK'
  <2> SUFFICES ASSUME NEW g \in groups'
               PROVE  /\ g.column \in Columns /\ g.value \in Values
                      /\ DOMAIN g.place # {}
                      /\ \A t \in DOMAIN before.tenants :
                            Original(t, g.column) = g.value <=> t \in DOMAIN g.place
                      /\ DOMAIN g.place \subseteq DOMAIN before.tenants
                      /\ \A t \in DOMAIN g.place : g.place[t] \in Ids
                      /\ \A t, o \in DOMAIN g.place : g.place[t] = g.place[o] => t = o
                      /\ \A h \in groups' :
                            g.column = h.column /\ g.value = h.value => g = h
    BY <1>1 DEF GroupsOK, Original
  <2>1. PICK c \in Columns, v \in Values : g = Group(c, v, order)
    BY <1>g
  <2>2. \A h \in groups' : \E d \in Columns, w \in Values : h = Group(d, w, order)
    BY <1>g
  <2>3. DOMAIN g.place # {}
    BY <1>g
  <2>4. g.column = c /\ g.value = v /\ DOMAIN g.place = D \cap Holding(c, v)
        /\ \A t \in DOMAIN g.place : g.place[t] = order[t]
    BY <2>1, <1>5
  <2>5. DOMAIN g.place \subseteq DOMAIN tenants
    BY <2>4 DEF Holding
  <2>6. \A h \in groups' : g.column = h.column /\ g.value = h.value => g = h
    BY <2>1, <2>2, <1>5
  <2>7. \A t \in DOMAIN tenants : Original(t, c) = v <=> t \in DOMAIN g.place
    BY <1>4, <2>1, <2>3, <2>4
  <2> HIDE DEF D
  <2> QED BY <2>3, <2>4, <2>5, <2>6, <2>7, <1>1, <1>3
<1>7. ASSUME NEW t \in DOMAIN tenants, NEW o \in DOMAIN tenants \ {t}, NEW c \in Columns,
             Original(t, c) = Original(o, c), Original(t, c) \in Values
      PROVE  \E h \in groups' : h.column = c /\ h.value = Original(t, c)
  <2> DEFINE v == Original(t, c)
             g == Group(c, v, order)
  <2>1. o \in Holding(c, v) /\ t \in Holding(c, v)
    BY <1>7, <1>4
  <2>2. o \in Holding(c, tenants[t][c]) \ {t}
    BY <2>1, <1>1
  <2>3. t \in D
    BY <2>2 DEF Duplicated
  <2>4. DOMAIN g.place # {} /\ g.column = c /\ g.value = v
    BY <2>1, <2>3, <1>5, <1>7
  <2>5. g \in groups'
    BY <2>4, <1>g, <1>7
  <2> QED BY <2>4, <2>5
<1>8. RowsOK'
  BY <1>1, <1>7 DEF RowsOK, Original, ToMerge
<1>9. OwnersOK'
  <2>1. ASSUME NEW u \in DOMAIN users, NEW v \in DOMAIN users,
               Original(users[u], "account") \in Accounts,
               Original(users[u], "account") = Original(users[v], "account"),
               users[u] # users[v]
        PROVE  \E h \in groups' : /\ h.column = "account"
                                  /\ h.value = Original(users[u], "account")
    <3>1. users[u] \in DOMAIN tenants /\ users[v] \in DOMAIN tenants
      BY DEF MigrationTypes
    <3>2. Original(users[u], "account") \in Values /\ "account" \in Columns
      BY <2>1 DEF Values, Columns
    <3> QED BY <2>1, <3>1, <3>2, <1>7
  <2>2. ASSUME NEW u \in DOMAIN users, NEW v \in DOMAIN users,
               Original(users[u], "account") \in Accounts,
               Original(users[u], "account") = Original(users[v], "account")
        PROVE  \/ \E g \in groups' : /\ g.column = "account"
                                     /\ g.value = Original(users[u], "account")
               \/ users[u] = users[v]
    BY <2>1, <2>2
  <2> QED BY <2>2, <1>1 DEF OwnersOK, Original, ToMerge, AccountOf, Waits
<1> QED BY <1>1, <1>6, <1>8, <1>9
        DEF MigrationTypes, MigrationsOK, Unmerged, IndexesCreated, Serving

LEMMA MainOf ==
    ASSUME NEW g, DOMAIN g.place # {}, \A t \in DOMAIN g.place : g.place[t] \in Ids
    PROVE  MainTenant(g) \in DOMAIN g.place
<1> DEFINE P == {g.place[o] : o \in DOMAIN g.place}
<1>1. P \in SUBSET Nat /\ P # {}
  BY DEF Ids
<1>2. Min(P) \in P
  <2> HIDE DEF P
  <2> QED BY <1>1, LeastExists
<1> QED BY <1>2 DEF MainTenant

LEMMA MarkOf ==
    ASSUME NEW v \in Values, NEW n \in Ids
    PROVE  /\ Mark(v, n) \in Marks
           /\ Mark(v, n) \notin Values \cup {Nil, Empty}
           /\ \A m \in Ids : Mark(v, n) = Mark(v, m) => n = m
<1>1. Mark(v, n) \in Marks
  BY DEF Marks
<1>2. \A m \in Ids : Mark(v, n) = Mark(v, m) => n = m
  BY DEF Mark
<1> QED BY <1>1, <1>2, TenantAssumption

(* Merging a group takes its value from the rows that are not the main one. *)
LEMMA StepMerge ==
    ASSUME MigrationTypes, MigrationsOK, NEW g, MergeGroup(g)
    PROVE  MigrationTypes' /\ MigrationsOK' /\ IndexesCreated' /\ step' # "serve"
<1> DEFINE main == MainTenant(g)
           others == DOMAIN g.place \ {main}
           Left(c, v) == \E h \in groups' : h.column = c /\ h.value = v
<1>1. /\ step = "merge" /\ step' = step /\ before' = before /\ g \in groups
      /\ g.column = "org" => \A h \in groups : h.column = "org"
      /\ users' = [u \in DOMAIN users |-> IF users[u] \in others THEN main ELSE users[u]]
      /\ tenants' = [t \in DOMAIN tenants |->
                       IF t \in others
                         THEN [tenants[t] EXCEPT ![g.column] = Mark(g.value, g.place[t])]
                         ELSE tenants[t]]
      /\ groups' = groups \ {g}
  BY DEF MergeGroup, Merge
<1>2. GroupsOK /\ RowsOK /\ OwnersOK
  BY <1>1 DEF MigrationsOK
<1>3. /\ g.column \in Columns /\ g.value \in Values
      /\ \A t \in DOMAIN before.tenants :
            Original(t, g.column) = g.value <=> t \in DOMAIN g.place
      /\ DOMAIN g.place \subseteq DOMAIN before.tenants
      /\ \A t \in DOMAIN g.place : g.place[t] \in Ids
      /\ \A t, o \in DOMAIN g.place : g.place[t] = g.place[o] => t = o
      /\ \A h \in groups : g.column = h.column /\ g.value = h.value => g = h
      /\ main \in DOMAIN g.place
  BY <1>1, <1>2, MainOf DEF GroupsOK
<1>4. DOMAIN tenants = DOMAIN before.tenants /\ DOMAIN users = DOMAIN before.users
  BY <1>2 DEF RowsOK, OwnersOK
<1> HIDE DEF main
<1>5. ASSUME NEW c, NEW v
      PROVE  Left(c, v) <=> ToMerge(c, v) /\ ~(c = g.column /\ v = g.value)
  BY <1>1, <1>3 DEF ToMerge
<1> HIDE DEF Left
<1>6. ASSUME NEW t \in DOMAIN tenants, NEW c \in Columns
      PROVE  tenants'[t][c] = IF t \in others /\ c = g.column
                                THEN Mark(g.value, g.place[t]) ELSE tenants[t][c]
  BY <1>1, <1>3 DEF MigrationTypes, Tenants, Columns
<1>7. \A t \in DOMAIN tenants' : tenants'[t] \in Tenants
  BY <1>1, <1>3, MarkOf DEF MigrationTypes, Tenants, Columns
<1>8. MigrationTypes'
  BY <1>1, <1>3, <1>4, <1>7 DEF MigrationTypes, Serving
<1>9. GroupsOK'
  BY <1>1, <1>2 DEF GroupsOK, Original
<1>10. RowsOK'
  <2>1. DOMAIN tenants' = DOMAIN before'.tenants
    BY <1>1, <1>4
  <2>2. ASSUME NEW t \in DOMAIN tenants, NEW c \in Columns
        PROVE  \/ tenants'[t][c] = Original(t, c)
               \/ /\ Original(t, c) \in Values /\ ~Left(c, Original(t, c))
                  /\ \E n \in Ids : tenants'[t][c] = Mark(Original(t, c), n)
    <3>1. CASE t \in others /\ c = g.column
      BY <3>1, <1>3, <1>4, <1>5, <1>6
    <3>2. CASE ~(t \in others /\ c = g.column)
      BY <3>2, <1>2, <1>5, <1>6 DEF RowsOK
    <3> QED BY <3>1, <3>2
  <2>3. ASSUME NEW t \in DOMAIN tenants, NEW c \in Columns, NEW o \in DOMAIN tenants \ {t},
               Original(t, c) = Original(o, c), Original(t, c) \in Values,
               ~Left(c, Original(t, c))
        PROVE  tenants'[t][c] # tenants'[o][c]
    <3>1. CASE c = g.column /\ Original(t, c) = g.value
      <4>1. t \in DOMAIN g.place /\ o \in DOMAIN g.place
        BY <3>1, <2>3, <1>3, <1>4
      <4>2. ToMerge(c, g.value)
        BY <3>1, <1>1 DEF ToMerge
      <4>3. \A r \in {t, o} : r = main => tenants'[r][c] = g.value
        BY <3>1, <4>2, <1>2, <1>6, <2>3 DEF RowsOK
      <4>4. \A r \in {t, o} : r # main => tenants'[r][c] = Mark(g.value, g.place[r])
        BY <3>1, <4>1, <1>6
      <4>5. g.place[t] # g.place[o] /\ g.place[t] \in Ids /\ g.place[o] \in Ids
        BY <4>1, <2>3, <1>3
      <4> QED BY <4>3, <4>4, <4>5, MarkOf, <1>3, <2>3
    <3>2. CASE ~(c = g.column /\ Original(t, c) = g.value)
      <4>1. ~ToMerge(c, Original(t, c))
        BY <3>2, <2>3, <1>5
      <4>2. tenants'[t][c] = tenants[t][c] /\ tenants'[o][c] = tenants[o][c]
        BY <3>2, <2>3, <1>3, <1>4, <1>6
      <4> QED BY <4>1, <4>2, <2>3, <1>2 DEF RowsOK
    <3> QED BY <3>1, <3>2
  <2> QED BY <2>1, <2>2, <2>3, <1>1 DEF RowsOK, Original, ToMerge, Left
<1>11. OwnersOK'
  <2>1. ASSUME NEW u \in DOMAIN users
        PROVE  /\ AccountOf(u)' = AccountOf(u)
               /\ Waits(u)' <=> Left("account", AccountOf(u))
               /\ Waits(u)' <=> /\ Waits(u)
                               /\ ~(g.column = "account" /\ AccountOf(u) = g.value)
    <3>1. AccountOf(u)' = AccountOf(u)
      BY <1>1 DEF AccountOf, Original
    <3>2. Waits(u)' <=> Left("account", AccountOf(u))
      BY <3>1 DEF Waits, ToMerge, Left
    <3> QED BY <3>1, <3>2, <1>5 DEF Waits
  <2>2. ASSUME NEW u \in DOMAIN users, Waits(u)'
        PROVE  users'[u] = before.users[u]
    <3>1. Waits(u) /\ ~(g.column = "account" /\ AccountOf(u) = g.value)
      BY <2>1, <2>2
    <3>2. users[u] = before.users[u]
      BY <3>1, <1>2 DEF OwnersOK
    <3>3. g.column = "account"
      BY <3>1, <1>1, <1>3 DEF Waits, ToMerge, Columns
    <3> QED BY <3>1, <3>2, <3>3, <1>1, <1>3 DEF AccountOf
  <2>3. ASSUME NEW u \in DOMAIN users, NEW v \in DOMAIN users,
               AccountOf(u) \in Accounts, AccountOf(u) = AccountOf(v), ~Waits(u)'
        PROVE  users'[u] = users'[v]
    <3>1. CASE users[u] = users[v]
      BY <3>1, <1>1
    <3>2. CASE users[u] # users[v]
      <4>1. Waits(u) /\ Waits(v)
        BY <3>2, <2>3, <1>2 DEF OwnersOK, Waits
      <4>2. g.column = "account" /\ AccountOf(u) = g.value
        BY <4>1, <2>3, <2>1
      <4>3. users[u] = before.users[u] /\ users[v] = before.users[v]
        BY <4>1, <1>2 DEF OwnersOK
      <4>4. users[u] \in DOMAIN g.place /\ users[v] \in DOMAIN g.place
        BY <4>2, <4>3, <2>3, <1>3, <1>4 DEF MigrationTypes, AccountOf
      <4> QED BY <4>4, <1>1
    <3> QED BY <3>1, <3>2
  <2>4. DOMAIN users' = DOMAIN users /\ DOMAIN users = DOMAIN before.users
    BY <1>1, <1>4
  <2>5. DOMAIN users' = DOMAIN before'.users
    BY <2>4, <1>1
  <2>6. \A u \in DOMAIN users' : Waits(u)' => users'[u] = before'.users[u]
    BY <2>2, <2>4, <1>1
  <2>7. \A u, v \in DOMAIN users' :
           AccountOf(u)' \in Accounts /\ AccountOf(u)' = AccountOf(v)' =>
             Waits(u)' \/ users'[u] = users'[v]
    BY <2>1, <2>3, <2>4
  <2> QED BY <2>5, <2>6, <2>7 DEF OwnersOK
<1> QED BY <1>1, <1>8, <1>9, <1>10, <1>11 DEF MigrationsOK, Unmerged, IndexesCreated

LEMMA StepIndexes ==
    ASSUME MigrationTypes, MigrationsOK, CreateIndexes
    PROVE  MigrationTypes' /\ MigrationsOK' /\ IndexesCreated' /\ step' # "serve"
<1>1. /\ step = "merge" /\ groups = {} /\ tenants' = tenants /\ users' = users
      /\ before' = before /\ groups' = groups
      /\ step' = IF UniqueIdentifiers THEN "remove" ELSE "failed"
  BY DEF CreateIndexes, tables, UniqueIdentifiers
<1>2. RowsOK /\ OwnersOK /\ \A c, v : ~ToMerge(c, v)
  BY <1>1 DEF MigrationsOK, ToMerge
<1>3. ASSUME NEW c \in Columns, NEW t \in DOMAIN tenants, NEW o \in DOMAIN tenants \ {t},
             tenants[t][c] = tenants[o][c], tenants[t][c] # Nil
      PROVE  FALSE
  <2>1. \A r \in {t, o} :
           \/ tenants[r][c] = Original(r, c) /\ Original(r, c) \in Values
           \/ Original(r, c) \in Values
              /\ \E n \in Ids : tenants[r][c] = Mark(Original(r, c), n)
    <3>1. before \in InitialTables /\ DOMAIN tenants = DOMAIN before.tenants
      BY <1>1, <1>2 DEF MigrationTypes, Serving, RowsOK
    <3>2. \A r \in {t, o} : Original(r, c) \in Values \cup {Nil}
      BY <3>1, Found0 DEF Original, NoEmpty, Columns, Values
    <3> QED BY <3>2, <1>2, <1>3 DEF RowsOK
  <2>2. Original(t, c) = Original(o, c)
    BY <2>1, <1>3, MarkOf DEF Mark
  <2> QED BY <2>1, <2>2, <1>2, <1>3 DEF RowsOK
<1>4. UniqueIdentifiers
  BY <1>3 DEF UniqueIdentifiers
<1> QED BY <1>1, <1>2, <1>4 DEF MigrationTypes, MigrationsOK, Unmerged, Serving, RowsOK,
             OwnersOK, UniqueIdentifiers, IndexesCreated, Original, ToMerge,
             AccountOf, Waits

LEMMA StepRemove ==
    ASSUME MigrationTypes, MigrationsOK, RemoveMarked
    PROVE  MigrationTypes' /\ MigrationsOK' /\ IndexesCreated'
BY DEF RemoveMarked, MigrationTypes, MigrationsOK, Unmerged, Serving,
       UniqueIdentifiers, IndexesCreated

LEMMA StepMigrations ==
    ASSUME MigrationTypes, MigrationsOK, Migrate
    PROVE  MigrationTypes' /\ MigrationsOK' /\ IndexesCreated' /\ step # "serve"
<1>1. step # "serve"
  BY DEF Migrate, MakeEmptyNull, FindDuplicates, MergeGroup, Merge, CreateIndexes, RemoveMarked
<1> QED BY <1>1, StepNullify, StepFind, StepMerge, StepIndexes, StepRemove DEF Migrate

\* What belonged together still does when all groups are merged.
LEMMA TogetherAfterMerge ==
    ASSUME MigrationTypes, MigrationsOK
    PROVE  MergedTogether
<1> SUFFICES ASSUME step \in {"merge", "remove"}, groups = {},
                    NEW u \in DOMAIN before.users, NEW v \in DOMAIN before.users,
                    before.tenants[before.users[u]].account
                      = before.tenants[before.users[v]].account,
                    before.tenants[before.users[u]].account \in Accounts
             PROVE  users[u] = users[v]
  BY DEF MergedTogether
<1>1. OwnersOK /\ ~Waits(u)
  BY DEF MigrationsOK, Waits, ToMerge
<1>2. AccountOf(u) = before.tenants[before.users[u]].account /\ AccountOf(v) = AccountOf(u)
  BY TenantAssumption DEF AccountOf, Original, NoEmpty, Values
<1> QED BY <1>1, <1>2 DEF OwnersOK

-----------------------------------------------------------------------------
(* Requests.                                                               *)
LEMMA TypesOfTables == TypeOK => MigrationTypes
BY DEF TypeOK, MigrationTypes

LEMMA IdentityTypes ==
    ASSUME NEW id \in Identities \cup Senders \cup {Nobody}
    PROVE  /\ id.account \in Accounts \cup {Nil}
           /\ id.org \in Orgs \cup {Nil}
           /\ id.user \in Users \cup {Nil}
BY RequestAssumption DEF Nobody

LEMMA NoTranslation ==
    NotTranslating \in Translations /\ DOMAIN NotTranslating.written = {}
<1>1. <<>> \in UNION {[S -> Orgs] : S \in SUBSET Ids}
  BY EmptyFunction
<1> QED BY <1>1, EmptyFunction DEF NotTranslating, Translations

LEMMA InitInv == Init => TenantsInv
<1> SUFFICES ASSUME Init PROVE TenantsInv
  OBVIOUS
<1>1. /\ before \in InitialTables /\ tenants = before.tenants /\ users = before.users
      /\ step = "nullify" /\ groups = {}
      /\ client = [q \in Clients |-> Waiting] /\ translator = NotTranslating
      /\ faults = 0 /\ refresh \in Refresh
  BY DEF Init, InitMigrations
<1>2. Waiting \in Requests /\ RequestOK(Waiting)
  BY DEF Waiting, Requests, RequestOK, Nobody, Phases
<1>3. \A t \in DOMAIN tenants : tenants[t] \in Tenants
  BY <1>1, Found0 DEF Tenants
<1>4. TypeOK
  BY <1>1, <1>2, <1>3, Found0, NoTranslation, RequestAssumption DEF TypeOK, Serving
<1>5. MigrationsOK /\ IndexesCreated
  BY <1>1 DEF MigrationsOK, IndexesCreated, Unmerged
<1>6. TranslatorOK
  BY <1>1, NoTranslation DEF TranslatorOK, Serving, NotTranslating
<1>7. MergedTogether /\ OrgIdWins
  BY <1>1 DEF MergedTogether, OrgIdWins, At, Waiting
<1> QED BY <1>1, <1>2, <1>4, <1>5, <1>6, <1>7 DEF TenantsInv

\* The requests wait for the migrations.
LEMMA StepMigrateInv ==
    ASSUME TenantsInv, Migrate, UNCHANGED requestVars
    PROVE  TenantsInv'
<1>1. MigrationTypes' /\ MigrationsOK' /\ IndexesCreated' /\ MergedTogether' /\ ~Serving
  <2>1. MigrationTypes' /\ MigrationsOK' /\ IndexesCreated' /\ step # "serve"
    BY StepMigrations, TypesOfTables DEF TenantsInv
  <2>2. MigrationTypes /\ MigrationsOK => MergedTogether
    BY TogetherAfterMerge
  <2>3. MigrationTypes' /\ MigrationsOK' => MergedTogether'
    BY <2>2, TogetherAfterMerge, PTL
  <2> QED BY <2>1, <2>3 DEF Serving
<1>2. /\ \A q \in Clients : client'[q] = Waiting
      /\ translator' = NotTranslating /\ translator' = translator
      /\ client' = client /\ faults' = faults /\ refresh' = refresh
  BY <1>1 DEF TenantsInv, requestVars
<1>3. \A q \in Clients : RequestOK(client[q])'
  BY <1>2 DEF RequestOK, Waiting
<1>4. TypeOK'
  BY <1>1, <1>2 DEF TypeOK, MigrationTypes, TenantsInv, Serving
<1>5. TranslatorOK'
  <2>1. DOMAIN translator'.written = {} /\ translator'.phase = "idle"
    BY <1>2, NoTranslation DEF NotTranslating
  <2>2. Serving' => \A t, o \in DOMAIN tenants' :
           tenants'[t].org = tenants'[o].org /\ tenants'[t].org # Nil => t = o
    BY <1>1 DEF MigrationsOK, UniqueIdentifiers, Columns, Serving
  <2>3. \A t \in DOMAIN tenants' : Seen'[t] = tenants'[t]
    BY <2>1 DEF Seen
  <2> QED BY <2>1, <2>2, <2>3 DEF TranslatorOK
<1>6. OrgIdWins'
  BY <1>2 DEF OrgIdWins, At, Waiting
<1> QED BY <1>1, <1>2, <1>3, <1>4, <1>5, <1>6 DEF TenantsInv

(* What every step of a request does to the rest: one client moves, the     *)
(* tables and the translation go on as they must.                          *)
LEMMA OneRequestMoves ==
    ASSUME TenantsInv, Serving, NEW q \in Clients,
           step' = step, groups' = groups, refresh' = refresh, faults' \in 0..MaxFaults,
           client' \in [Clients -> Requests],
           \A p \in Clients \ {q} : client'[p] = client[p],
           RequestOK(client[q])',
           \A t \in DOMAIN tenants : t \in DOMAIN tenants' /\ tenants'[t] = tenants[t],
           DOMAIN tenants' \subseteq Ids, \A t \in DOMAIN tenants' : tenants'[t] \in Tenants,
           DOMAIN users' \subseteq Users, \A u \in DOMAIN users' : users'[u] \in DOMAIN tenants',
           UniqueIdentifiers', translator' = translator, TranslatorOK'
    PROVE  TenantsInv'
<1>1. Serving' /\ step = "serve" /\ step' = "serve"
  BY DEF Serving
<1>2. TypeOK'
  BY <1>1 DEF TenantsInv, TypeOK
<1>3. MigrationsOK' /\ IndexesCreated' /\ MergedTogether'
  BY <1>1 DEF TenantsInv, MigrationsOK, IndexesCreated, MergedTogether, Unmerged
<1>4. \A p \in Clients : RequestOK(client[p])'
  <2>1. ASSUME NEW p \in Clients \ {q}
        PROVE  RequestOK(client[p])'
    <3>1. client'[p] = client[p] /\ RequestOK(client[p])
      BY DEF TenantsInv
    <3> QED BY <3>1 DEF RequestOK
  <2> QED BY <2>1
<1>5. OrgIdWins'
  BY <1>4 DEF OrgIdWins, At, RequestOK
<1> QED BY <1>1, <1>2, <1>3, <1>4, <1>5 DEF TenantsInv

\* ... when the tables stay.
LEMMA OnlyOneRequestMoves ==
    ASSUME TenantsInv, Serving, NEW q \in Clients,
           UNCHANGED <<tenants, step, groups, translator, refresh>>,
           faults' \in 0..MaxFaults, client' \in [Clients -> Requests],
           \A p \in Clients \ {q} : client'[p] = client[p],
           RequestOK(client[q])',
           DOMAIN users' \subseteq Users, \A u \in DOMAIN users' : users'[u] \in DOMAIN tenants
    PROVE  TenantsInv'
<1>1. TypeOK /\ UniqueIdentifiers /\ TranslatorOK
  BY DEF TenantsInv, MigrationsOK, Serving
<1>2. UniqueIdentifiers'
  BY <1>1 DEF UniqueIdentifiers
<1>3. TranslatorOK'
  BY <1>1 DEF TranslatorOK, Seen, Serving
<1> QED BY <1>1, <1>2, <1>3, OneRequestMoves DEF TypeOK

\* The rows that a value finds, and the one that First returns.
LEMMA FirstHolding ==
    ASSUME TypeOK, NEW c \in Columns, NEW v
    PROVE  LET t == First(Holding(c, v))
           IN  /\ t \in Ids \cup {Nil}
               /\ t = Nil <=> Holding(c, v) = {}
               /\ t # Nil => t \in DOMAIN tenants /\ v \in Values /\ tenants[t][c] = v
<1>1. Holding(c, v) \in SUBSET Ids
  BY DEF Holding, TypeOK
<1> QED BY <1>1, FirstOf DEF Holding

(* The row that has an org id, which there is one of.                       *)
LEMMA KnownIsFirst ==
    ASSUME TypeOK, MigrationsOK, Serving, NEW k \in DOMAIN tenants, NEW o \in Orgs,
           tenants[k].org = o
    PROVE  First(Holding("org", o)) = k
<1>1. k \in Holding("org", o)
  BY DEF Holding, Values
<1>2. First(Holding("org", o)) \in DOMAIN tenants
      /\ tenants[First(Holding("org", o))].org = o
  BY <1>1, FirstHolding DEF Columns
<1> QED BY <1>2, TenantAssumption DEF MigrationsOK, UniqueIdentifiers, Serving, Columns, Values

\* A request that comes in knows the row of its org id.
LEMMA Knows ==
    ASSUME TypeOK, NEW id \in Identities \cup Senders \cup {Nobody}
    PROVE  LET k == First(Holding("org", id.org))
           IN  /\ k \in Ids \cup {Nil}
               /\ k # Nil => k \in DOMAIN tenants /\ tenants[k].org = id.org /\ id.org \in Orgs
<1>1. id.org \in Values => id.org \in Orgs
  BY IdentityTypes, TenantAssumption DEF Values
<1> QED BY <1>1, FirstHolding DEF Columns

LEMMA StepArrive ==
    ASSUME TenantsInv, NEW q \in Clients, NEW id \in Identities, Arrive(q, id)
    PROVE  TenantsInv'
<1> DEFINE k == First(Holding("org", id.org))
           c == [pc |-> IF id.account = Nil /\ id.org = Nil THEN "unauthorized" ELSE "byOrg",
                 id |-> id, tenant |-> Nil, known |-> k]
<1>1. TypeOK
  BY DEF TenantsInv
<1>2. /\ k \in Ids \cup {Nil}
      /\ k # Nil => k \in DOMAIN tenants /\ tenants[k].org = id.org /\ id.org \in Orgs
  BY <1>1, Knows
<1>3. client' = [client EXCEPT ![q] = c] /\ Serving
      /\ UNCHANGED <<migrationVars, translator, faults, refresh>>
  BY DEF Arrive
<1> HIDE DEF k
<1>4. c \in Requests
  BY <1>2 DEF Requests, Phases
<1>5. client'[q] = c /\ client' \in [Clients -> Requests]
      /\ \A p \in Clients \ {q} : client'[p] = client[p]
  <2> HIDE DEF c
  <2> QED BY <1>1, <1>3, <1>4 DEF TypeOK
<1>6. RequestOK(client[q])'
  BY <1>2, <1>3, <1>5 DEF RequestOK, migrationVars
<1> QED BY <1>1, <1>3, <1>5, <1>6, OnlyOneRequestMoves DEF TypeOK, migrationVars

LEMMA StepHear ==
    ASSUME TenantsInv, NEW q \in Clients, NEW id \in Senders, HearMessage(q, id)
    PROVE  TenantsInv'
<1> DEFINE k == First(Holding("org", id.org))
           found == Holding("org", id.org) \cup Holding("account", id.account)
           c == [pc |-> "heard", id |-> id, known |-> k, tenant |-> First(found)]
<1>1. TypeOK
  BY DEF TenantsInv
<1>2. /\ k \in Ids \cup {Nil}
      /\ k # Nil => k \in DOMAIN tenants /\ tenants[k].org = id.org /\ id.org \in Orgs
  BY <1>1, Knows
<1>3. client' = [client EXCEPT ![q] = c] /\ Serving
      /\ UNCHANGED <<migrationVars, translator, faults, refresh>>
  BY DEF HearMessage
<1>4. First(found) \in DOMAIN tenants \cup {Nil} /\ DOMAIN tenants \subseteq Ids
  <2>1. found \subseteq DOMAIN tenants /\ DOMAIN tenants \subseteq Ids
    BY <1>1 DEF Holding, TypeOK
  <2> HIDE DEF found
  <2> QED BY <2>1, FirstOf
<1> HIDE DEF k, found
<1>5. c \in Requests
  BY <1>2, <1>4 DEF Requests, Phases
<1>6. client'[q] = c /\ client' \in [Clients -> Requests]
      /\ \A p \in Clients \ {q} : client'[p] = client[p]
  <2> HIDE DEF c
  <2> QED BY <1>1, <1>3, <1>5 DEF TypeOK
<1>7. RequestOK(client[q])'
  BY <1>2, <1>3, <1>4, <1>6 DEF RequestOK, migrationVars
<1> QED BY <1>1, <1>3, <1>6, <1>7, OnlyOneRequestMoves DEF TypeOK, migrationVars

\* Nothing is requested before the migrations are done.
LEMMA RunningServes ==
    ASSUME TenantsInv, NEW q \in Clients, client[q].pc # "idle"
    PROVE  Serving
BY DEF TenantsInv, Waiting

\* Goto and Found change the fields they name.
LEMMA Goes ==
    ASSUME TypeOK, NEW q \in Clients, NEW to \in Phases, Goto(q, to)
    PROVE  /\ client' \in [Clients -> Requests]
           /\ \A p \in Clients \ {q} : client'[p] = client[p]
           /\ client'[q].pc = to /\ client'[q].tenant = client[q].tenant
           /\ client'[q].id = client[q].id /\ client'[q].known = client[q].known
BY DEF TypeOK, Requests, Goto

LEMMA Finds ==
    ASSUME TypeOK, NEW q \in Clients, NEW to \in Phases, NEW t \in Ids \cup {Nil},
           Found(q, t, to)
    PROVE  /\ client' \in [Clients -> Requests]
           /\ \A p \in Clients \ {q} : client'[p] = client[p]
           /\ client'[q].pc = to /\ client'[q].tenant = t
           /\ client'[q].id = client[q].id /\ client'[q].known = client[q].known
BY DEF TypeOK, Requests, Found

LEMMA StepFindByOrg ==
    ASSUME TenantsInv, NEW q \in Clients, FindByOrg(q)
    PROVE  TenantsInv'
<1> DEFINE t == First(Holding("org", client[q].id.org))
<1>1. TypeOK /\ MigrationsOK /\ RequestOK(client[q]) /\ Serving
      /\ UNCHANGED <<migrationVars, translator, faults, refresh>>
  BY RunningServes DEF TenantsInv, FindByOrg, At
<1>2. client[q].id \in Identities \cup Senders \cup {Nobody}
  BY <1>1 DEF TypeOK, Requests
<1>3. /\ t \in Ids \cup {Nil}
      /\ t # Nil => t \in DOMAIN tenants
  BY <1>1, <1>2, Knows
<1>4. client[q].known # Nil => t = client[q].known
  BY <1>1, KnownIsFirst DEF RequestOK
<1>5. \/ t # Nil /\ Found(q, t, "user")
      \/ t = Nil /\ Goto(q, "byAccount")
  BY DEF FindByOrg
<1> HIDE DEF t
<1>6. /\ client' \in [Clients -> Requests]
      /\ \A p \in Clients \ {q} : client'[p] = client[p]
      /\ client'[q].id = client[q].id /\ client'[q].known = client[q].known
      /\ \/ t # Nil /\ client'[q].pc = "user" /\ client'[q].tenant = t
         \/ t = Nil /\ client'[q].pc = "byAccount" /\ client'[q].tenant = client[q].tenant
  <2>1. "user" \in Phases /\ "byAccount" \in Phases
    BY DEF Phases
  <2> QED BY <1>1, <1>3, <1>5, <2>1, Goes, Finds
<1>7. RequestOK(client[q])'
  BY <1>1, <1>3, <1>4, <1>6, TenantAssumption DEF RequestOK, migrationVars
<1> QED BY <1>1, <1>6, <1>7, OnlyOneRequestMoves DEF TypeOK, migrationVars

LEMMA StepFindByAccount ==
    ASSUME TenantsInv, NEW q \in Clients, FindByAccount(q)
    PROVE  TenantsInv'
<1> DEFINE t == First(Holding("account", client[q].id.account))
<1>1. TypeOK /\ RequestOK(client[q]) /\ Serving /\ client[q].pc = "byAccount"
      /\ UNCHANGED <<migrationVars, translator, faults, refresh>>
  BY RunningServes DEF TenantsInv, FindByAccount, At
<1>2. t \in Ids \cup {Nil} /\ (t # Nil => t \in DOMAIN tenants)
  BY <1>1, FirstHolding DEF Columns
<1>3. \/ t # Nil /\ Found(q, t, "user")
      \/ t = Nil /\ Goto(q, "insert")
  BY DEF FindByAccount
<1> HIDE DEF t
<1>4. /\ client' \in [Clients -> Requests]
      /\ \A p \in Clients \ {q} : client'[p] = client[p]
      /\ client'[q].id = client[q].id /\ client'[q].known = client[q].known
      /\ \/ t # Nil /\ client'[q].pc = "user" /\ client'[q].tenant = t
         \/ t = Nil /\ client'[q].pc = "insert" /\ client'[q].tenant = client[q].tenant
  <2>1. "user" \in Phases /\ "insert" \in Phases
    BY DEF Phases
  <2> QED BY <1>1, <1>2, <1>3, <2>1, Goes, Finds
<1>5. RequestOK(client[q])'
  BY <1>1, <1>2, <1>4 DEF RequestOK, migrationVars
<1> QED BY <1>1, <1>4, <1>5, OnlyOneRequestMoves DEF TypeOK, migrationVars

\* The ids grow: a new one is nobody's.
LEMMA NextIdIsNew ==
    ASSUME TypeOK
    PROVE  Max(DOMAIN tenants \cup {0}) + 1 \notin DOMAIN tenants
<1> DEFINE S == DOMAIN tenants \cup {0}
<1>1. S \in SUBSET (0..MaxTenants) /\ S # {} /\ MaxTenants \in Nat
  BY TenantAssumption DEF TypeOK, Ids
<1>2. Max(S) \in S /\ \A y \in S : Max(S) >= y
  <2> HIDE DEF S
  <2> QED BY <1>1, GreatestExists
<1>3. Max(S) \in Nat
  BY <1>1, <1>2
<1> HIDE DEF S
<1>4. Max(S) + 1 \notin S
  <2> SUFFICES ASSUME Max(S) + 1 \in S PROVE FALSE
    OBVIOUS
  <2>1. Max(S) >= Max(S) + 1
    BY <1>2
  <2> QED BY <2>1, <1>3
<1> QED BY <1>4 DEF S

(* The unique indexes, and the rows the translation has locked, refuse what *)
(* is not new.                                                             *)
LEMMA StepInsert ==
    ASSUME TenantsInv, NEW q \in Clients, InsertTenant(q)
    PROVE  TenantsInv'
<1> DEFINE id == client[q].id
           t == Max(DOMAIN tenants \cup {0}) + 1
           row == [account |-> id.account, org |-> id.org]
<1>1. TypeOK /\ MigrationsOK /\ RequestOK(client[q]) /\ TranslatorOK
      /\ Serving /\ client[q].pc = "insert"
      /\ UNCHANGED <<users, step, groups, before, translator, faults, refresh>>
      /\ ~Locked(id.org)
  BY RunningServes DEF TenantsInv, InsertTenant, At
<1>2. CASE Holding("org", id.org) \cup Holding("account", id.account) # {}
  <2>1. tenants' = tenants /\ Goto(q, "failed") /\ "failed" \in Phases
    BY <1>2 DEF InsertTenant, Phases
  <2>2. /\ client' \in [Clients -> Requests]
        /\ \A p \in Clients \ {q} : client'[p] = client[p]
        /\ client'[q].pc = "failed" /\ client'[q].tenant = client[q].tenant
        /\ client'[q].id = client[q].id /\ client'[q].known = client[q].known
    BY <2>1, <1>1, Goes
  <2>3. RequestOK(client[q])'
    BY <1>1, <2>1, <2>2 DEF RequestOK
  <2> QED BY <1>1, <2>1, <2>2, <2>3, OnlyOneRequestMoves DEF TypeOK
<1>3. CASE Holding("org", id.org) \cup Holding("account", id.account) = {}
  <2>1. /\ t \in Ids
        /\ tenants' = [r \in DOMAIN tenants \cup {t} |-> IF r = t THEN row ELSE tenants[r]]
        /\ Found(q, t, "user")
    BY <1>3 DEF InsertTenant, With
  <2>2. t \notin DOMAIN tenants
    BY <1>1, NextIdIsNew
  <2>3. /\ id.account \in Accounts \cup {Nil} /\ id.org \in Orgs \cup {Nil}
    BY <1>1, IdentityTypes DEF TypeOK, Requests
  <2>4. \A r \in DOMAIN tenants : /\ tenants[r].account = id.account => id.account = Nil
                                  /\ tenants[r].org = id.org => id.org = Nil
    BY <1>3, <2>3 DEF Holding, Values, Columns
  <2> HIDE DEF t
  <2>5. /\ DOMAIN tenants' = DOMAIN tenants \cup {t}
        /\ tenants'[t] = row
        /\ \A r \in DOMAIN tenants : tenants'[r] = tenants[r]
    BY <2>1, <2>2
  <2>6. /\ client' \in [Clients -> Requests]
        /\ \A p \in Clients \ {q} : client'[p] = client[p]
        /\ client'[q].pc = "user" /\ client'[q].tenant = t
        /\ client'[q].id = client[q].id /\ client'[q].known = client[q].known
    <3>1. "user" \in Phases
      BY DEF Phases
    <3> QED BY <1>1, <2>1, <3>1, Finds
  <2>7. row \in Tenants
    BY <2>3 DEF Tenants
  <2>8. UniqueIdentifiers'
    BY <1>1, <2>4, <2>5 DEF MigrationsOK, Serving, UniqueIdentifiers, Columns
  <2>9. TranslatorOK'
    <3>1. t \notin DOMAIN translator.written
      BY <1>1, <2>2 DEF TranslatorOK
    <3>2. \A r \in DOMAIN tenants : Seen'[r] = Seen[r]
      BY <1>1, <2>5 DEF Seen
    <3>3. Seen'[t] = row
      BY <1>1, <2>5, <3>1 DEF Seen
    <3>4. \A r \in DOMAIN tenants : Seen[r].org = id.org => id.org = Nil
      <4>1. \A r \in DOMAIN translator.written : translator.written[r] # id.org
        BY <1>1 DEF Locked, TranslatorOK
      <4>2. \A r \in DOMAIN tenants :
              Seen[r].org = IF r \in DOMAIN translator.written
                              THEN translator.written[r] ELSE tenants[r].org
        BY <1>1 DEF Seen, TypeOK, Tenants
      <4> QED BY <4>1, <4>2, <2>4
    <3>5. \A r, o \in DOMAIN tenants' :
            Serving' /\ Seen'[r].org = Seen'[o].org /\ Seen'[r].org # Nil => r = o
      BY <1>1, <2>5, <3>2, <3>3, <3>4 DEF TranslatorOK
    <3> QED BY <1>1, <2>5, <3>5 DEF TranslatorOK
  <2>10. RequestOK(client[q])'
    BY <1>1, <2>1, <2>5, <2>6, TenantAssumption DEF RequestOK
  <2> HIDE DEF row
  <2>11. /\ DOMAIN tenants' \subseteq Ids
         /\ \A r \in DOMAIN tenants' : tenants'[r] \in Tenants
         /\ DOMAIN users' \subseteq Users
         /\ \A u \in DOMAIN users' : users'[u] \in DOMAIN tenants'
         /\ faults' \in 0..MaxFaults
    BY <1>1, <2>1, <2>5, <2>7 DEF TypeOK
  <2> QED BY <1>1, <2>5, <2>6, <2>8, <2>9, <2>10, <2>11, OneRequestMoves
<1> QED BY <1>2, <1>3

LEMMA StepFindUser ==
    ASSUME TenantsInv, NEW q \in Clients, FindUser(q)
    PROVE  TenantsInv'
<1> DEFINE user == client[q].id.user
           to == IF \/ user = Nil
                    \/ user \in DOMAIN users /\ users[user] = client[q].tenant
                   THEN "served" ELSE "addUser"
<1>1. TypeOK /\ RequestOK(client[q]) /\ Serving /\ client[q].pc = "user"
      /\ UNCHANGED <<migrationVars, translator, faults, refresh>>
      /\ Goto(q, to)
  BY RunningServes DEF TenantsInv, FindUser, At
<1>2. to \in Phases /\ to \in {"served", "addUser"} /\ (to = "addUser" => user # Nil)
  BY DEF Phases
<1> HIDE DEF to
<1>3. /\ client' \in [Clients -> Requests]
      /\ \A p \in Clients \ {q} : client'[p] = client[p]
      /\ client'[q].pc = to /\ client'[q].tenant = client[q].tenant
      /\ client'[q].id = client[q].id /\ client'[q].known = client[q].known
  BY <1>1, <1>2, Goes
<1>4. RequestOK(client[q])'
  BY <1>1, <1>2, <1>3 DEF RequestOK, migrationVars
<1> QED BY <1>1, <1>3, <1>4, OnlyOneRequestMoves DEF TypeOK, migrationVars

LEMMA StepAddUser ==
    ASSUME TenantsInv, NEW q \in Clients, AddUser(q)
    PROVE  TenantsInv'
<1> DEFINE user == client[q].id.user
<1>1. TypeOK /\ RequestOK(client[q]) /\ Serving /\ client[q].pc = "addUser"
      /\ UNCHANGED <<tenants, step, groups, before, translator, faults, refresh>>
  BY RunningServes DEF TenantsInv, AddUser, At
<1>2. user \in Users /\ client[q].tenant \in DOMAIN tenants
  BY <1>1, IdentityTypes DEF RequestOK, TypeOK, Requests
<1>3. \/ users' = users /\ Goto(q, "failed")
      \/ /\ users' = [u \in DOMAIN users \cup {user} |->
                        IF u = user THEN client[q].tenant ELSE users[u]]
         /\ Goto(q, "served")
  BY DEF AddUser, With
<1>4. DOMAIN users' \subseteq Users /\ \A u \in DOMAIN users' : users'[u] \in DOMAIN tenants
  BY <1>1, <1>2, <1>3 DEF TypeOK
<1>5. /\ client' \in [Clients -> Requests]
      /\ \A p \in Clients \ {q} : client'[p] = client[p]
      /\ client'[q].pc \in {"failed", "served"} /\ client'[q].tenant = client[q].tenant
      /\ client'[q].id = client[q].id /\ client'[q].known = client[q].known
  <2>1. "failed" \in Phases /\ "served" \in Phases
    BY DEF Phases
  <2> QED BY <1>1, <1>3, <2>1, Goes
<1>6. RequestOK(client[q])'
  BY <1>1, <1>5 DEF RequestOK
<1> QED BY <1>1, <1>4, <1>5, <1>6, OnlyOneRequestMoves DEF TypeOK

LEMMA StepFail ==
    ASSUME TenantsInv, NEW q \in Clients, Fail(q)
    PROVE  TenantsInv'
<1> DEFINE to == IF At(q, "user") THEN "addUser" ELSE "failed"
<1>1. TypeOK /\ RequestOK(client[q]) /\ Serving
      /\ client[q].pc \in {"byOrg", "byAccount", "insert", "user", "addUser"}
      /\ UNCHANGED <<migrationVars, translator, refresh>>
      /\ Goto(q, to) /\ faults' = faults + 1 /\ faults < MaxFaults
      /\ (client[q].pc = "user" => client[q].id.user # Nil)
  BY RunningServes DEF TenantsInv, Fail, At
<1>2. to \in Phases /\ to \in {"addUser", "failed"} /\ (to = "addUser" => client[q].pc = "user")
  BY DEF Phases, At
<1> HIDE DEF to
<1>3. /\ client' \in [Clients -> Requests]
      /\ \A p \in Clients \ {q} : client'[p] = client[p]
      /\ client'[q].pc = to /\ client'[q].tenant = client[q].tenant
      /\ client'[q].id = client[q].id /\ client'[q].known = client[q].known
  BY <1>1, <1>2, Goes
<1>4. RequestOK(client[q])'
  BY <1>1, <1>2, <1>3 DEF RequestOK, migrationVars
<1>5. faults' \in 0..MaxFaults
  BY <1>1, RequestAssumption DEF TypeOK
<1> QED BY <1>1, <1>3, <1>4, <1>5, OnlyOneRequestMoves DEF TypeOK, migrationVars

LEMMA StepRetry ==
    ASSUME TenantsInv, NEW q \in Clients, Retry(q)
    PROVE  TenantsInv'
<1> DEFINE k == First(Holding("org", client[q].id.org))
<1>1. TypeOK /\ Serving
      /\ client' = [client EXCEPT ![q].pc = "byOrg", ![q].tenant = Nil, ![q].known = k]
      /\ UNCHANGED <<migrationVars, translator, faults, refresh>>
  BY RunningServes DEF TenantsInv, Retry, At
<1>2. client[q].id \in Identities \cup Senders \cup {Nobody}
  BY <1>1 DEF TypeOK, Requests
<1>3. /\ k \in Ids \cup {Nil}
      /\ k # Nil => k \in DOMAIN tenants /\ tenants[k].org = client[q].id.org
                    /\ client[q].id.org \in Orgs
  BY <1>1, <1>2, Knows
<1> HIDE DEF k
<1>4. /\ client' \in [Clients -> Requests]
      /\ \A p \in Clients \ {q} : client'[p] = client[p]
      /\ client'[q].pc = "byOrg" /\ client'[q].tenant = Nil
      /\ client'[q].id = client[q].id /\ client'[q].known = k
  BY ZenonT(30), <1>1, <1>3 DEF TypeOK, Requests, Phases
<1>5. RequestOK(client[q])'
  BY <1>1, <1>3, <1>4 DEF RequestOK, migrationVars
<1> QED BY <1>1, <1>4, <1>5, OnlyOneRequestMoves DEF TypeOK, migrationVars

-----------------------------------------------------------------------------
(* The translation.                                                        *)

\* It only writes tenants when it commits.
LEMMA OnlyTranslatorMoves ==
    ASSUME TenantsInv, Serving, UNCHANGED <<migrationVars, client, faults, refresh>>,
           translator' \in Translations, TranslatorOK'
    PROVE  TenantsInv'
<1>1. Serving'
  BY DEF Serving, migrationVars
<1>2. TypeOK'
  BY <1>1 DEF TenantsInv, TypeOK, migrationVars
<1>3. MigrationsOK' /\ IndexesCreated' /\ MergedTogether' /\ OrgIdWins'
  BY <1>1 DEF TenantsInv, MigrationsOK, IndexesCreated, MergedTogether, Unmerged, Serving,
              UniqueIdentifiers, OrgIdWins, At, migrationVars
<1>4. \A q \in Clients : RequestOK(client[q])'
  BY DEF TenantsInv, RequestOK, migrationVars
<1> QED BY <1>1, <1>2, <1>3, <1>4 DEF TenantsInv

LEMMA TranslatingServes ==
    ASSUME TenantsInv, translator.phase # "idle"
    PROVE  Serving
BY DEF TenantsInv, NotTranslating

LEMMA StepCount ==
    ASSUME TenantsInv, CountTenants
    PROVE  TenantsInv'
<1> DEFINE n == (Cardinality(Untranslated) + BatchSize - 1) \div BatchSize
<1>1. TypeOK /\ TranslatorOK /\ Serving
      /\ UNCHANGED <<migrationVars, client, faults, refresh>>
      /\ translator' = [NotTranslating EXCEPT !.phase = "batch", !.batches = n]
  BY DEF TenantsInv, CountTenants
<1>2. n \in Nat
  <2>1. IsFiniteSet(Ids) /\ Untranslated \in SUBSET Ids
    BY <1>1, FS_Interval, TenantAssumption DEF Untranslated, TypeOK, Ids
  <2>2. Cardinality(Untranslated) \in Nat
    BY <2>1, FS_Subset, FS_CardinalityType
  <2>3. \A c \in Nat, b \in Nat \ {0} : (c + b - 1) \div b \in Nat
    BY SMT
  <2> QED BY <2>2, <2>3, RequestAssumption
<1> HIDE DEF n
<1>3. /\ translator' \in Translations /\ translator'.phase = "batch"
      /\ translator'.written = NotTranslating.written
  BY <1>1, <1>2, NoTranslation DEF Translations
<1>4. DOMAIN translator'.written = {} /\ DOMAIN translator.written = {}
  BY <1>3, <1>1, NoTranslation DEF CountTenants, TranslatorOK
<1>5. TranslatorOK'
  <2>1. \A t \in DOMAIN tenants : Seen'[t] = tenants[t] /\ Seen[t] = tenants[t]
    BY <1>1, <1>4 DEF Seen, migrationVars
  <2> QED BY <1>1, <1>3, <1>4, <2>1 DEF TranslatorOK, migrationVars, Serving
<1> QED BY <1>1, <1>3, <1>5, OnlyTranslatorMoves

LEMMA StepPluck ==
    ASSUME TenantsInv, PluckAccounts
    PROVE  TenantsInv'
<1>1. TypeOK /\ TranslatorOK /\ Serving /\ translator.phase = "batch"
      /\ UNCHANGED <<migrationVars, client, faults, refresh>>
  BY TranslatingServes DEF TenantsInv, PluckAccounts
<1>2. CASE translator' = [translator EXCEPT !.phase = "error", !.written = <<>>]
  <2>1. /\ translator' \in Translations /\ translator'.phase = "error"
        /\ DOMAIN translator'.written = {}
    <3>1. <<>> \in UNION {[S -> Orgs] : S \in SUBSET Ids} /\ DOMAIN <<>> = {}
      BY EmptyFunction
    <3> QED BY <1>1, <1>2, <3>1 DEF TypeOK, Translations
  <2>2. \A t \in DOMAIN tenants : Seen'[t] = tenants[t]
    BY <1>1, <2>1 DEF Seen, migrationVars
  <2>3. \A t, o \in DOMAIN tenants : tenants[t].org = tenants[o].org
                                     /\ tenants[t].org # Nil => t = o
    BY <1>1 DEF TenantsInv, MigrationsOK, UniqueIdentifiers, Columns, Serving
  <2>4. TranslatorOK'
    BY <1>1, <2>1, <2>2, <2>3 DEF TranslatorOK, migrationVars, Serving
  <2> QED BY <1>1, <2>1, <2>4, OnlyTranslatorMoves
<1>3. CASE translator' = [translator EXCEPT
                            !.phase = "results", !.batches = @ - 1,
                            !.todo = {Seen[t].account : t \in Untranslated}]
  <2>1. \A t \in DOMAIN tenants :
          /\ Seen[t].account = tenants[t].account
          /\ Seen[t].org = IF t \in DOMAIN translator.written
                             THEN translator.written[t] ELSE tenants[t].org
    BY <1>1 DEF Seen, TypeOK, Tenants
  <2>2. translator.batches > 0
    BY DEF PluckAccounts
  <2>3. \A t \in Untranslated : Seen[t].account \in Accounts \cup {Empty} \cup Marks
    BY <1>1, <2>1 DEF Untranslated, TypeOK, Tenants
  <2>4. /\ translator' \in Translations /\ translator'.phase = "results"
        /\ translator'.written = translator.written
        /\ translator'.todo = {Seen[t].account : t \in Untranslated}
    <3> DEFINE names == {Seen[t].account : t \in Untranslated}
    <3>1. names \in SUBSET (Accounts \cup {Empty} \cup Marks)
      BY <2>3
    <3>2. translator.batches - 1 \in Nat
      BY <1>1, <2>2 DEF TypeOK, Translations
    <3> HIDE DEF names
    <3>3. translator' = [translator EXCEPT !.phase = "results",
                           !.batches = translator.batches - 1, !.todo = names]
      BY <1>3 DEF names
    <3>4. /\ translator' \in Translations /\ translator'.phase = "results"
          /\ translator'.written = translator.written /\ translator'.todo = names
      BY <1>1, <3>1, <3>2, <3>3 DEF TypeOK, Translations
    <3> QED BY <3>4 DEF names
  <2>5. \A t \in Untranslated : t \in DOMAIN tenants /\ tenants[t].org = Nil
    <3>1. \A t \in DOMAIN translator.written : translator.written[t] \in Orgs
      BY <1>1 DEF TypeOK, Translations
    <3> QED BY <2>1, <3>1, TenantAssumption DEF Untranslated, Values
  <2>6. \A t \in DOMAIN tenants : Seen'[t] = Seen[t]
    BY <1>1, <2>4 DEF Seen, migrationVars
  <2>7. TranslatorOK'
    BY <1>1, <2>1, <2>4, <2>5, <2>6 DEF TranslatorOK, migrationVars, Serving
  <2> QED BY <1>1, <2>4, <2>7, OnlyTranslatorMoves
<1> QED BY <1>2, <1>3 DEF PluckAccounts

LEMMA StepSkip ==
    ASSUME TenantsInv, NEW a, SkipAccount(a)
    PROVE  TenantsInv'
<1>1. TypeOK /\ TranslatorOK /\ Serving /\ translator.phase = "results"
      /\ UNCHANGED <<migrationVars, client, faults, refresh>>
      /\ translator' = [translator EXCEPT !.todo = @ \ {a}]
  BY TranslatingServes DEF TenantsInv, SkipAccount
<1>2. /\ translator' \in Translations /\ translator'.phase = "results"
      /\ translator'.written = translator.written
      /\ translator'.todo = translator.todo \ {a}
  BY <1>1 DEF TypeOK, Translations
<1>3. TranslatorOK'
  BY <1>1, <1>2 DEF TranslatorOK, Seen, migrationVars, Serving
<1> QED BY <1>1, <1>2, <1>3, OnlyTranslatorMoves

LEMMA StepEndBatch ==
    ASSUME TenantsInv, EndBatch
    PROVE  TenantsInv'
<1>1. TypeOK /\ TranslatorOK /\ Serving
      /\ UNCHANGED <<migrationVars, client, faults, refresh>>
      /\ translator' = [translator EXCEPT !.phase = "batch"]
  BY TranslatingServes DEF TenantsInv, EndBatch
<1>2. /\ translator' \in Translations /\ translator'.phase = "batch"
      /\ translator'.written = translator.written
  BY <1>1 DEF TypeOK, Translations
<1>3. TranslatorOK'
  BY <1>1, <1>2 DEF TranslatorOK, Seen, migrationVars, Serving
<1> QED BY <1>1, <1>2, <1>3, OnlyTranslatorMoves

\* The row of the account number has no org id, and no other has the new one.
LEMMA StepTranslate ==
    ASSUME TenantsInv, NEW a, TranslateAccount(a)
    PROVE  TenantsInv'
<1> DEFINE t == First({r \in DOMAIN tenants : tenants[r].account = a})
           refused == translator.aborted
                      \/ \E r \in DOMAIN tenants \ {t} : Seen[r].org = OrgOf[a]
<1>1. TypeOK /\ TranslatorOK /\ Serving /\ translator.phase = "results"
      /\ a \in translator.todo \cap Accounts
      /\ UNCHANGED <<migrationVars, client, faults, refresh>>
  BY TranslatingServes DEF TenantsInv, TranslateAccount
<1>2. CASE refused /\ translator' = [translator EXCEPT !.todo = @ \ {a}, !.aborted = TRUE]
  <2>1. /\ translator' \in Translations /\ translator'.phase = "results"
        /\ translator'.written = translator.written
        /\ translator'.todo = translator.todo \ {a}
    BY <1>1, <1>2 DEF TypeOK, Translations
  <2>2. TranslatorOK'
    BY <1>1, <2>1 DEF TranslatorOK, Seen, migrationVars, Serving
  <2> QED BY <1>1, <2>1, <2>2, OnlyTranslatorMoves
<1>3. CASE ~refused /\ translator' = [translator EXCEPT !.todo = @ \ {a},
                                          !.written = With(@, t, OrgOf[a])]
  <2>1. t \in DOMAIN tenants /\ tenants[t].account = a
    <3>1. {r \in DOMAIN tenants : tenants[r].account = a} \in SUBSET Ids
      BY <1>1 DEF TypeOK
    <3>2. {r \in DOMAIN tenants : tenants[r].account = a} # {}
      BY <1>1 DEF TranslatorOK
    <3> QED BY <3>1, <3>2, FirstOf
  <2>2. tenants[t].org = Nil
    <3>1. PICK r \in DOMAIN tenants : tenants[r].account = a /\ tenants[r].org = Nil
      BY <1>1 DEF TranslatorOK
    <3>2. a # Nil
      BY <1>1, TenantAssumption DEF Values
    <3>3. r = t
      BY <1>1, <2>1, <3>1, <3>2 DEF TenantsInv, MigrationsOK, UniqueIdentifiers, Columns, Serving
    <3> QED BY <3>1, <3>3
  <2>3. OrgOf[a] \in Orgs /\ \A r \in DOMAIN tenants \ {t} : Seen[r].org # OrgOf[a]
    BY <1>1, <1>3, RequestAssumption
  <2> HIDE DEF t, refused
  <2>4. /\ translator' \in Translations /\ translator'.phase = "results"
        /\ translator'.todo = translator.todo \ {a}
        /\ translator'.written = With(translator.written, t, OrgOf[a])
    <3>1. With(translator.written, t, OrgOf[a]) \in UNION {[S -> Orgs] : S \in SUBSET Ids}
      <4> DEFINE D == DOMAIN translator.written \cup {t}
      <4>1. /\ DOMAIN translator.written \subseteq Ids
            /\ \A r \in DOMAIN translator.written : translator.written[r] \in Orgs
        BY <1>1 DEF TypeOK, Translations
      <4>2. D \in SUBSET Ids
        BY <1>1, <2>1, <4>1 DEF TypeOK
      <4>3. With(translator.written, t, OrgOf[a]) \in [D -> Orgs]
        BY <2>3, <4>1 DEF With
      <4> HIDE DEF D
      <4> QED BY <4>2, <4>3
    <3> QED BY <1>1, <1>3, <3>1 DEF TypeOK, Translations
  <2>5. /\ DOMAIN translator'.written = DOMAIN translator.written \cup {t}
        /\ translator'.written[t] = OrgOf[a]
        /\ \A r \in DOMAIN translator.written \ {t} :
              translator'.written[r] = translator.written[r]
    BY <2>4 DEF With
  <2>6. Seen'[t].org = OrgOf[a] /\ \A r \in DOMAIN tenants \ {t} : Seen'[r] = Seen[r]
    BY <1>1, <2>1, <2>5 DEF Seen, migrationVars, TypeOK, Tenants
  <2>7. TranslatorOK'
    BY <1>1, <2>1, <2>2, <2>3, <2>4, <2>5, <2>6 DEF TranslatorOK, migrationVars, Serving
  <2> QED BY <1>1, <2>4, <2>7, OnlyTranslatorMoves
<1> QED BY <1>2, <1>3 DEF TranslateAccount

\* A tenant that gets an org id had none.
LEMMA StepCommit ==
    ASSUME TenantsInv, CommitTranslation
    PROVE  /\ TenantsInv'
           /\ DOMAIN tenants' = DOMAIN tenants
           /\ \A t \in DOMAIN tenants :
                 /\ tenants'[t].account = tenants[t].account
                 /\ \/ tenants'[t].org = tenants[t].org
                    \/ /\ tenants[t].account \in Accounts /\ tenants[t].org = Nil
                       /\ tenants'[t].org = OrgOf[tenants[t].account]
<1>1. TypeOK /\ TranslatorOK /\ Serving
      /\ UNCHANGED <<users, step, groups, before, client, faults, refresh>>
      /\ translator' = [translator EXCEPT !.written = <<>>,
                           !.phase = IF translator.aborted THEN "error" ELSE "done"]
      /\ tenants' = IF translator.aborted THEN tenants ELSE Seen
  BY TranslatingServes DEF TenantsInv, CommitTranslation
<1>2. /\ translator' \in Translations /\ translator'.phase \in {"error", "done"}
      /\ DOMAIN translator'.written = {}
  <2>1. <<>> \in UNION {[S -> Orgs] : S \in SUBSET Ids} /\ DOMAIN <<>> = {}
    BY EmptyFunction
  <2> QED BY <1>1, <2>1 DEF TypeOK, Translations
<1>3. \A t \in DOMAIN tenants :
        /\ Seen[t] \in Tenants
        /\ Seen[t].account = tenants[t].account
        /\ Seen[t].org = IF t \in DOMAIN translator.written
                           THEN translator.written[t] ELSE tenants[t].org
  <2>1. \A t \in DOMAIN translator.written : translator.written[t] \in Orgs
    BY <1>1 DEF TypeOK, Translations
  <2> QED BY <1>1, <2>1 DEF Seen, TypeOK, Tenants
<1>4. DOMAIN Seen = DOMAIN tenants
  BY DEF Seen
<1>5. /\ DOMAIN tenants' = DOMAIN tenants
      /\ \A t \in DOMAIN tenants :
            /\ tenants'[t] \in Tenants
            /\ tenants'[t].account = tenants[t].account
            /\ \/ tenants'[t].org = tenants[t].org
               \/ /\ tenants[t].account \in Accounts /\ tenants[t].org = Nil
                  /\ tenants'[t].org = OrgOf[tenants[t].account]
  BY <1>1, <1>3, <1>4 DEF TranslatorOK, TypeOK
<1>6. TypeOK'
  BY <1>1, <1>2, <1>5 DEF TypeOK, Serving
<1>7. UniqueIdentifiers'
  <2>1. UniqueIdentifiers
    BY <1>1 DEF TenantsInv, MigrationsOK, Serving
  <2>2. \A t, o \in DOMAIN tenants :
          tenants'[t].account = tenants'[o].account /\ tenants'[t].account # Nil => t = o
    BY <1>5, <2>1 DEF UniqueIdentifiers, Columns
  <2>3. \A t, o \in DOMAIN tenants :
          tenants'[t].org = tenants'[o].org /\ tenants'[t].org # Nil => t = o
    BY <1>1, <2>1 DEF UniqueIdentifiers, Columns, TranslatorOK
  <2> QED BY <1>5, <2>2, <2>3 DEF UniqueIdentifiers, Columns
<1>8. TranslatorOK'
  <2>1. \A t \in DOMAIN tenants' : Seen'[t] = tenants'[t]
    BY <1>2 DEF Seen
  <2> QED BY <1>2, <1>7, <2>1 DEF TranslatorOK, UniqueIdentifiers, Columns
<1>9. MigrationsOK' /\ IndexesCreated' /\ MergedTogether' /\ OrgIdWins'
  BY <1>1, <1>7 DEF TenantsInv, MigrationsOK, IndexesCreated, MergedTogether, Unmerged, Serving,
                    OrgIdWins, At
<1>10. \A q \in Clients : RequestOK(client[q])'
  BY <1>1, <1>5, TenantAssumption DEF TenantsInv, RequestOK, Values
<1> QED BY <1>1, <1>5, <1>6, <1>7, <1>8, <1>9, <1>10 DEF TenantsInv, Serving

-----------------------------------------------------------------------------
LEMMA StepInv == TenantsInv /\ [Next]_vars => TenantsInv'
<1> SUFFICES ASSUME TenantsInv, [Next]_vars PROVE TenantsInv'
  OBVIOUS
<1>1. CASE UNCHANGED vars
  <2>1. Serving' = Serving /\ Seen' = Seen
    BY <1>1 DEF Serving, Seen, vars, migrationVars, requestVars
  <2> QED BY SMTT(30), <1>1, <2>1
      DEF TenantsInv, TypeOK, MigrationsOK, IndexesCreated, MergedTogether,
        Unmerged, GroupsOK, RowsOK, OwnersOK, UniqueIdentifiers, AccountOf, Waits, Original,
        ToMerge, RequestOK, TranslatorOK, OrgIdWins, At, vars, migrationVars, requestVars
<1>2. CASE Migrate /\ UNCHANGED requestVars
  BY <1>2, StepMigrateInv
<1>3. ASSUME NEW q \in Clients, NEW id \in Identities, Arrive(q, id)
      PROVE  TenantsInv'
  BY <1>3, StepArrive
<1>4. ASSUME NEW q \in Clients, NEW id \in Senders, HearMessage(q, id)
      PROVE  TenantsInv'
  BY <1>4, StepHear
<1>5. ASSUME NEW q \in Clients, RequestStep(q) \/ Fail(q)
      PROVE  TenantsInv'
  BY <1>5, StepFindByOrg, StepFindByAccount, StepInsert, StepFindUser, StepAddUser,
     StepFail, StepRetry DEF RequestStep
<1>6. CASE CountTenants
  BY <1>6, StepCount
<1>7. CASE TranslatorStep
  BY <1>7, StepPluck, StepEndBatch, StepCommit, StepSkip, StepTranslate DEF TranslatorStep
<1> QED BY <1>1, <1>2, <1>3, <1>4, <1>5, <1>6, <1>7 DEF Next

(* The migrations always get through and keep together what belonged       *)
(* together; then identifiers are unique, and a request whose org id had a *)
(* tenant is served in that one, whichever requests and translations run   *)
(* next to it.                                                             *)
THEOREM TenantsSafe == Spec => []TenantsInv
<1>1. TenantsInv /\ [Next]_vars => TenantsInv'
  BY StepInv
<1> QED BY InitInv, <1>1, PTL DEF Spec

(* A request only goes on to its handler with a user of its tenant.         *)
THEOREM UserSafe == Spec => UserOfItsTenant
<1>1. TenantsInv /\ [Next]_vars =>
        [\A q \in Clients :
          ~At(q, "served") /\ At(q, "served")' /\ client[q].id.user # Nil =>
              users'[client[q].id.user] = client[q].tenant]_vars
  <2> SUFFICES ASSUME TenantsInv, Next, NEW q \in Clients,
                      ~At(q, "served"), At(q, "served")', client[q].id.user # Nil
               PROVE  users'[client[q].id.user] = client[q].tenant
    OBVIOUS
  <2>1. TypeOK
    BY DEF TenantsInv
  <2>2. client' # client
    BY DEF At
  <2>3. PICK p \in Clients :
           \/ \E id \in Identities : Arrive(p, id)
           \/ \E id \in Senders : HearMessage(p, id)
           \/ RequestStep(p) \/ Fail(p)
    BY <2>2 DEF Next, requestVars, CountTenants, TranslatorStep, PluckAccounts, EndBatch,
                CommitTranslation, SkipAccount, TranslateAccount
  <2>4. p = q
    BY <2>1, <2>3 DEF Arrive, HearMessage, RequestStep, FindByOrg, FindByAccount, InsertTenant,
                      FindUser, AddUser, Retry, Fail, Goto, Found, At, TypeOK
  <2>5. FindUser(q) \/ AddUser(q)
    <3>1. \A to, t : Goto(q, to) \/ Found(q, t, to) => to = "served"
      BY <2>1 DEF Goto, Found, At, TypeOK, Requests
    <3>2. ~FindByOrg(q) /\ ~FindByAccount(q) /\ ~InsertTenant(q) /\ ~Fail(q)
      BY <3>1 DEF FindByOrg, FindByAccount, InsertTenant, Fail
    <3>3. ~Retry(q)
      BY <2>1 DEF Retry, At, TypeOK, Requests
    <3>4. \A id : ~Arrive(q, id) /\ ~HearMessage(q, id)
      BY <2>1 DEF Arrive, HearMessage, At, TypeOK
    <3> QED BY <2>3, <2>4, <3>2, <3>3, <3>4 DEF RequestStep
  <2>6. CASE FindUser(q)
    BY <2>1, <2>6 DEF FindUser, Goto, At, TypeOK, Requests, migrationVars
  <2>7. CASE AddUser(q)
    BY <2>1, <2>7 DEF AddUser, Goto, At, TypeOK, Requests, With
  <2> QED BY <2>5, <2>6, <2>7
<1> QED BY <1>1, TenantsSafe, PTL DEF Spec, UserOfItsTenant

-----------------------------------------------------------------------------
(* Customers. A row whose identifiers are all its own or gone has no more   *)
(* customers than before, and two with a common identifier have the same.  *)
OneCustomer(row) == \A x, y \in CustomersOf(row) : x = y

LEMMA CustomersShrink ==
    ASSUME NEW r, NEW s,
           s.account = r.account \/ s.account \notin Accounts,
           s.org = r.org \/ s.org \notin Orgs
    PROVE  CustomersOf(s) \subseteq CustomersOf(r)
BY DEF CustomersOf

LEMMA SameCustomer ==
    ASSUME NEW r, NEW s, OneCustomer(r), OneCustomer(s),
           \/ r.org = s.org /\ r.org \in Orgs
           \/ r.account = s.account /\ r.account \in Accounts
    PROVE  CustomersOf(r) = CustomersOf(s)
<1>1. \E x : x \in CustomersOf(r) /\ x \in CustomersOf(s)
  BY DEF CustomersOf
<1> QED BY <1>1 DEF OneCustomer

LEMMA IdentitiesApart ==
    ASSUME Coherent, NEW id \in Identities \cup Senders \cup {Nobody}
    PROVE  OneCustomer(id)
<1>1. OneCustomer(Nobody)
  BY TenantAssumption DEF Nobody, CustomersOf, OneCustomer, Values
<1> QED BY <1>1 DEF Coherent, OneCustomer

LEMMA InitApart ==
    ASSUME Coherent, Init
    PROVE  CustomersKeptApart
<1>1. \A t \in DOMAIN tenants : OneCustomer(tenants[t])
  BY DEF Init, InitMigrations, Coherent, OneCustomer
<1> QED BY <1>1 DEF Init, Waiting, CustomersKeptApart, OneCustomer

(* Migrations only take identifiers away.                                   *)
LEMMA MigrateApart ==
    ASSUME TenantsInv, CustomersKeptApart, Migrate, UNCHANGED requestVars
    PROVE  CustomersKeptApart'
<1>1. TypeOK /\ MigrationsOK
  BY DEF TenantsInv
<1>2. \A q \in Clients : client'[q] = Waiting
  BY StepMigrations, TypesOfTables, <1>1 DEF TenantsInv, requestVars, Serving
<1>3. ASSUME NEW t \in DOMAIN tenants'
      PROVE  /\ t \in DOMAIN tenants
             /\ tenants'[t].account = tenants[t].account \/ tenants'[t].account \notin Accounts
             /\ tenants'[t].org = tenants[t].org \/ tenants'[t].org \notin Orgs
  <2>1. CASE MakeEmptyNull
    BY <2>1, TenantAssumption DEF MakeEmptyNull, NoEmpty, Values
  <2>2. CASE FindDuplicates \/ CreateIndexes \/ RemoveMarked
    BY <2>2 DEF FindDuplicates, CreateIndexes, RemoveMarked, tables
  <2>3. ASSUME NEW g \in groups, MergeGroup(g)
        PROVE  /\ t \in DOMAIN tenants
               /\ tenants'[t].account = tenants[t].account \/ tenants'[t].account \notin Accounts
               /\ tenants'[t].org = tenants[t].org \/ tenants'[t].org \notin Orgs
    <3> DEFINE others == DOMAIN g.place \ {MainTenant(g)}
    <3>1. /\ tenants' = [o \in DOMAIN tenants |->
                           IF o \in others
                             THEN [tenants[o] EXCEPT ![g.column] = Mark(g.value, g.place[o])]
                             ELSE tenants[o]]
          /\ step = "merge"
      BY <2>3 DEF MergeGroup, Merge
    <3>2. /\ g.column \in Columns /\ g.value \in Values
          /\ \A o \in DOMAIN g.place : g.place[o] \in Ids
      BY <1>1, <3>1 DEF MigrationsOK, GroupsOK
    <3>3. t \in others => Mark(g.value, g.place[t]) \notin Accounts \cup Orgs
      BY <3>2, MarkOf DEF Values
    <3>4. t \in DOMAIN tenants /\ tenants[t] \in Tenants
      BY <3>1, <1>1 DEF TypeOK
    <3> QED BY <3>1, <3>2, <3>3, <3>4 DEF Tenants, Columns
  <2> QED BY <2>1, <2>2, <2>3 DEF Migrate
<1>4. \A t \in DOMAIN tenants' : CustomersOf(tenants'[t]) \subseteq CustomersOf(tenants[t])
  BY <1>3, CustomersShrink
<1> QED BY <1>2, <1>3, <1>4 DEF CustomersKeptApart, Waiting

(* A request or a message works in tenants of its own customer.             *)
Own(c) == c.pc \in {"user", "addUser", "served", "heard"} /\ c.tenant # Nil =>
            CustomersOf(tenants[c.tenant]) = CustomersOf(c.id)

\* ... when one moves and the tenants stay.
LEMMA OneOwn ==
    ASSUME CustomersKeptApart, NEW q \in Clients, tenants' = tenants,
           \A p \in Clients \ {q} : client'[p] = client[p], Own(client[q])'
    PROVE  CustomersKeptApart'
BY DEF CustomersKeptApart, Own

LEMMA RequestApart ==
    ASSUME Coherent, TenantsInv, CustomersKeptApart, NEW q \in Clients,
           RequestStep(q) \/ Fail(q)
    PROVE  CustomersKeptApart'
<1>1. TypeOK /\ RequestOK(client[q]) /\ MigrationsOK
  BY DEF TenantsInv
<1>2. client[q].id \in Identities \cup Senders \cup {Nobody} /\ client[q] \in Requests
  BY <1>1 DEF TypeOK, Requests
<1>3. OneCustomer(client[q].id) /\ \A t \in DOMAIN tenants : OneCustomer(tenants[t])
  BY <1>2, IdentitiesApart DEF CustomersKeptApart, OneCustomer
<1>4. {"user", "byAccount", "insert", "served", "addUser", "failed"} \subseteq Phases
  BY DEF Phases
<1>5. ASSUME NEW c \in {"org", "account"}, NEW t,
             t = First(Holding(c, client[q].id[c])), t # Nil
      PROVE  t \in DOMAIN tenants /\ CustomersOf(tenants[t]) = CustomersOf(client[q].id)
  <2>1. /\ t \in DOMAIN tenants /\ client[q].id[c] \in Values
        /\ tenants[t][c] = client[q].id[c]
    BY <1>1, <1>5, FirstHolding DEF Columns
  <2>2. /\ client[q].id.account \in Values => client[q].id.account \in Accounts
        /\ client[q].id.org \in Values => client[q].id.org \in Orgs
    BY <1>2, IdentityTypes, TenantAssumption DEF Values
  <2> QED BY <2>1, <2>2, <1>3, SameCustomer
<1>6. CASE FindByOrg(q)
  <2> DEFINE t == First(Holding("org", client[q].id.org))
  <2>1. t # Nil => CustomersOf(tenants[t]) = CustomersOf(client[q].id)
    BY <1>5
  <2>2. t \in Ids \cup {Nil}
    BY <1>1, <1>2, Knows
  <2>3. \/ t # Nil /\ Found(q, t, "user")
        \/ t = Nil /\ Goto(q, "byAccount")
    BY <1>6 DEF FindByOrg
  <2> HIDE DEF t
  <2>4. /\ \A p \in Clients \ {q} : client'[p] = client[p]
        /\ client'[q].id = client[q].id
        /\ \/ t # Nil /\ client'[q].tenant = t
           \/ client'[q].pc = "byAccount"
    BY <1>1, <1>4, <2>2, <2>3, Goes, Finds
  <2>5. tenants' = tenants
    BY <1>6 DEF FindByOrg, migrationVars
  <2>6. Own(client[q])'
    BY <2>1, <2>4, <2>5 DEF Own
  <2> QED BY <2>4, <2>5, <2>6, OneOwn
<1>7. CASE FindByAccount(q)
  <2> DEFINE t == First(Holding("account", client[q].id.account))
  <2>1. t # Nil => CustomersOf(tenants[t]) = CustomersOf(client[q].id)
    BY <1>5
  <2>2. t \in Ids \cup {Nil}
    BY <1>1, FirstHolding DEF Columns
  <2>3. \/ t # Nil /\ Found(q, t, "user")
        \/ t = Nil /\ Goto(q, "insert")
    BY <1>7 DEF FindByAccount
  <2> HIDE DEF t
  <2>4. /\ \A p \in Clients \ {q} : client'[p] = client[p]
        /\ client'[q].id = client[q].id
        /\ \/ t # Nil /\ client'[q].tenant = t
           \/ client'[q].pc = "insert"
    BY <1>1, <1>4, <2>2, <2>3, Goes, Finds
  <2>5. tenants' = tenants
    BY <1>7 DEF FindByAccount, migrationVars
  <2>6. Own(client[q])'
    BY <2>1, <2>4, <2>5 DEF Own
  <2> QED BY <2>4, <2>5, <2>6, OneOwn
<1>8. CASE InsertTenant(q) /\ tenants' # tenants
  <2> DEFINE id == client[q].id
             t == Max(DOMAIN tenants \cup {0}) + 1
  <2>1. /\ t \in Ids
        /\ tenants' = With(tenants, t, [account |-> id.account, org |-> id.org])
        /\ Found(q, t, "user")
    BY <1>8 DEF InsertTenant
  <2>2. t \notin DOMAIN tenants
    BY <1>1, NextIdIsNew
  <2> HIDE DEF t
  <2>3. /\ \A p \in Clients \ {q} : client'[p] = client[p]
        /\ client'[q].id = id /\ client'[q].tenant = t
    BY <1>1, <1>4, <2>1, Finds
  <2>4. /\ DOMAIN tenants' = DOMAIN tenants \cup {t}
        /\ tenants'[t] = [account |-> id.account, org |-> id.org]
        /\ \A o \in DOMAIN tenants : tenants'[o] = tenants[o]
    BY <2>1, <2>2 DEF With
  <2>5. CustomersOf(tenants'[t]) = CustomersOf(id)
    BY <2>4 DEF CustomersOf
  <2>6. \A p \in Clients \ {q} : client[p].tenant # Nil => client[p].tenant \in DOMAIN tenants
    BY DEF TenantsInv, RequestOK
  <2> QED BY <1>3, <2>3, <2>4, <2>5, <2>6 DEF CustomersKeptApart, OneCustomer
<1>9. CASE /\ tenants' = tenants
           /\ InsertTenant(q) \/ FindUser(q) \/ AddUser(q) \/ Fail(q) \/ Retry(q)
  <2>1. \/ \E to \in {"failed", "served", "addUser"} :
              Goto(q, to) /\ (to = "failed" \/ client[q].pc \in {"user", "addUser"})
        \/ Retry(q)
    BY SMTT(30), <1>1, <1>9, NextIdIsNew DEF InsertTenant, FindUser, AddUser, Fail, At, With
  <2>2. /\ \A p \in Clients \ {q} : client'[p] = client[p]
        /\ client'[q].id = client[q].id
        /\ \/ client'[q].pc \in {"failed", "byOrg"}
           \/ client'[q].tenant = client[q].tenant /\ client[q].pc \in {"user", "addUser"}
    <3>1. CASE Retry(q)
      BY <3>1, <1>1, <1>2 DEF Retry, TypeOK, Requests
    <3>2. ASSUME NEW to \in {"failed", "served", "addUser"}, Goto(q, to),
                 to = "failed" \/ client[q].pc \in {"user", "addUser"}
          PROVE  /\ \A p \in Clients \ {q} : client'[p] = client[p]
                 /\ client'[q].id = client[q].id
                 /\ \/ client'[q].pc \in {"failed", "byOrg"}
                    \/ /\ client'[q].tenant = client[q].tenant
                       /\ client[q].pc \in {"user", "addUser"}
      BY <3>2, <1>1, <1>4, Goes
    <3> QED BY <2>1, <3>1, <3>2
  <2>3. Own(client[q])'
    BY <2>2, <1>9 DEF Own, CustomersKeptApart
  <2> QED BY <1>9, <2>2, <2>3, OneOwn
<1>10. FindUser(q) \/ AddUser(q) \/ Fail(q) \/ Retry(q) => tenants' = tenants
  BY DEF FindUser, AddUser, Fail, Retry, migrationVars
<1> QED BY <1>6, <1>7, <1>8, <1>9, <1>10 DEF RequestStep

LEMMA StepApart ==
    ASSUME Coherent, TenantsInv, CustomersKeptApart, [Next]_vars
    PROVE  CustomersKeptApart'
<1>1. TypeOK /\ TranslatorOK /\ MigrationsOK
  BY DEF TenantsInv
<1>2. CASE UNCHANGED vars
  BY <1>2 DEF vars, migrationVars, requestVars, CustomersKeptApart
<1>3. ASSUME NEW q \in Clients, NEW id \in Identities, Arrive(q, id)
      PROVE  CustomersKeptApart'
  <2>1. tenants' = tenants /\ Own(client[q])' /\ \A p \in Clients \ {q} : client'[p] = client[p]
    BY <1>1, <1>3 DEF Arrive, migrationVars, Own, TypeOK
  <2> QED BY <2>1, OneOwn
<1>4. ASSUME NEW q \in Clients, NEW id \in Senders, HearMessage(q, id)
      PROVE  CustomersKeptApart'
  <2> DEFINE found == Holding("org", id.org) \cup Holding("account", id.account)
  <2>1. /\ tenants' = tenants /\ client'[q].id = id /\ client'[q].tenant = First(found)
        /\ \A p \in Clients \ {q} : client'[p] = client[p]
    BY <1>1, <1>4 DEF HearMessage, migrationVars, TypeOK
  <2>2. OneCustomer(id) /\ \A t \in DOMAIN tenants : OneCustomer(tenants[t])
    BY IdentitiesApart DEF CustomersKeptApart, OneCustomer
  <2>3. \A t \in found : CustomersOf(tenants[t]) = CustomersOf(id)
    <3>1. /\ id.account \in Values => id.account \in Accounts
          /\ id.org \in Values => id.org \in Orgs
      BY IdentityTypes, TenantAssumption DEF Values
    <3> QED BY <2>2, <3>1, SameCustomer DEF Holding
  <2>4. found \in SUBSET Ids
    BY <1>1 DEF Holding, TypeOK
  <2> HIDE DEF found
  <2>5. First(found) # Nil => CustomersOf(tenants[First(found)]) = CustomersOf(id)
    BY <2>3, <2>4, FirstOf
  <2>6. Own(client[q])'
    BY <2>1, <2>5 DEF Own
  <2> QED BY <2>1, <2>6, OneOwn
<1>5. CASE CommitTranslation
  <2>1. /\ DOMAIN tenants' = DOMAIN tenants /\ client' = client
        /\ \A t \in DOMAIN tenants :
              /\ tenants'[t].account = tenants[t].account
              /\ \/ tenants'[t].org = tenants[t].org
                 \/ /\ tenants[t].account \in Accounts /\ tenants[t].org = Nil
                    /\ tenants'[t].org = OrgOf[tenants[t].account]
    BY <1>5, StepCommit DEF CommitTranslation
  <2>2. \A t \in DOMAIN tenants : CustomersOf(tenants'[t]) = CustomersOf(tenants[t])
    BY <2>1, TenantAssumption, RequestAssumption DEF CustomersOf, Values
  <2>3. \A p \in Clients : client[p].tenant # Nil => client[p].tenant \in DOMAIN tenants
    BY DEF TenantsInv, RequestOK
  <2> QED BY <2>1, <2>2, <2>3 DEF CustomersKeptApart
<1>6. CASE \/ CountTenants \/ PluckAccounts \/ EndBatch
           \/ \E a \in translator.todo : SkipAccount(a) \/ TranslateAccount(a)
  <2>1. tenants' = tenants /\ client' = client
    BY <1>6 DEF CountTenants, PluckAccounts, EndBatch, SkipAccount, TranslateAccount,
                migrationVars
  <2> QED BY <2>1 DEF CustomersKeptApart
<1> QED BY <1>2, <1>3, <1>4, <1>5, <1>6, MigrateApart, RequestApart DEF Next, TranslatorStep

(* If every identity, message and old row has identifiers of one customer   *)
(* only, nobody is ever served in the tenant of another one.               *)
THEOREM KeptApart ==
    ASSUME Coherent
    PROVE  Spec => []CustomersKeptApart
<1>1. Init => CustomersKeptApart
  BY InitApart
<1>2. TenantsInv /\ CustomersKeptApart /\ [Next]_vars => CustomersKeptApart'
  BY StepApart
<1> QED BY <1>1, <1>2, TenantsSafe, PTL DEF Spec

-----------------------------------------------------------------------------
LEMMA StartupInit == ASSUME StartupAssumption PROVE InitStartup => StartupInv
<1> SUFFICES ASSUME InitStartup PROVE StartupInv
  OBVIOUS
<1> USE DEF StartupAssumption, InitStartup
<1>1. StartupTypeOK
  <2>1. PICK k \in 0..N : recorded = 1..k /\ types \in IF k = 0 THEN {{}} ELSE SUBSET Types
    OBVIOUS
  <2>2. recorded \subseteq 1..N /\ applied \subseteq 1..N /\ types \subseteq Types
    BY <2>1
  <2>3. meta \in [Types -> Nat]
    OBVIOUS
  <2> QED BY <2>2, <2>3 DEF StartupTypeOK, Starting
<1>2. MigratedInOrder
  <2>1. PICK k \in 0..N : recorded = 1..k
    OBVIOUS
  <2> QED BY <2>1 DEF MigratedInOrder
<1>3. InstanceOK
  BY DEF InstanceOK, StandsAt, Migrating, Seeding
<1>4. SeedingOK
  BY DEF SeedingOK, MetadataToCome, SavedBy, Seeding
<1> QED BY <1>1, <1>2, <1>3, <1>4 DEF StartupInv

-----------------------------------------------------------------------------
(* Type correctness. That a migration applied or recorded is one of 1..N   *)
(* and that an instance never gets past N + 1 needs InstanceOK.            *)
LEMMA StepTypes ==
    ASSUME StartupAssumption, StartupTypeOK, InstanceOK, [NextStartup]_startupVars
    PROVE  StartupTypeOK'
<1> USE
    DEF StartupAssumption, StartupTypeOK, Starting, Locking,
        Migrating, Seeding, Go, schema, typeTables, locals
<1>1. ASSUME NEW i \in Instances, Step(i)
      PROVE  StartupTypeOK'
  <2>1. CASE Start(i)
    BY <2>1 DEF Start
  <2>2. CASE CheckLock(i) \/ SetLock(i) \/ GetLock(i) \/ DelLock(i)
    BY <2>2 DEF CheckLock, SetLock, GetLock, DelLock
  <2>3. CASE CheckMigration(i)
    BY <2>3 DEF CheckMigration
  <2>4. CASE Apply(i)
    <3>1. at[i] \in 1..N
      BY <2>4 DEF Apply, InstanceOK, StandsAt
    <3> QED BY <2>4, <3>1 DEF Apply
  <2>5. CASE Record(i)
    <3>1. at[i] \in 1..N
      BY <2>5 DEF Record, InstanceOK, StandsAt
    <3>2. recorded' \subseteq 1..N
      BY <2>5, <3>1 DEF Record
    <3>3. at' \in [Instances -> 1..(N + 1)]
      <4>1. at[i] + 1 \in 1..(N + 1)
        BY <3>1
      <4> QED BY <2>5, <4>1 DEF Record
    <3> QED BY <2>5, <3>2, <3>3 DEF Record
  <2>6. CASE LoadTypes(i)
    BY <2>6 DEF LoadTypes
  <2>7. CASE DropTypes(i)
    BY <2>7 DEF DropTypes
  <2>8. CASE WipeMetadata(i)
    BY <2>8 DEF WipeMetadata
  <2>9. CASE EndSeeding(i) \/ PopulateTypeCache(i)
    BY <2>9 DEF EndSeeding, PopulateTypeCache
  <2>10. ASSUME NEW t \in Types, SaveType(i, t)
         PROVE  StartupTypeOK'
    BY <2>10 DEF SaveType
  <2>11. ASSUME NEW t \in Types, CreateMetadata(i, t)
         PROVE  StartupTypeOK'
    BY <2>11 DEF CreateMetadata
  <2> QED BY <1>1, <2>1, <2>2, <2>3, <2>4, <2>5, <2>6, <2>7, <2>8, <2>9, <2>10, <2>11
      DEF Step
<1>2. ASSUME NEW i \in Instances, Stop(i)
      PROVE  StartupTypeOK'
  BY <1>2 DEF Stop
<1>3. CASE Expire
  BY <1>3 DEF Expire
<1>4. CASE UNCHANGED startupVars
  BY <1>4 DEF startupVars
<1> QED BY <1>1, <1>2, <1>3, <1>4 DEF NextStartup

-----------------------------------------------------------------------------
(* The schema only ever gains migrations: no step undoes one.              *)
LEMMA SchemaGrows ==
    ASSUME StartupAssumption, StartupTypeOK, [NextStartup]_startupVars
    PROVE  applied \subseteq applied' /\ recorded \subseteq recorded'
<1> USE DEF schema
<1>1. ASSUME NEW i \in Instances, Step(i)
      PROVE  applied \subseteq applied' /\ recorded \subseteq recorded'
  BY <1>1
  DEF Step, Start, CheckLock, SetLock, CheckMigration,
      Apply, Record, GetLock, DelLock, LoadTypes,
      SaveType, DropTypes, WipeMetadata, CreateMetadata,
      EndSeeding, PopulateTypeCache
<1>2. ASSUME NEW i \in Instances, Stop(i)
      PROVE  applied \subseteq applied' /\ recorded \subseteq recorded'
  BY <1>2 DEF Stop
<1>3. CASE Expire \/ UNCHANGED startupVars
  BY <1>3 DEF Expire, startupVars
<1> QED BY <1>1, <1>2, <1>3 DEF NextStartup

(* An instance keeps its promise when its own variables do not change.     *)
LEMMA OthersStand ==
    ASSUME StartupAssumption, StartupTypeOK, InstanceOK,
           [NextStartup]_startupVars, NEW j \in Instances,
           pc'[j] = pc[j], at'[j] = at[j]
    PROVE  StandsAt(j)'
BY SchemaGrows DEF InstanceOK, StandsAt

LEMMA StepInstance ==
    ASSUME StartupAssumption, StartupTypeOK, MigratedInOrder, InstanceOK,
           [NextStartup]_startupVars
    PROVE  InstanceOK'
<1> USE DEF StartupAssumption, Go, schema, typeTables, locals
<1>1. SUFFICES ASSUME NEW j \in Instances
               PROVE  StandsAt(j)'
  BY DEF InstanceOK
<1>2. at[j] \in 1..(N + 1)
  BY DEF StartupTypeOK
<1>3. ASSUME Step(j)
      PROVE  StandsAt(j)'
  <2> USE DEF InstanceOK, StandsAt, Migrating, Seeding, StartupTypeOK
  <2>1. CASE Start(j) \/ CheckLock(j)
    BY <2>1 DEF Start, CheckLock
  <2>2. CASE SetLock(j)
    BY <2>2, <1>2 DEF SetLock
  <2>3. CASE CheckMigration(j)
    BY <2>3, <1>2 DEF CheckMigration
  <2>4. CASE Apply(j)
    BY <2>4, <1>2 DEF Apply
  <2>5. CASE Record(j)
    BY <2>5, <1>2 DEF Record
  <2>6. CASE GetLock(j) \/ DelLock(j)
    BY <2>6 DEF GetLock, DelLock
  <2>7. CASE \/ LoadTypes(j) \/ DropTypes(j) \/ WipeMetadata(j)
             \/ EndSeeding(j) \/ PopulateTypeCache(j)
    BY <2>7
    DEF LoadTypes, DropTypes, WipeMetadata, EndSeeding,
        PopulateTypeCache
  <2>8. ASSUME NEW t \in Types, SaveType(j, t) \/ CreateMetadata(j, t)
        PROVE  StandsAt(j)'
    BY <2>8 DEF SaveType, CreateMetadata
  <2> QED BY <1>3, <2>1, <2>2, <2>3, <2>4, <2>5, <2>6, <2>7, <2>8 DEF Step
<1>4. ASSUME Stop(j)
      PROVE  StandsAt(j)'
  BY <1>4 DEF Stop, StandsAt, Migrating, Seeding, StartupTypeOK
<1>5. ASSUME NEW i \in Instances, i # j, Step(i) \/ Stop(i)
      PROVE  pc'[j] = pc[j] /\ at'[j] = at[j]
  BY <1>5
  DEF StartupTypeOK, Step, Start, CheckLock, SetLock,
      CheckMigration, Apply, Record, GetLock, DelLock,
      LoadTypes, SaveType, DropTypes, WipeMetadata,
      CreateMetadata, EndSeeding, PopulateTypeCache, Stop
<1>6. CASE Expire \/ UNCHANGED startupVars
  BY <1>6, OthersStand DEF Expire, startupVars
<1> QED BY <1>3, <1>4, <1>5, <1>6, OthersStand DEF NextStartup

-----------------------------------------------------------------------------
LEMMA StepOrder ==
    ASSUME StartupAssumption, StartupTypeOK, MigratedInOrder, InstanceOK,
           [NextStartup]_startupVars
    PROVE  MigratedInOrder'
<1> USE DEF MigratedInOrder, schema
<1>1. ASSUME NEW i \in Instances, Apply(i)
      PROVE  MigratedInOrder'
  BY <1>1 DEF Apply, InstanceOK, StandsAt, Migrating
<1>2. ASSUME NEW i \in Instances, Record(i)
      PROVE  MigratedInOrder'
  BY <1>2 DEF Record, InstanceOK, StandsAt
<1>3. ASSUME NEW i \in Instances, Step(i), ~Apply(i), ~Record(i)
      PROVE  UNCHANGED schema
  BY <1>3
  DEF Step, Start, CheckLock, SetLock, CheckMigration,
      GetLock, DelLock, LoadTypes, SaveType, DropTypes,
      WipeMetadata, CreateMetadata, EndSeeding,
      PopulateTypeCache
<1>4. ASSUME NEW i \in Instances, Stop(i)
      PROVE  UNCHANGED schema
  BY <1>4 DEF Stop
<1>5. CASE Expire \/ UNCHANGED startupVars
  BY <1>5 DEF Expire, startupVars
<1> QED BY <1>1, <1>2, <1>3, <1>4, <1>5 DEF NextStartup

-----------------------------------------------------------------------------
(* The types of the seeds are never dropped, whoever seeds.                *)
LEMMA SeedsStay ==
    ASSUME StartupAssumption, [NextStartup]_startupVars
    PROVE  types \cap Seeds \subseteq types'
<1> USE DEF typeTables
<1>1. ASSUME NEW i \in Instances, Step(i) \/ Stop(i)
      PROVE  types \cap Seeds \subseteq types'
  BY <1>1
  DEF Step, Start, CheckLock, SetLock, CheckMigration,
      Apply, Record, GetLock, DelLock, LoadTypes,
      SaveType, DropTypes, WipeMetadata, CreateMetadata,
      EndSeeding, PopulateTypeCache, Stop
<1>2. CASE Expire \/ UNCHANGED startupVars
  BY <1>2 DEF Expire, startupVars
<1> QED BY <1>1, <1>2 DEF NextStartup

(* The step of one instance leaves what another is doing alone.            *)
LEMMA OneInstanceMoves ==
    ASSUME StartupAssumption, StartupTypeOK, NEW i \in Instances,
           Step(i) \/ Stop(i), NEW j \in Instances, j # i
    PROVE  pc'[j] = pc[j] /\ seen'[j] = seen[j] /\ todo'[j] = todo[j]
BY
DEF StartupTypeOK, Step, Start, CheckLock, SetLock,
    CheckMigration, Apply, Record, GetLock, DelLock,
    LoadTypes, SaveType, DropTypes, WipeMetadata,
    CreateMetadata, EndSeeding, PopulateTypeCache, Stop,
    Go, locals

LEMMA StepSaved ==
    ASSUME StartupAssumption, StartupTypeOK, SeedingOK,
           [NextStartup]_startupVars, NEW j \in Instances
    PROVE  SavedBy(j)'
<1> USE DEF StartupAssumption, Go, typeTables, locals
<1>1. SavedBy(j)  BY DEF SeedingOK
<1>2. ASSUME pc'[j] = pc[j], seen'[j] = seen[j], todo'[j] = todo[j]
      PROVE  SavedBy(j)'
  BY <1>1, <1>2, SeedsStay DEF SavedBy
<1>3. ASSUME Step(j)  PROVE SavedBy(j)'
  <2> USE <1>1 DEF SavedBy, Seeding, StartupTypeOK
  <2>1. CASE \/ Start(j) \/ CheckLock(j) \/ SetLock(j) \/ CheckMigration(j)
             \/ Apply(j) \/ Record(j) \/ GetLock(j) \/ DelLock(j)
    BY <2>1
    DEF Start, CheckLock, SetLock, CheckMigration, Apply,
        Record, GetLock, DelLock
  <2>2. CASE LoadTypes(j)
    BY <2>2 DEF LoadTypes
  <2>3. ASSUME NEW t \in Types, SaveType(j, t)  PROVE SavedBy(j)'
    BY <2>3 DEF SaveType
  <2>4. CASE DropTypes(j)
    BY <2>4 DEF DropTypes
  <2>5. CASE WipeMetadata(j) \/ EndSeeding(j) \/ PopulateTypeCache(j)
    BY <2>5 DEF WipeMetadata, EndSeeding, PopulateTypeCache
  <2>6. ASSUME NEW t \in Types, CreateMetadata(j, t)  PROVE SavedBy(j)'
    BY <2>6 DEF CreateMetadata
  <2> QED BY <1>3, <2>1, <2>2, <2>3, <2>4, <2>5, <2>6 DEF Step
<1>4. ASSUME Stop(j)  PROVE SavedBy(j)'
  BY <1>4 DEF Stop, SavedBy, Seeding, StartupTypeOK
<1>5. ASSUME NEW i \in Instances, i # j,
             Step(i) \/ Stop(i)  PROVE SavedBy(j)'
  BY <1>2, <1>5, OneInstanceMoves
<1>6. CASE Expire \/ UNCHANGED startupVars
  BY <1>2, <1>6 DEF Expire, startupVars
<1> QED BY <1>3, <1>4, <1>5, <1>6 DEF NextStartup

(* Whatever a wipe takes, the server that wiped creates again: when several *)
(* do it at a time, the one that wiped last.                               *)
LEMMA StepMetadata ==
    ASSUME StartupAssumption, StartupTypeOK, SeedingOK, [NextStartup]_startupVars
    PROVE  MetadataToCome'
<1> USE DEF StartupAssumption, Go, typeTables, locals
<1>1. MetadataToCome /\ \A i \in Instances : SavedBy(i)  BY DEF SeedingOK
<1>2. ASSUME clean' => clean, UNCHANGED <<meta, todo>>,
             \A i \in Servers : pc'[i] = "meta" <=> pc[i] = "meta",
             \A i \in Servers : pc'[i] \in {"cache", "up"} =>
                               pc[i] \in {"meta", "cache", "up"}
      PROVE  MetadataToCome'
  BY <1>1, <1>2 DEF MetadataToCome
<1>3. ASSUME NEW i \in Instances, Step(i)  PROVE MetadataToCome'
  <2>1. CASE \/ CheckLock(i) \/ SetLock(i) \/ Apply(i)
             \/ GetLock(i) \/ DelLock(i)
    BY <1>2, <2>1
    DEF CheckLock, SetLock, Apply, GetLock, DelLock,
        StartupTypeOK
  <2>2. CASE \/ CheckMigration(i) \/ Record(i) \/ DropTypes(i)
             \/ PopulateTypeCache(i)
    BY <1>2, <2>2
    DEF CheckMigration, Record, DropTypes, PopulateTypeCache,
        StartupTypeOK
  <2>3. ASSUME pc[i] \in {"down", "load", "types"}, UNCHANGED <<meta, clean>>,
               pc'[i] \notin {"meta", "cache", "up"}
        PROVE  MetadataToCome'
    <3>1. ASSUME NEW j \in Servers, j # i
          PROVE  pc'[j] = pc[j] /\ todo'[j] = todo[j]
      BY <1>3, <3>1, OneInstanceMoves
    <3>. QED  BY <1>1, <2>3, <3>1 DEF MetadataToCome
  <2>4. CASE Start(i) \/ LoadTypes(i)
    BY <2>3, <2>4 DEF Start, LoadTypes, StartupTypeOK
  <2>5. ASSUME NEW t \in Types, SaveType(i, t)  PROVE MetadataToCome'
    BY <2>3, <2>5 DEF SaveType, StartupTypeOK
  <2>6. CASE WipeMetadata(i)
    <3>1. i \in Servers  BY <1>1, <2>6 DEF WipeMetadata, SavedBy, Seeding
    <3>2. pc'[i] = "meta" /\ todo'[i] = Seeds  BY <2>6
          DEF WipeMetadata, StartupTypeOK
    <3> QED BY <3>1, <3>2 DEF MetadataToCome
  <2>7. ASSUME NEW t \in Types, CreateMetadata(i, t)  PROVE MetadataToCome'
    <3>1. /\ UNCHANGED <<pc, clean>> /\ i \in Instances /\ pc[i] = "meta"
          /\ meta'[t] > 0
          /\ \A u \in Types : u # t => meta'[u] = meta[u]
          /\ \A j \in Instances : todo[j] \ {t} \subseteq todo'[j]
      BY <2>7 DEF CreateMetadata, StartupTypeOK
    <3>2. Seeds \subseteq Types /\ Servers \subseteq Instances  OBVIOUS
    <3> QED BY <1>1, <3>1, <3>2 DEF MetadataToCome
  <2>8. CASE EndSeeding(i)
    <3>1. /\ UNCHANGED <<meta, todo, clean>> /\ todo[i] = {} /\ pc[i] = "meta"
          /\ \A j \in Instances : j # i => pc'[j] = pc[j]
      BY <2>8 DEF EndSeeding, StartupTypeOK
    <3>2. i \in Servers  BY <1>1, <3>1 DEF SavedBy, Seeding
    <3> QED BY <1>1, <3>1, <3>2 DEF MetadataToCome
  <2> QED BY <1>3, <2>1, <2>2, <2>4, <2>5, <2>6, <2>7, <2>8 DEF Step
<1>4. ASSUME NEW i \in Instances, Stop(i)  PROVE MetadataToCome'
  BY <1>4 DEF Stop, MetadataToCome
<1>5. CASE Expire
  BY <1>2, <1>5 DEF Expire, StartupTypeOK
<1>6. CASE UNCHANGED startupVars
  BY <1>2, <1>6 DEF startupVars
<1> QED BY <1>3, <1>4, <1>5, <1>6 DEF NextStartup

-----------------------------------------------------------------------------
(* For any number of instances, migrations and types: StartupInv is an     *)
(* invariant of the start-up protocol.                                     *)
THEOREM StartupInvariant == SpecStartup => []StartupInv
<1>1. InitStartup => StartupInv
  BY StartupInit, StartupAssumption
<1>2. StartupInv /\ [NextStartup]_startupVars => StartupInv'
  BY StartupAssumption, StepTypes, StepInstance, StepOrder, StepSaved, StepMetadata
  DEF StartupInv, SeedingOK
<1> QED BY <1>1, <1>2, PTL DEF SpecStartup

(* Every variable of the start-up protocol keeps its type.                 *)
THEOREM StartupTypes == SpecStartup => []StartupTypeOK
<1>1. StartupInv => StartupTypeOK
  BY DEF StartupInv
<1> QED BY <1>1, StartupInvariant, PTL

(* Migrations are applied and recorded in their order, however many        *)
(* instances the lock of Migrate lets in at a time.                        *)
THEOREM OrderSafe == SpecStartup => []MigratedInOrder
<1>1. StartupInv => MigratedInOrder
  BY DEF StartupInv
<1> QED BY <1>1, StartupInvariant, PTL

(* dao.Init returns, in any instance, only on a complete schema.           *)
THEOREM ServesMigrated == SpecStartup => []UpMeansMigrated
<1>1. StartupInv => UpMeansMigrated
  BY
  DEF StartupInv, StartupTypeOK, MigratedInOrder, InstanceOK,
      StandsAt, UpMeansMigrated
<1> QED BY <1>1, StartupInvariant, PTL

(* An API server that is up knows every type of the seeds, and while none   *)
(* seeds or was interrupted each type has its metadata, however many        *)
(* servers seeded at a time (seedDatabase has no lock).                    *)
THEOREM SeedsSafe == SpecStartup => []SeedsReady
<1>1. StartupInv => SeedsReady
  BY StartupAssumption DEF StartupInv, SeedingOK, SavedBy,
      MetadataToCome, SeedsReady, CacheCoversSeeds,
      MetadataThere
<1> QED BY <1>1, StartupInvariant, PTL
=============================================================================
