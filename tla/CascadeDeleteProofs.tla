------------------------- MODULE CascadeDeleteProofs -------------------------
(***************************************************************************)
(* The proof that CascadeInv is an invariant of CascadeDelete for any      *)
(* number of rows, credentials and concurrent cascades, and what follows.  *)
(***************************************************************************)
EXTENDS CascadeDelete, TLAPS

(* The five tables are what the rows are made of.                          *)
LEMMA TableFacts ==
    /\ Table \in [1..5 -> SUBSET Rows]
    /\ \A x \in Rows : \E n \in 1..5 : x \in Table[n]
    /\ Table[1] = AppAuths /\ Table[2] = Apps /\ Table[3] = Endpoints
    /\ Table[4] = Conns /\ Table[5] = Sources
BY DEF Table, Rows

(* A target starts and ends at tables of its own; the last one holds it.   *)
LEMMA StageFacts ==
    ASSUME NEW t \in Targets
    PROVE  /\ First(t) \in 1..5 /\ Last(t) \in 1..5 /\ First(t) <= Last(t)
           /\ t \in Table[Last(t)]
           /\ t \in Rows
           /\ \A n \in 1..5 : n > Last(t) => Selected(t) \cap Table[n] = {}
<1>1. CASE t \in Sources
  BY <1>1, TableFacts, TablesAssumption, ShapeAssumption
     DEF First, Last, Targets, Rows
<1>2. CASE t \in Apps
  BY <1>2, TableFacts, TablesAssumption, ShapeAssumption
     DEF First, Last, Targets, Rows, Selected, Dependents
<1>3. CASE t \in Endpoints
  BY <1>3, TableFacts, TablesAssumption, ShapeAssumption
     DEF First, Last, Targets, Rows, Selected, Dependents
<1> QED BY <1>1, <1>2, <1>3 DEF Targets

LEMMA SelectedFacts ==
    ASSUME NEW t \in Targets
    PROVE  Selected(t) \subseteq Rows /\ Dependents(t) \subseteq Rows
BY SMT DEF Selected, Dependents, Targets, Rows

LEMMA RowsAreNoAuths == Rows \cap Auths = {}
BY TablesAssumption DEF Rows

-----------------------------------------------------------------------------
(* Type correctness. That the stage stays within the five tables needs     *)
(* Progress: a cascade stops at the last table of its target.              *)

LEMMA InitType == Init => TypeOK
BY ShapeAssumption DEF Init, TypeOK, PCs, Rows, Targets

LEMMA StepType ==
    ASSUME TypeOK, Progress, [Next]_vars
    PROVE  TypeOK'
<1> USE DEF TypeOK, PCs, Transaction, Cleanup
<1>1. ASSUME NEW c \in Cascades, Step(c)
      PROVE  TypeOK'
  <2>1. CASE Find(c)
    BY <2>1 DEF Find, Visible
  <2>2. CASE DeleteRows(c)
    <3>1. target[c] \in Targets /\ stage[c] \in First(target[c])..Last(target[c])
      BY <2>2 DEF DeleteRows, Progress, CascadeOK
    <3>2. stage'[c] \in 1..5
      BY <2>2, <3>1, StageFacts DEF DeleteRows
    <3> QED BY <2>2, <3>2 DEF DeleteRows
  <2>3. CASE DeleteEndpoint(c)
    BY <2>3, StageFacts, ShapeAssumption DEF DeleteEndpoint, Rows
  <2>4. CASE Rollback(c)
    BY <2>4 DEF Rollback
  <2>5. CASE Commit(c)
    BY <2>5 DEF Commit
  <2>6. ASSUME NEW x \in Rows, Raise(c, x)
        PROVE  TypeOK'
    BY <2>6 DEF Raise
  <2>7. CASE EndRaise(c)
    BY <2>7 DEF EndRaise, First
  <2>8. CASE ListIdsForResource(c)
    <3>1. target[c] \in Targets /\ stage[c] \in First(target[c])..Last(target[c])
      BY <2>8 DEF ListIdsForResource, Progress, CascadeOK
    <3>2. stage'[c] \in 1..5
      BY <2>8, <3>1, StageFacts DEF ListIdsForResource
    <3>3. creds' \in [Cascades -> SUBSET Auths]
      BY <2>8 DEF ListIdsForResource
    <3> QED BY <2>8, <3>2, <3>3 DEF ListIdsForResource
  <2>9. CASE FetchAuths(c)
    BY <2>9 DEF FetchAuths
  <2>10. CASE WipeAuths(c)
    BY <2>10 DEF WipeAuths
  <2>11. ASSUME NEW a \in Auths, RaiseAuth(c, a)
         PROVE  TypeOK'
    BY <2>11 DEF RaiseAuth
  <2>12. CASE Finish(c)
    BY <2>12 DEF Finish
  <2> QED BY <1>1, <2>1, <2>2, <2>3, <2>4, <2>5, <2>6, <2>7, <2>8, <2>9,
             <2>10, <2>11, <2>12 DEF Step
<1>2. ASSUME NEW c \in Cascades, Crash(c)
      PROVE  TypeOK'
  BY <1>2 DEF Crash
<1>3. ASSUME NEW c \in Cascades, NEW t \in Targets, Begin(c, t)
      PROVE  TypeOK'
  BY <1>3, StageFacts DEF Begin
<1>4. CASE Request
  <2>1. ASSUME NEW x \in Rows, InsertRow(x)
        PROVE  TypeOK'
    BY <2>1 DEF InsertRow
  <2>2. ASSUME NEW a \in Auths, LookUpOwner(a) \/ InsertAuth(a)
        PROVE  TypeOK'
    BY <2>2 DEF LookUpOwner, InsertAuth
  <2> QED BY <1>4, <2>1, <2>2 DEF Request
<1>5. CASE UNCHANGED vars
  BY <1>5 DEF vars
<1> QED BY <1>1, <1>2, <1>3, <1>4, <1>5 DEF Next, Terminating
-----------------------------------------------------------------------------
(* Progress. A row or a credential that is gone never comes back, because  *)
(* only what is not yet born is inserted: what a cascade knows about its   *)
(* own rows stays true whatever the others do.                             *)

LEMMA Frame ==
    ASSUME NEW d \in Cascades, TypeOK, Progress,
           live' \cap born \subseteq live, auths' \cap born \subseteq auths,
           born \subseteq born',
           pc'[d] = pc[d], target'[d] = target[d], stage'[d] = stage[d],
           found'[d] = found[d], dels'[d] = dels[d], creds'[d] = creds[d],
           raised'[d] = raised[d]
    PROVE  CascadeOK(d)'
<1>1. CascadeOK(d)
  BY DEF Progress
<1>2. found[d] \cap live' \subseteq live /\ creds[d] \cap auths' \subseteq auths
  BY <1>1 DEF CascadeOK
<1> QED BY <1>1, <1>2 DEF CascadeOK, TypeOK

LEMMA OneCascadeMoves ==
    ASSUME NEW c \in Cascades, TypeOK, Progress, CascadeOK(c)',
           live' \subseteq live, auths' \subseteq auths, UNCHANGED <<born, pending>>,
           \A d \in Cascades \ {c} :
               /\ pc'[d] = pc[d] /\ target'[d] = target[d] /\ stage'[d] = stage[d]
               /\ found'[d] = found[d] /\ dels'[d] = dels[d]
               /\ creds'[d] = creds[d] /\ raised'[d] = raised[d]
    PROVE  Progress'
<1>1. ASSUME NEW d \in Cascades
      PROVE  CascadeOK(d)'
  <2>1. CASE d = c
    BY <2>1
  <2>2. CASE d # c
    <3>1. /\ pc'[d] = pc[d] /\ target'[d] = target[d] /\ stage'[d] = stage[d]
          /\ found'[d] = found[d] /\ dels'[d] = dels[d]
          /\ creds'[d] = creds[d] /\ raised'[d] = raised[d]
      BY <2>2
    <3> QED BY <3>1, Frame
  <2> QED BY <2>1, <2>2
<1>2. BornOK'
  BY DEF Progress, BornOK
<1> QED BY <1>1, <1>2 DEF Progress

(* Two tables have no row in common.                                       *)
LEMMA TablesDisjoint ==
    ASSUME NEW m \in 1..5, NEW n \in 1..5, m # n
    PROVE  Table[m] \cap Table[n] = {}
BY TablesAssumption DEF Table

LEMMA FindKeeps ==
    ASSUME TypeOK, Progress, NEW c \in Cascades, Find(c)
    PROVE  Progress'
<1>1. CascadeOK(c) /\ BornOK
  BY DEF Progress
<1>2. /\ pc[c] = "find" /\ pc'[c] = "delete" /\ stage[c] \in 1..5
      /\ found'[c] \subseteq found[c] \cup (Table[stage[c]] \cap live)
      /\ found[c] \subseteq found'[c]
  BY DEF Find, Visible, TypeOK
<1>3. found'[c] \subseteq born
  BY <1>1, <1>2 DEF CascadeOK, BornOK
<1>4. ASSUME NEW n \in 1..5
      PROVE  /\ n < stage[c] => found'[c] \cap Table[n] \cap live \subseteq dels[c]
             /\ n > stage[c] => found'[c] \cap Table[n] = {}
  <2>1. n # stage[c] => found'[c] \cap Table[n] \subseteq found[c]
    BY <1>2, TablesDisjoint
  <2> QED BY <1>1, <1>2, <2>1 DEF CascadeOK
<1>5. CascadeOK(c)'
  BY <1>1, <1>2, <1>3, <1>4 DEF Find, CascadeOK, Transaction, Cleanup, TypeOK
<1> QED BY <1>5, OneCascadeMoves DEF Find, TypeOK

LEMMA DeleteRowsKeeps ==
    ASSUME TypeOK, Progress, NEW c \in Cascades, DeleteRows(c)
    PROVE  Progress'
<1> DEFINE batch == found[c] \cap Table[stage[c]]
<1>1. CascadeOK(c)
  BY DEF Progress
<1>2. /\ pc[c] = "delete" /\ stage[c] \in 1..5 /\ target[c] \in Targets
      /\ stage[c] \in First(target[c])..Last(target[c])
  BY <1>1 DEF DeleteRows, CascadeOK, TypeOK, Transaction
<1>3. dels[c] \cup (live \cap batch) \subseteq dels'[c]
  BY DEF DeleteRows, TypeOK
<1>4. UNCHANGED <<live, auths, born, pending, target, found, creds, raised>>
  BY DEF DeleteRows
<1>5. CASE stage[c] = Last(target[c])
  <2>1. pc'[c] = "commit" /\ stage' = stage
    BY <1>5 DEF DeleteRows, TypeOK
  <2>2. ASSUME NEW x \in found[c] \cap live
        PROVE  x \in dels'[c]
    <3>1. PICK n \in 1..5 : x \in Table[n]
      BY TableFacts DEF TypeOK
    <3>2. n <= stage[c]
      BY <1>1, <1>2, <3>1 DEF CascadeOK
    <3> QED BY <1>1, <1>2, <1>3, <3>1, <3>2 DEF CascadeOK
  <2>3. CascadeOK(c)'
    BY <1>1, <1>2, <1>4, <2>1, <2>2 DEF CascadeOK, Transaction, Cleanup
  <2> QED BY <2>3, OneCascadeMoves DEF DeleteRows, TypeOK
<1>6. CASE stage[c] # Last(target[c])
  <2>1. pc'[c] = "find" /\ stage'[c] = stage[c] + 1
    BY <1>6 DEF DeleteRows, TypeOK
  <2>2. stage'[c] \in First(target[c])..Last(target[c])
    BY <1>2, <1>6, <2>1, StageFacts
  <2>3. ASSUME NEW n \in 1..5
        PROVE  /\ n < stage'[c] => found[c] \cap Table[n] \cap live \subseteq dels'[c]
               /\ n > stage'[c] => found[c] \cap Table[n] = {}
    BY <1>1, <1>2, <1>3, <2>1 DEF CascadeOK
  <2>4. found[c] \cap Table[stage'[c]] = {}
    BY <1>1, <1>2, <2>1, <2>2, StageFacts DEF CascadeOK
  <2>5. CascadeOK(c)'
    BY <1>1, <1>2, <1>4, <2>1, <2>2, <2>3, <2>4 DEF CascadeOK, Transaction, Cleanup
  <2> QED BY <2>5, OneCascadeMoves DEF DeleteRows, TypeOK
<1> QED BY <1>5, <1>6

LEMMA DeleteEndpointKeeps ==
    ASSUME TypeOK, Progress, NEW c \in Cascades, DeleteEndpoint(c)
    PROVE  Progress'
<1>1. CascadeOK(c)
  BY DEF Progress
<1>2. CascadeOK(c)'
  BY <1>1 DEF DeleteEndpoint, CascadeOK, Transaction, Cleanup, TypeOK, Progress, BornOK
<1> QED BY <1>2, OneCascadeMoves DEF DeleteEndpoint, TypeOK

LEMMA CommitKeeps ==
    ASSUME TypeOK, Progress, NEW c \in Cascades, Commit(c)
    PROVE  Progress'
<1>1. CascadeOK(c)
  BY DEF Progress
<1>2. CascadeOK(c)'
  BY <1>1 DEF Commit, CascadeOK, Transaction, Cleanup, TypeOK
<1> QED BY <1>2, OneCascadeMoves DEF Commit, TypeOK

LEMMA RollbackKeeps ==
    ASSUME TypeOK, Progress, NEW c \in Cascades, Rollback(c)
    PROVE  Progress'
<1>1. CascadeOK(c)
  BY DEF Progress
<1>2. CascadeOK(c)'
  BY <1>1 DEF Rollback, CascadeOK, Transaction, Cleanup, TypeOK
<1> QED BY <1>2, OneCascadeMoves DEF Rollback, TypeOK

LEMMA CrashKeeps ==
    ASSUME TypeOK, Progress, NEW c \in Cascades, Crash(c)
    PROVE  Progress'
<1>1. CascadeOK(c)
  BY DEF Progress
<1>2. CascadeOK(c)'
  BY <1>1 DEF Crash, CascadeOK, Transaction, Cleanup, TypeOK
<1> QED BY <1>2, OneCascadeMoves DEF Crash, TypeOK

LEMMA EventsKeep ==
    ASSUME TypeOK, Progress, NEW c \in Cascades,
           \/ \E x \in Rows : Raise(c, x)
           \/ \E a \in Auths : RaiseAuth(c, a)
           \/ EndRaise(c) \/ Finish(c)
    PROVE  Progress'
<1>1. CascadeOK(c)
  BY DEF Progress
<1>2. ASSUME NEW x \in Rows, Raise(c, x)
      PROVE  Progress'
  <2>1. CascadeOK(c)'
    BY <1>1, <1>2 DEF Raise, CascadeOK, Transaction, Cleanup, TypeOK
  <2> QED BY <1>2, <2>1, OneCascadeMoves DEF Raise, TypeOK
<1>3. ASSUME NEW a \in Auths, RaiseAuth(c, a)
      PROVE  Progress'
  <2>1. CascadeOK(c)'
    BY <1>1, <1>3 DEF RaiseAuth, CascadeOK, Transaction, Cleanup, TypeOK
  <2> QED BY <1>3, <2>1, OneCascadeMoves DEF RaiseAuth, TypeOK
<1>4. CASE EndRaise(c)
  <2>1. target[c] \in Targets
    BY <1>1, <1>4 DEF EndRaise, CascadeOK, Cleanup
  <2>2. First(target[c]) \in First(target[c])..Last(target[c])
    BY <2>1, StageFacts
  <2>3. CascadeOK(c)'
    BY <1>1, <1>4, <2>2 DEF EndRaise, CascadeOK, Transaction, Cleanup, TypeOK
  <2> QED BY <1>4, <2>3, OneCascadeMoves DEF EndRaise, TypeOK
<1>5. CASE Finish(c)
  <2>1. CascadeOK(c)'
    BY <1>1, <1>5 DEF Finish, CascadeOK, Transaction, Cleanup, TypeOK
  <2> QED BY <1>5, <2>1, OneCascadeMoves DEF Finish, TypeOK
<1> QED BY <1>2, <1>3, <1>4, <1>5

LEMMA CredentialsKeep ==
    ASSUME TypeOK, Progress, NEW c \in Cascades,
           ListIdsForResource(c) \/ FetchAuths(c) \/ WipeAuths(c)
    PROVE  Progress'
<1>1. CascadeOK(c)
  BY DEF Progress
<1>2. CASE ListIdsForResource(c)
  <2>1. /\ target[c] \in Targets /\ stage[c] \in 1..5 /\ pc[c] = "list"
        /\ stage[c] \in First(target[c])..Last(target[c])
    BY <1>1, <1>2 DEF ListIdsForResource, CascadeOK, Cleanup, TypeOK
  <2>2. stage'[c] \in First(target[c])..Last(target[c])
    BY <1>2, <2>1, StageFacts DEF ListIdsForResource, TypeOK
  <2>3. pc'[c] \in {"list", "fetch"}
    BY <1>2 DEF ListIdsForResource, TypeOK
  <2>4. \A a \in creds'[c] : a \in creds[c] \/ (a \in auths /\ Owner[a] \in found[c])
    BY <1>2 DEF ListIdsForResource, TypeOK
  <2>5. UNCHANGED <<live, auths, born, target, found, raised>>
    BY <1>2 DEF ListIdsForResource
  <2>6. creds'[c] \subseteq born
    BY <1>1, <2>4 DEF CascadeOK, Progress, BornOK
  <2>7. CascadeOK(c)'
    BY <1>1, <2>1, <2>2, <2>3, <2>4, <2>5, <2>6 DEF CascadeOK, Transaction, Cleanup
  <2> QED BY <1>2, <2>7, OneCascadeMoves DEF ListIdsForResource, TypeOK
<1>3. CASE FetchAuths(c)
  <2>1. CascadeOK(c)'
    BY <1>1, <1>3 DEF FetchAuths, CascadeOK, Transaction, Cleanup, TypeOK
  <2> QED BY <1>3, <2>1, OneCascadeMoves DEF FetchAuths, TypeOK
<1>4. CASE WipeAuths(c)
  <2>1. /\ creds'[c] \subseteq creds[c] /\ creds'[c] \cap auths' = {}
        /\ live' \subseteq live /\ auths' \subseteq auths
    BY <1>4 DEF WipeAuths, TypeOK
  <2>2. /\ pc[c] = "wipe" /\ pc'[c] = "raiseAuth"
        /\ UNCHANGED <<born, target, stage, found, raised, dels>>
    BY <1>4 DEF WipeAuths, TypeOK
  <2>3. CascadeOK(c)'
    BY <1>1, <2>1, <2>2 DEF CascadeOK, Transaction, Cleanup
  <2> QED BY <1>4, <2>1, <2>3, OneCascadeMoves DEF WipeAuths, TypeOK
<1> QED BY <1>2, <1>3, <1>4

LEMMA BeginKeeps ==
    ASSUME TypeOK, Progress, NEW c \in Cascades, NEW t \in Targets, Begin(c, t)
    PROVE  Progress'
<1>1. CascadeOK(c)
  BY DEF Progress
<1>2. First(t) \in First(t)..Last(t)
  BY StageFacts
<1>3. CascadeOK(c)'
  BY <1>1, <1>2 DEF Begin, CascadeOK, Transaction, Cleanup, TypeOK
<1> QED BY <1>3, OneCascadeMoves DEF Begin, TypeOK

LEMMA RequestKeeps ==
    ASSUME TypeOK, Progress, Request
    PROVE  Progress'
<1>1. ASSUME NEW x \in Rows, InsertRow(x)
      PROVE  Progress'
  <2>1. \A c \in Cascades : CascadeOK(c)'
    BY <1>1, Frame DEF InsertRow, Progress
  <2>2. BornOK'
    BY <1>1, RowsAreNoAuths DEF InsertRow, Progress, BornOK, TypeOK
  <2> QED BY <2>1, <2>2 DEF Progress
<1>2. ASSUME NEW a \in Auths, LookUpOwner(a)
      PROVE  Progress'
  <2>1. \A c \in Cascades : CascadeOK(c)'
    BY <1>2, Frame DEF LookUpOwner, Progress
  <2>2. BornOK'
    BY <1>2 DEF LookUpOwner, Progress, BornOK, TypeOK
  <2> QED BY <2>1, <2>2 DEF Progress
<1>3. ASSUME NEW a \in Auths, InsertAuth(a)
      PROVE  Progress'
  <2>1. \A c \in Cascades : CascadeOK(c)'
    BY <1>3, Frame DEF InsertAuth, Progress, BornOK
  <2>2. BornOK'
    BY <1>3 DEF InsertAuth, Progress, BornOK, TypeOK
  <2> QED BY <2>1, <2>2 DEF Progress
<1> QED BY <1>1, <1>2, <1>3 DEF Request

LEMMA StepProgress ==
    ASSUME TypeOK, Progress, [Next]_vars
    PROVE  Progress'
<1>1. CASE UNCHANGED vars
  BY <1>1 DEF vars, Progress, BornOK, CascadeOK
<1>2. ASSUME NEW c \in Cascades, Step(c)
      PROVE  Progress'
  BY <1>2, FindKeeps, DeleteRowsKeeps, DeleteEndpointKeeps, RollbackKeeps,
     CommitKeeps, EventsKeep, CredentialsKeep DEF Step
<1> QED BY <1>1, <1>2, CrashKeeps, BeginKeeps, RequestKeeps DEF Next, Terminating
-----------------------------------------------------------------------------
(* Safety. What an event has announced, or the owner of a deleted          *)
(* credential, is born and not live, so no later step brings it back.      *)

LEMMA NothingReturns ==
    ASSUME TypeOK, Progress, [Next]_vars
    PROVE  /\ born \subseteq born'
           /\ live' \cap born \subseteq live
           /\ auths' \cap born \subseteq auths
<1>1. ASSUME NEW c \in Cascades, Step(c)
      PROVE  live' \subseteq live /\ auths' \subseteq auths /\ born' = born
  BY <1>1 DEF Step, Find, DeleteRows, DeleteEndpoint, Rollback, Commit, Raise,
     EndRaise, ListIdsForResource, FetchAuths, WipeAuths, RaiseAuth, Finish
<1>2. ASSUME NEW c \in Cascades, Crash(c) \/ \E t \in Targets : Begin(c, t)
      PROVE  UNCHANGED <<live, auths, born>>
  BY <1>2 DEF Crash, Begin
<1>3. CASE Request
  BY <1>3 DEF Request, InsertRow, LookUpOwner, InsertAuth, Progress, BornOK
<1>4. CASE UNCHANGED vars
  BY <1>4 DEF vars
<1> QED BY <1>1, <1>2, <1>3, <1>4 DEF Next, Terminating

LEMMA StepAnnounced ==
    ASSUME TypeOK, Progress, AnnouncedAreGone, [Next]_vars
    PROVE  AnnouncedAreGone'
<1>1. ASSUME NEW e \in topic' \ topic
      PROVE  e[2] \in born' /\ e[2] \notin (live \cup auths)'
  <2>1. PICK c \in Cascades : \/ \E x \in Rows : Raise(c, x)
                             \/ \E a \in Auths : RaiseAuth(c, a)
    BY <1>1 DEF Next, Step, Request, Terminating, vars, Find, DeleteRows,
       DeleteEndpoint, Rollback, Commit, EndRaise, ListIdsForResource, FetchAuths,
       WipeAuths, Finish, Crash, Begin, InsertRow, LookUpOwner, InsertAuth
  <2>2. CascadeOK(c)
    BY DEF Progress
  <2>3. CASE \E x \in Rows : Raise(c, x)
    <3>1. PICK x \in Rows : Raise(c, x)
      BY <2>3
    <3>2. e[2] = x /\ x \in found[c] /\ UNCHANGED <<live, auths, born>>
      BY <1>1, <3>1 DEF Raise
    <3>3. pc[c] \notin Transaction
      BY <3>1 DEF Raise, Transaction
    <3> QED BY <2>2, <3>2, <3>3, RowsAreNoAuths DEF CascadeOK, TypeOK
  <2>4. CASE \E a \in Auths : RaiseAuth(c, a)
    <3>1. PICK a \in Auths : RaiseAuth(c, a)
      BY <2>4
    <3>2. e[2] = a /\ a \in creds[c] /\ UNCHANGED <<live, auths, born>>
      BY <1>1, <3>1 DEF RaiseAuth
    <3>3. pc[c] = "raiseAuth"
      BY <3>1 DEF RaiseAuth
    <3> QED BY <2>2, <3>2, <3>3, RowsAreNoAuths DEF CascadeOK, TypeOK
  <2> QED BY <2>1, <2>3, <2>4
<1>2. ASSUME NEW e \in topic
      PROVE  e[2] \in born' /\ e[2] \notin (live \cup auths)'
  BY NothingReturns DEF AnnouncedAreGone
<1> QED BY <1>1, <1>2 DEF AnnouncedAreGone

LEMMA StepCredentials ==
    ASSUME TypeOK, Progress, CredentialsOutliveNoOne, [Next]_vars
    PROVE  CredentialsOutliveNoOne'
<1>1. ASSUME NEW a \in Auths, a \in born, a \notin auths
      PROVE  Owner[a] \notin live'
  BY <1>1, NothingReturns DEF CredentialsOutliveNoOne, Progress, BornOK
<1>2. ASSUME NEW a \in Auths, a \in auths, a \notin auths'
      PROVE  Owner[a] \notin live'
  <2>1. PICK c \in Cascades : WipeAuths(c)
    BY <1>2 DEF Next, Step, Request, Terminating, vars, Find, DeleteRows,
       DeleteEndpoint, Rollback, Commit, Raise, RaiseAuth, EndRaise,
       ListIdsForResource, FetchAuths, Finish, Crash, Begin, InsertRow,
       LookUpOwner, InsertAuth
  <2>2. CascadeOK(c) /\ pc[c] \notin Transaction
    BY <2>1 DEF Progress, WipeAuths, Transaction
  <2>3. a \in creds[c] /\ live' \subseteq live
    BY <1>2, <2>1 DEF WipeAuths, TypeOK
  <2> QED BY <2>2, <2>3 DEF CascadeOK
<1>3. ASSUME NEW a \in Auths, a \in born', a \notin born
      PROVE  a \in auths'
  BY <1>3, RowsAreNoAuths DEF Next, Step, Request, Terminating, vars, Find, DeleteRows,
     DeleteEndpoint, Rollback, Commit, Raise, RaiseAuth, EndRaise,
     ListIdsForResource, FetchAuths, WipeAuths, Finish, Crash, Begin, InsertRow,
     LookUpOwner, InsertAuth
<1> QED BY <1>1, <1>2, <1>3 DEF CredentialsOutliveNoOne
-----------------------------------------------------------------------------
(* Locks. What an open transaction has deleted is closed under the foreign *)
(* keys and held by no other transaction, so it goes as a whole.           *)

(* What a row takes with it, and what goes with that.                      *)
LEMMA DependentsFacts ==
    /\ \A t \in Rows : Dependents(t) \subseteq (Apps \cup Endpoints \cup AppAuths)
    /\ \A t \in Rows \ (Sources \cup Apps) : Dependents(t) = {}
    /\ \A t \in Rows : \A x \in Dependents(t) : Dependents(x) \subseteq Dependents(t)
    /\ \A t \in Apps : Dependents(t) \subseteq AppAuths
<1>1. \A t \in Rows : Dependents(t) \subseteq (Apps \cup Endpoints \cup AppAuths)
  BY DEF Dependents
<1>2. \A t \in Rows \ (Sources \cup Apps) : Dependents(t) = {}
  BY ShapeAssumption DEF Dependents
<1>3. \A t \in Apps : Dependents(t) \subseteq AppAuths
  BY ShapeAssumption, TablesAssumption DEF Dependents
<1>4. ASSUME NEW t \in Rows, NEW x \in Dependents(t), NEW y \in Dependents(x)
      PROVE  y \in Dependents(t)
  <2>1. x \in Apps
    BY <1>1, <1>2, TablesAssumption DEF Rows
  <2>2. y \in AppAuths /\ AppOf[y] = x
    BY <2>1, <1>3, TablesAssumption, ShapeAssumption DEF Dependents
  <2>3. SourceOf[x] = t
    BY <2>1, TablesAssumption DEF Dependents
  <2> QED BY <2>2, <2>3 DEF Dependents
<1> QED BY <1>1, <1>2, <1>3, <1>4

(* A step that deletes no row and opens or closes no lock keeps the locks. *)
LEMMA LocksFrame ==
    ASSUME LocksOK, UNCHANGED <<live, dels>>,
           \A c \in Cascades : pc'[c] \in Transaction \/ pc[c] \notin Transaction
    PROVE  LocksOK'
BY DEF LocksOK

(* One cascade c moves: its deletions grow by rows that no one else holds. *)
LEMMA LocksMove ==
    ASSUME LocksOK, NEW c \in Cascades, live' = live,
           dels'[c] \subseteq live, dels'[c] \cap LockedFor(c) = {},
           \A x \in dels'[c] : Dependents(x) \cap live \subseteq dels'[c],
           pc'[c] \notin Transaction => dels'[c] = {},
           \A d \in Cascades \ {c} : dels'[d] = dels[d] /\ pc'[d] = pc[d]
    PROVE  LocksOK'
<1>1. \A d \in Cascades \ {c} : dels'[c] \cap dels'[d] = {}
  BY DEF LockedFor
<1>2. \A d \in Cascades : /\ dels'[d] \subseteq live'
                          /\ pc'[d] \notin Transaction => dels'[d] = {}
                          /\ \A x \in dels'[d] : Dependents(x) \cap live' \subseteq dels'[d]
  BY DEF LocksOK
<1>3. \A d, e \in Cascades : d # e => dels'[d] \cap dels'[e] = {}
  <2> SUFFICES ASSUME NEW d \in Cascades, NEW e \in Cascades, d # e
               PROVE  dels'[d] \cap dels'[e] = {}
    OBVIOUS
  <2>1. CASE d = c
    BY <1>1, <2>1
  <2>2. CASE e = c
    BY <1>1, <2>2
  <2>3. CASE d # c /\ e # c
    BY <2>3 DEF LocksOK
  <2> QED BY <2>1, <2>2, <2>3
<1> QED BY <1>2, <1>3 DEF LocksOK

LEMMA DeleteRowsLocks ==
    ASSUME TypeOK, Progress, LocksOK, NEW c \in Cascades, DeleteRows(c)
    PROVE  LocksOK'
<1> DEFINE batch == found[c] \cap Table[stage[c]]
           gone  == live \cap (batch \cup UNION {Dependents(x) : x \in batch})
<1>1. /\ dels'[c] = dels[c] \cup gone /\ gone \cap LockedFor(c) = {}
      /\ live' = live /\ pc'[c] \in Transaction
      /\ \A d \in Cascades \ {c} : dels'[d] = dels[d] /\ pc'[d] = pc[d]
  BY DEF DeleteRows, TypeOK, Transaction
<1>2. dels'[c] \cap LockedFor(c) = {}
  BY <1>1 DEF LocksOK, LockedFor
<1>3. ASSUME NEW x \in gone, NEW y \in Dependents(x), y \in live
      PROVE  y \in gone
  <2>1. CASE x \in batch
    BY <1>3, <2>1
  <2>2. CASE x \notin batch
    <3>1. PICK t \in batch : x \in Dependents(t)
      BY <2>2
    <3>2. y \in Dependents(t)
      BY <3>1, DependentsFacts DEF TypeOK
    <3> QED BY <1>3, <3>2
  <2> QED BY <2>1, <2>2
<1>4. \A x \in dels'[c] : Dependents(x) \cap live \subseteq dels'[c]
  BY <1>1, <1>3 DEF LocksOK
<1>5. dels'[c] \subseteq live
  BY <1>1 DEF LocksOK
<1> QED BY <1>1, <1>2, <1>4, <1>5, LocksMove

LEMMA CommitLocks ==
    ASSUME TypeOK, LocksOK, NEW c \in Cascades, Commit(c)
    PROVE  LocksOK'
<1>1. /\ live' = live \ dels[c] /\ dels'[c] = {} /\ pc'[c] = "raise"
      /\ \A d \in Cascades \ {c} : dels'[d] = dels[d] /\ pc'[d] = pc[d]
  BY DEF Commit, TypeOK
<1>2. ASSUME NEW d \in Cascades
      PROVE  /\ dels'[d] \subseteq live'
             /\ pc'[d] \notin Transaction => dels'[d] = {}
             /\ \A x \in dels'[d] : Dependents(x) \cap live' \subseteq dels'[d]
  BY <1>1 DEF LocksOK
<1> QED BY <1>1, <1>2 DEF LocksOK

(* The rows that fall with a credential are locked by no open transaction. *)
LEMMA WipeLocks ==
    ASSUME TypeOK, LocksOK, NEW c \in Cascades, WipeAuths(c)
    PROVE  LocksOK'
<1>1. /\ live' \subseteq live /\ (live \ live') \cap LockedFor(c) = {}
      /\ dels' = dels /\ pc[c] \notin Transaction
      /\ pc'[c] \notin Transaction
      /\ \A d \in Cascades \ {c} : pc'[d] = pc[d]
  BY DEF WipeAuths, TypeOK, Transaction
<1>2. ASSUME NEW d \in Cascades
      PROVE  /\ dels'[d] \subseteq live'
             /\ pc'[d] \notin Transaction => dels'[d] = {}
             /\ \A x \in dels'[d] : Dependents(x) \cap live' \subseteq dels'[d]
  BY <1>1 DEF LocksOK, LockedFor
<1> QED BY <1>1, <1>2 DEF LocksOK

(* The foreign key of an inserted row waits for the lock on its parent.    *)
LEMMA InsertLocks ==
    ASSUME TypeOK, LocksOK, NoOrphanRow, NEW x \in Rows, InsertRow(x)
    PROVE  LocksOK'
<1>1. live' = live \cup {x} /\ UNCHANGED <<dels, pc>>
  BY DEF InsertRow
<1>2. ASSUME NEW c \in Cascades, NEW t \in dels[c]
      PROVE  x \notin Dependents(t)
  <2>1. CASE x \in Apps \cup Endpoints
    BY <1>2, <2>1, TablesAssumption DEF InsertRow, Dependents, Deleting
  <2>2. CASE x \in AppAuths
    <3>1. AppOf[x] \in Apps /\ AppOf[x] \in live /\ AppOf[x] \notin dels[c]
      BY <2>2, TablesAssumption, ShapeAssumption DEF InsertRow, Deleting
    <3>2. SourceOf[AppOf[x]] # t
      BY <3>1 DEF LocksOK, Dependents
    <3> QED BY <2>2, <3>1, <3>2, TablesAssumption DEF Dependents
  <2> QED BY <2>1, <2>2 DEF InsertRow
<1> QED BY <1>1, <1>2 DEF LocksOK

LEMMA StepLocks ==
    ASSUME TypeOK, Progress, LocksOK, NoOrphanRow, [Next]_vars
    PROVE  LocksOK'
<1>1. ASSUME NEW c \in Cascades, Step(c)
      PROVE  LocksOK'
  <2>1. CASE Find(c)
    BY <2>1, LocksFrame DEF Find, TypeOK, Transaction
  <2>2. CASE DeleteEndpoint(c)
    <3>1. Dependents(target[c]) = {}
      BY <2>2, DependentsFacts, TablesAssumption DEF DeleteEndpoint, Rows
    <3>2. /\ dels'[c] = {target[c]} /\ target[c] \in live /\ target[c] \notin LockedFor(c)
          /\ live' = live /\ pc'[c] \in Transaction
          /\ \A d \in Cascades \ {c} : dels'[d] = dels[d] /\ pc'[d] = pc[d]
      BY <2>2 DEF DeleteEndpoint, TypeOK, Transaction
    <3> QED BY <3>1, <3>2, LocksMove
  <2>3. CASE Rollback(c)
    <3>1. /\ dels'[c] = {} /\ live' = live
          /\ \A d \in Cascades \ {c} : dels'[d] = dels[d] /\ pc'[d] = pc[d]
      BY <2>3 DEF Rollback, TypeOK
    <3> QED BY <3>1, LocksMove
  <2>4. ASSUME NEW x \in Rows, Raise(c, x)
        PROVE  LocksOK'
    BY <2>4, LocksFrame DEF Raise
  <2>5. CASE EndRaise(c)
    BY <2>5, LocksFrame DEF EndRaise, TypeOK, Transaction
  <2>6. CASE ListIdsForResource(c)
    BY <2>6, LocksFrame DEF ListIdsForResource, TypeOK, Transaction
  <2>7. CASE FetchAuths(c)
    BY <2>7, LocksFrame DEF FetchAuths, TypeOK, Transaction
  <2>8. ASSUME NEW a \in Auths, RaiseAuth(c, a)
        PROVE  LocksOK'
    BY <2>8, LocksFrame DEF RaiseAuth
  <2>9. CASE Finish(c)
    BY <2>9, LocksFrame DEF Finish, TypeOK, Transaction
  <2> QED BY <1>1, <2>1, <2>2, <2>3, <2>4, <2>5, <2>6, <2>7, <2>8, <2>9,
             DeleteRowsLocks, CommitLocks, WipeLocks DEF Step
<1>2. ASSUME NEW c \in Cascades, Crash(c)
      PROVE  LocksOK'
  <2>1. /\ dels'[c] = {} /\ live' = live
        /\ \A d \in Cascades \ {c} : dels'[d] = dels[d] /\ pc'[d] = pc[d]
    BY <1>2 DEF Crash, TypeOK
  <2> QED BY <2>1, LocksMove
<1>3. ASSUME NEW c \in Cascades, NEW t \in Targets, Begin(c, t)
      PROVE  LocksOK'
  BY <1>3, LocksFrame DEF Begin, TypeOK, Transaction
<1>4. CASE Request
  <2>1. ASSUME NEW a \in Auths, LookUpOwner(a) \/ InsertAuth(a)
        PROVE  LocksOK'
    BY <2>1, LocksFrame DEF LookUpOwner, InsertAuth
  <2> QED BY <1>4, <2>1, InsertLocks DEF Request
<1>5. CASE UNCHANGED vars
  BY <1>5, LocksFrame DEF vars
<1> QED BY <1>1, <1>2, <1>3, <1>4, <1>5 DEF Next, Terminating

(* The foreign keys. Only Commit and WipeAuths remove rows: the first      *)
(* removes a closed set, the second every row that points to a credential. *)
LEMMA StepForeignKeys ==
    ASSUME TypeOK, LocksOK, NoOrphanRow, [Next]_vars
    PROVE  NoOrphanRow'
<1>1. ASSUME NEW c \in Cascades, Commit(c)
      PROVE  NoOrphanRow'
  <2>1. live' = live \ dels[c] /\ auths' = auths
    BY <1>1 DEF Commit
  <2>2. ASSUME NEW x \in live', NEW t \in live, x \in Dependents(t)
        PROVE  t \in live'
    BY <2>1, <2>2 DEF LocksOK
  <2>3. \A x \in live' \cap (Apps \cup Endpoints) : SourceOf[x] \in live'
    BY <2>1, <2>2 DEF NoOrphanRow, Dependents
  <2>4. \A x \in live' \cap AppAuths : AppOf[x] \in live' /\ AuthOf[x] \in auths'
    BY <2>1, <2>2 DEF NoOrphanRow, Dependents
  <2> QED BY <2>3, <2>4 DEF NoOrphanRow
<1>2. ASSUME NEW c \in Cascades, WipeAuths(c)
      PROVE  NoOrphanRow'
  <2>1. PICK gone : /\ auths' = auths \ gone
                    /\ live' = live \ {x \in live \cap AppAuths : AuthOf[x] \in gone}
    BY <1>2 DEF WipeAuths
  <2>2. \A x \in live' \cap (Apps \cup Endpoints) : SourceOf[x] \in live'
    BY <2>1, ShapeAssumption, TablesAssumption DEF NoOrphanRow
  <2>3. \A x \in live' \cap AppAuths : AppOf[x] \in live' /\ AuthOf[x] \in auths'
    BY <2>1, ShapeAssumption, TablesAssumption DEF NoOrphanRow
  <2> QED BY <2>2, <2>3 DEF NoOrphanRow
<1>3. ASSUME NEW x \in Rows, InsertRow(x)
      PROVE  NoOrphanRow'
  BY <1>3, TablesAssumption DEF InsertRow, NoOrphanRow
<1>4. ASSUME NEW a \in Auths, InsertAuth(a)
      PROVE  NoOrphanRow'
  BY <1>4 DEF InsertAuth, NoOrphanRow
<1>5. CASE UNCHANGED <<live, auths>>
  BY <1>5 DEF NoOrphanRow
<1> QED BY <1>1, <1>2, <1>3, <1>4, <1>5 DEF Next, Step, Request, Terminating, vars,
       Find, DeleteRows, DeleteEndpoint, Rollback, Raise, RaiseAuth, EndRaise,
       ListIdsForResource, FetchAuths, Finish, Crash, Begin, LookUpOwner
-----------------------------------------------------------------------------
(* Finds. A row that was there at the start and still is has been there    *)
(* all along: the find of its table has returned it.                       *)

LEMMA FindsFrame ==
    ASSUME TypeOK, NEW d \in Cascades, pc[d] \in Transaction => FindsOK(d),
           live' \ Late \subseteq live,
           pc'[d] = pc[d], target'[d] = target[d], stage'[d] = stage[d],
           found'[d] = found[d], dels'[d] = dels[d]
    PROVE  pc'[d] \in Transaction => FindsOK(d)'
BY DEF FindsOK

LEMMA FindFinds ==
    ASSUME TypeOK, NEW c \in Cascades, FindsOK(c), LocksOK, Find(c)
    PROVE  FindsOK(c)'
<1>1. /\ found'[c] = found[c] \cup (Selected(target[c]) \cap Table[stage[c]] \cap (live \ dels[c]))
      /\ pc[c] = "find" /\ pc'[c] = "delete" /\ stage[c] \in 1..5 /\ target[c] \notin Endpoints
      /\ UNCHANGED <<live, dels, target, stage>>
  BY DEF Find, Visible, TypeOK
<1>2. ASSUME NEW n \in 2..5, n <= stage[c],
             NEW x \in Selected(target[c]) \cap Table[n] \cap live, x \notin Late
      PROVE  x \in found'[c]
  <2>1. CASE n < stage[c]
    BY <1>1, <1>2, <2>1 DEF FindsOK
  <2>2. CASE n = stage[c] /\ x \notin dels[c]
    BY <1>1, <1>2, <2>2
  <2>3. CASE x \in dels[c]
    <3>1. x \notin AppAuths
      BY <1>2, TablesDisjoint, TableFacts
    <3> QED BY <1>1, <1>2, <2>3, <3>1 DEF FindsOK
  <2> QED BY <1>1, <1>2, <2>1, <2>2, <2>3
<1> QED BY <1>1, <1>2 DEF FindsOK

(* What a delete statement takes beyond its own table has been found: the  *)
(* source comes last, and an application takes only application            *)
(* authentications with it.                                                *)
LEMMA DeleteRowsFinds ==
    ASSUME TypeOK, Progress, NEW c \in Cascades, FindsOK(c), DeleteRows(c)
    PROVE  FindsOK(c)'
<1> DEFINE batch == found[c] \cap Table[stage[c]]
           gone  == live \cap (batch \cup UNION {Dependents(x) : x \in batch})
<1>1. /\ pc[c] = "delete" /\ stage[c] \in 1..5 /\ target[c] \in Targets
      /\ dels'[c] = dels[c] \cup gone
      /\ UNCHANGED <<live, target, found>>
      /\ \/ stage'[c] = stage[c] /\ pc'[c] = "commit"
         \/ stage'[c] = stage[c] + 1 /\ pc'[c] = "find"
  BY DEF DeleteRows, TypeOK, Progress, CascadeOK, Transaction
<1>2. ASSUME NEW x \in gone, x \notin AppAuths, x \notin Late
      PROVE  x \in found[c]
  <2>1. CASE x \in batch
    BY <2>1
  <2>2. CASE x \notin batch
    <3>1. PICK b \in batch : x \in Dependents(b)
      BY <2>2
    <3>2. b \in Rows /\ b \in Table[stage[c]] /\ b \in Selected(target[c])
      BY <3>1 DEF TypeOK, FindsOK
    <3>3. b \in Sources /\ x \in Apps \cup Endpoints
      BY <1>2, <3>1, <3>2, DependentsFacts
    <3>4. stage[c] = 5
      BY <1>1, <3>2, <3>3, TablesDisjoint, TableFacts
    <3>5. b = target[c]
      BY <1>1, <3>2, <3>3, TablesAssumption, ShapeAssumption DEF Selected, Dependents
    <3>6. target[c] \notin Endpoints /\ x \in Selected(target[c])
      BY <3>1, <3>3, <3>5, TablesAssumption DEF Selected
    <3>7. \A n \in 2..5 : n < stage[c] =>
             (Selected(target[c]) \cap Table[n] \cap live) \ Late \subseteq found[c]
      BY <3>6 DEF FindsOK
    <3>8. x \in Table[2] \/ x \in Table[3]
      BY <3>3, TableFacts
    <3> QED BY <1>2, <3>4, <3>6, <3>7, <3>8
  <2> QED BY <2>1, <2>2
<1>3. dels'[c] \ (Late \cup AppAuths) \subseteq found[c]
  BY <1>1, <1>2 DEF FindsOK
<1>4. ASSUME target[c] \notin Endpoints, NEW n \in 2..5,
             n < stage'[c] \/ (n = stage'[c] /\ pc'[c] # "find")
      PROVE  (Selected(target[c]) \cap Table[n] \cap live) \ Late \subseteq found[c]
  <2>1. n < stage[c] \/ n = stage[c]
    BY <1>1, <1>4
  <2> QED BY <1>1, <1>4, <2>1 DEF FindsOK
<1> QED BY <1>1, <1>3, <1>4 DEF FindsOK

LEMMA StepFinds ==
    ASSUME TypeOK, Progress, LocksOK, [Next]_vars,
           \A c \in Cascades : pc[c] \in Transaction => FindsOK(c)
    PROVE  \A c \in Cascades : pc'[c] \in Transaction => FindsOK(c)'
<1>1. live' \ Late \subseteq live
  BY DEF Next, Step, Request, Terminating, vars, Find, DeleteRows, DeleteEndpoint,
     Rollback, Commit, Raise, RaiseAuth, EndRaise, ListIdsForResource, FetchAuths,
     WipeAuths, Finish, Crash, Begin, InsertRow, LookUpOwner, InsertAuth
<1>2. ASSUME NEW c \in Cascades, Step(c) \/ Crash(c) \/ (\E t \in Targets : Begin(c, t))
      PROVE  \A d \in Cascades : pc'[d] \in Transaction => FindsOK(d)'
  <2>1. ASSUME NEW d \in Cascades, d # c
        PROVE  /\ pc'[d] = pc[d] /\ target'[d] = target[d] /\ stage'[d] = stage[d]
               /\ found'[d] = found[d] /\ dels'[d] = dels[d]
    BY <1>2, <2>1 DEF TypeOK, Step, Find, DeleteRows, DeleteEndpoint, Rollback, Commit,
       Raise, RaiseAuth, EndRaise, ListIdsForResource, FetchAuths, WipeAuths, Finish,
       Crash, Begin
  <2>2. ASSUME Find(c)
        PROVE  FindsOK(c)'
    BY <2>2, FindFinds DEF Find, Transaction
  <2>3. ASSUME DeleteRows(c)
        PROVE  FindsOK(c)'
    BY <2>3, DeleteRowsFinds DEF DeleteRows, Transaction
  <2>4. ASSUME DeleteEndpoint(c)
        PROVE  FindsOK(c)'
    <3>1. target[c] \in Selected(target[c])
      BY DEF Selected
    <3>2. FindsOK(c)'
      BY <2>4, <3>1 DEF DeleteEndpoint, FindsOK, TypeOK
    <3> QED BY <3>2
  <2>5. ASSUME NEW t \in Targets, Begin(c, t)
        PROVE  FindsOK(c)'
    <3>1. /\ pc[c] = "idle" /\ pc'[c] = "find" /\ target'[c] = t /\ stage'[c] = First(t)
          /\ found'[c] = found[c] /\ dels'[c] = dels[c] /\ live' = live
      BY <2>5 DEF Begin, TypeOK
    <3>2. found[c] = {} /\ dels[c] = {}
      BY <3>1 DEF Progress, CascadeOK, LocksOK, Transaction
    <3>3. t \notin Endpoints => First(t) = 1
      BY DEF First
    <3> QED BY <3>1, <3>2, <3>3 DEF FindsOK
  <2>6. pc'[c] \in Transaction => FindsOK(c)'
    BY <1>2, <2>2, <2>3, <2>4, <2>5 DEF Step, Rollback, Commit, Raise, EndRaise,
       ListIdsForResource, FetchAuths, WipeAuths, RaiseAuth, Finish, Crash,
       Transaction, TypeOK
  <2> QED BY <1>1, <2>1, <2>6, FindsFrame
<1>3. CASE Request \/ UNCHANGED vars
  <2>1. UNCHANGED <<pc, target, stage, found, dels>>
    BY <1>3 DEF Request, InsertRow, LookUpOwner, InsertAuth, vars
  <2> QED BY <1>1, <2>1, FindsFrame
<1> QED BY <1>2, <1>3 DEF Next, Terminating

LEMMA StepMutex ==
    ASSUME TypeOK, Progress, [Next]_vars, \A c \in Cascades : MutexOK(c)
    PROVE  \A c \in Cascades : MutexOK(c)'
<1>1. ASSUME NEW c \in Cascades, Step(c) \/ Crash(c) \/ (\E t \in Targets : Begin(c, t))
      PROVE  \A d \in Cascades : MutexOK(d)'
  <2>1. ASSUME NEW d \in Cascades, d # c
        PROVE  pc'[d] = pc[d] /\ found'[d] = found[d] /\ raised'[d] = raised[d]
    BY <1>1, <2>1 DEF TypeOK, Step, Find, DeleteRows, DeleteEndpoint, Rollback, Commit,
       Raise, RaiseAuth, EndRaise, ListIdsForResource, FetchAuths, WipeAuths, Finish,
       Crash, Begin
  <2>2. CASE Step(c)
    BY <2>2 DEF MutexOK, TypeOK, Step, Find, DeleteRows, DeleteEndpoint, Rollback, Commit,
       Raise, RaiseAuth, EndRaise, ListIdsForResource, FetchAuths, WipeAuths, Finish
  <2>3. CASE Crash(c) \/ (\E t \in Targets : Begin(c, t))
    BY <2>3 DEF MutexOK, TypeOK, Crash, Begin
  <2> QED BY <1>1, <2>1, <2>2, <2>3 DEF MutexOK
<1>2. CASE Request \/ UNCHANGED vars
  BY <1>2 DEF Request, InsertRow, LookUpOwner, InsertAuth, vars, MutexOK
<1> QED BY <1>1, <1>2 DEF Next, Terminating

LEMMA InitInv == Init => CascadeInv
<1> SUFFICES ASSUME Init PROVE CascadeInv
  OBVIOUS
<1>1. TypeOK
  BY InitType
<1>2. BornOK
  <2>1. \A a \in Auths \ Late : Owner[a] \in Rows \ Late
    BY ShapeAssumption, LateAssumption DEF Rows, Targets
  <2> QED BY <2>1, RowsAreNoAuths DEF Init, BornOK
<1>3. \A c \in Cascades : CascadeOK(c)
  BY DEF Init, CascadeOK, Transaction, Cleanup
<1>4. AnnouncedAreGone /\ CredentialsOutliveNoOne
  BY RowsAreNoAuths DEF Init, AnnouncedAreGone, CredentialsOutliveNoOne
<1>5. LocksOK
  BY DEF Init, LocksOK
<1>6. NoOrphanRow
  BY ShapeAssumption, LateAssumption, TablesAssumption DEF Init, NoOrphanRow, Rows
<1>7. \A c \in Cascades : (pc[c] \in Transaction => FindsOK(c)) /\ MutexOK(c)
  BY DEF Init, MutexOK, Transaction
<1> QED BY <1>1, <1>2, <1>3, <1>4, <1>5, <1>6, <1>7 DEF CascadeInv, Progress

(* The inductive invariant: a transaction has deleted what it has found,   *)
(* what is deleted stays deleted, and a cascade only holds credentials of  *)
(* rows it has deleted.                                                    *)
THEOREM CascadeInvariant == Spec => []CascadeInv
<1>1. CascadeInv /\ [Next]_vars => CascadeInv'
  BY StepType, StepProgress, StepAnnounced, StepCredentials, StepLocks,
     StepForeignKeys, StepFinds, StepMutex DEF CascadeInv
<1> QED BY InitInv, <1>1, PTL DEF Spec

(* Every variable keeps its type for any number of rows and cascades.      *)
THEOREM TypeCorrect == Spec => []TypeOK
<1>1. CascadeInv => TypeOK
  BY DEF CascadeInv
<1> QED BY <1>1, CascadeInvariant, PTL

(* No destroy event is ever on the stream for a row or a credential that   *)
(* still exists, however the cascades interleave, fail or crash: the       *)
(* goroutines of DeleteCascade start after its transaction.                *)
THEOREM AnnouncedSafe == Spec => []AnnouncedAreGone
<1>1. CascadeInv => AnnouncedAreGone
  BY DEF CascadeInv
<1> QED BY <1>1, CascadeInvariant, PTL

(* No credential of a resource that is still there is ever deleted by a    *)
(* cascade.                                                                *)
THEOREM CredentialsSafe == Spec => []CredentialsOutliveNoOne
<1>1. CascadeInv => CredentialsOutliveNoOne
  BY DEF CascadeInv
<1> QED BY <1>1, CascadeInvariant, PTL

(* A row that was there at the start is taken away only by the commit of a *)
(* transaction that has found it.                                          *)
LEMMA StepNoSilentRemoval ==
    ASSUME CascadeInv, NoSilentRemoval, [Next]_vars
    PROVE  NoSilentRemoval'
<1> USE DEF CascadeInv
<1> SUFFICES ASSUME NEW x \in Rows, x \notin Late, x \notin AppAuths, x \notin live'
             PROVE  \E c \in Cascades : x \in found'[c] /\ pc'[c] \notin Transaction
  BY DEF NoSilentRemoval
<1>1. CASE x \in live
  <2>1. PICK c \in Cascades : Commit(c)
    BY <1>1 DEF Next, Step, Request, Terminating, vars, Find, DeleteRows, DeleteEndpoint,
       Rollback, Raise, RaiseAuth, EndRaise, ListIdsForResource, FetchAuths,
       WipeAuths, Finish, Crash, Begin, InsertRow, LookUpOwner, InsertAuth
  <2>2. x \in dels[c] /\ pc[c] \in Transaction /\ found' = found /\ pc'[c] = "raise"
    BY <1>1, <2>1 DEF Commit, TypeOK, Transaction
  <2> QED BY <2>2 DEF FindsOK, Transaction
<1>2. CASE x \notin live
  <2>1. PICK c \in Cascades : x \in found[c] /\ pc[c] \notin Transaction
    BY <1>2 DEF NoSilentRemoval
  <2>2. pc[c] # "idle"
    BY <2>1 DEF Progress, CascadeOK
  <2>3. x \in found'[c] /\ pc'[c] \notin Transaction
    <3>1. ASSUME NEW d \in Cascades, Step(d) \/ Crash(d) \/ (\E t \in Targets : Begin(d, t))
          PROVE  x \in found'[c] /\ pc'[c] \notin Transaction
      BY <2>1, <2>2, <3>1 DEF TypeOK, Transaction, Step, Find, DeleteRows, DeleteEndpoint,
         Rollback, Commit, Raise, RaiseAuth, EndRaise, ListIdsForResource, FetchAuths,
         WipeAuths, Finish, Crash, Begin
    <3>2. CASE Request \/ UNCHANGED vars
      BY <2>1, <3>2 DEF Request, InsertRow, LookUpOwner, InsertAuth, vars
    <3> QED BY <3>1, <3>2 DEF Next, Terminating
  <2> QED BY <2>3
<1> QED BY <1>1, <1>2

(* The order of the events: what hangs from a row is in an earlier table.  *)
LEMMA DependentsFirst ==
    ASSUME NEW x \in Rows, NEW y \in Dependents(x)
    PROVE  \E m, n \in 1..5 : m < n /\ y \in Table[m] /\ x \in Table[n]
<1>1. CASE x \in Apps
  BY <1>1, DependentsFacts, TableFacts
<1>2. CASE x \in Sources
  BY <1>2, DependentsFacts, TableFacts
<1> QED BY <1>1, <1>2, DependentsFacts

LEMMA StepChildrenFirst ==
    ASSUME CascadeInv, ChildrenAnnouncedFirst, [Next]_vars
    PROVE  ChildrenAnnouncedFirst'
<1> USE DEF CascadeInv
<1> DEFINE Ordered(c) ==
        /\ \A x \in found[c] \cap raised[c] : Dependents(x) \cap found[c] \subseteq raised[c]
        /\ raised[c] \cap Auths # {} => found[c] \subseteq raised[c]
<1> SUFFICES ASSUME NEW c \in Cascades
             PROVE  Ordered(c)'
  BY DEF ChildrenAnnouncedFirst
<1>1. Ordered(c) /\ CascadeOK(c)
  BY DEF ChildrenAnnouncedFirst, Progress
<1>2. ASSUME NEW x \in Rows, Raise(c, x)
      PROVE  Ordered(c)'
  <2>1. raised'[c] = raised[c] \cup {x} /\ found' = found
    BY <1>2 DEF Raise, TypeOK
  <2>2. Dependents(x) \cap found[c] \subseteq raised[c]
    BY <1>2, DependentsFirst DEF Raise
  <2> QED BY <1>1, <2>1, <2>2, RowsAreNoAuths
<1>3. ASSUME NEW a \in Auths, RaiseAuth(c, a)
      PROVE  Ordered(c)'
  BY <1>3, RowsAreNoAuths DEF RaiseAuth, MutexOK, TypeOK
<1>4. CASE UNCHANGED <<found[c], raised[c]>>
  BY <1>1, <1>4
<1>5. CASE raised'[c] = raised[c] /\ raised[c] = {}
  BY <1>5
<1>6. CASE raised'[c] = raised[c] /\ found'[c] = {}
  BY <1>6
<1>7. ASSUME NEW d \in Cascades, Step(d) \/ Crash(d) \/ (\E t \in Targets : Begin(d, t))
      PROVE  Ordered(c)'
  <2>1. CASE d # c
    <3>1. UNCHANGED <<found[c], raised[c]>>
      BY <1>7, <2>1 DEF TypeOK, Step, Find, DeleteRows, DeleteEndpoint, Rollback, Commit,
         Raise, RaiseAuth, EndRaise, ListIdsForResource, FetchAuths, WipeAuths, Finish,
         Crash, Begin
    <3> QED BY <1>4, <3>1
  <2>2. CASE d = c /\ pc[c] \in Transaction
    <3>1. raised' = raised
      BY <1>7, <2>2 DEF Transaction, Step, Find, DeleteRows, DeleteEndpoint, Rollback,
         Commit, Raise, RaiseAuth, EndRaise, ListIdsForResource, FetchAuths, WipeAuths,
         Finish, Crash, Begin
    <3> QED BY <1>1, <1>5, <2>2, <3>1 DEF CascadeOK
  <2>3. CASE d = c /\ pc[c] \notin Transaction
    BY <1>2, <1>3, <1>4, <1>7, <2>3 DEF Transaction, TypeOK, Step, Find, DeleteRows,
       DeleteEndpoint, Rollback, Commit, EndRaise, ListIdsForResource, FetchAuths,
       WipeAuths, Finish, Crash, Begin
  <2> QED BY <2>1, <2>2, <2>3
<1>8. CASE Request \/ UNCHANGED vars
  BY <1>4, <1>8 DEF Request, InsertRow, LookUpOwner, InsertAuth, vars
<1> QED BY <1>7, <1>8 DEF Next, Terminating

(* Foreign keys hold at every commit: an open transaction has deleted a    *)
(* closed set of rows, and an insert waits for its parent.                 *)
THEOREM ForeignKeysHold == Spec => []NoOrphanRow
<1>1. CascadeInv => NoOrphanRow
  BY DEF CascadeInv
<1> QED BY <1>1, CascadeInvariant, PTL

(* DeleteCascade raises an event for every row that its foreign keys may   *)
(* remove: no source, application, endpoint or connection that was there   *)
(* before disappears without being in the slices of a committed cascade.   *)
THEOREM NothingDisappears == Spec => []NoSilentRemoval
<1>1. Init => NoSilentRemoval
  BY DEF Init, NoSilentRemoval
<1>2. CascadeInv /\ NoSilentRemoval /\ [Next]_vars => NoSilentRemoval'
  BY StepNoSilentRemoval
<1> QED BY <1>1, <1>2, CascadeInvariant, PTL DEF Spec

(* Every event of a cascade follows the events of what hangs from its      *)
(* resource, and those of credentials follow all others, as the order of   *)
(* the loops and the mutex of DeleteCascade mean to make sure.             *)
THEOREM EventsInOrder == Spec => []ChildrenAnnouncedFirst
<1>1. Init => ChildrenAnnouncedFirst
  BY DEF Init, ChildrenAnnouncedFirst
<1>2. CascadeInv /\ ChildrenAnnouncedFirst /\ [Next]_vars => ChildrenAnnouncedFirst'
  BY StepChildrenFirst
<1> QED BY <1>1, <1>2, CascadeInvariant, PTL DEF Spec
-----------------------------------------------------------------------------
(* Refinement. DeletionContract has no transactions and no goroutines:     *)
(* Commit is its RemoveRows, WipeAuths its Purge, a Kafka write that       *)
(* succeeds its Announce; the rest of a cascade is not seen from outside.  *)

LEMMA InitContract == Init => Contract!Init
BY DEF Init, Contract!Init

LEMMA AnnounceContract ==
    ASSUME CascadeInv, CascadeInv', NEW c \in Cascades, NEW x \in Rows \cup Auths,
           UNCHANGED <<live, auths, born>>,
           topic' = topic \cup {<<c, x>>} \/ topic' = topic
    PROVE  [Contract!Next]_(Contract!vars)
<1>1. CASE topic' = topic
  BY <1>1 DEF Contract!vars
<1>2. CASE topic' = topic \cup {<<c, x>>}
  <2> DEFINE new == <<c, x>>
  <2>1. new[2] = x /\ new \in topic' /\ \A e \in topic' : e \in topic \/ e = new
    BY <1>2
  <2> HIDE DEF new
  <2>2. {e[2] : e \in topic'} = {e[2] : e \in topic} \cup {x}
    BY <1>2, <2>1 DEF new
  <2>3. x \in born \ (live \cup auths)
    BY <2>1 DEF CascadeInv, AnnouncedAreGone
  <2> QED BY <2>2, <2>3 DEF Contract!Next, Contract!Announce
<1> QED BY <1>1, <1>2

LEMMA CommitContract ==
    ASSUME CascadeInv', NEW c \in Cascades, Commit(c)
    PROVE  Contract!RemoveRows
<1>1. live' \subseteq live /\ UNCHANGED <<auths, born, topic>>
  BY DEF Commit
<1>2. ASSUME NEW x \in live'
      PROVE  ParentsOf[x] \subseteq live' \cup auths
  BY <1>1 DEF CascadeInv, NoOrphanRow, TypeOK, ParentsOf
<1> QED BY <1>1, <1>2 DEF Contract!RemoveRows

LEMMA WipeContract ==
    ASSUME CascadeInv, NEW c \in Cascades, WipeAuths(c)
    PROVE  Contract!Purge
<1> USE DEF CascadeInv
<1>1. PICK gone \in SUBSET creds[c] :
         /\ auths' = auths \ gone
         /\ live' = live \ {x \in live \cap AppAuths : AuthOf[x] \in gone}
         /\ UNCHANGED <<born, topic>>
  BY DEF WipeAuths
<1>2. \A a \in auths \ auths' : Owner[a] \notin live
  BY <1>1 DEF WipeAuths, Progress, CascadeOK, Transaction
<1>3. ASSUME NEW x \in live
      PROVE  x \in live' <=> ParentsOf[x] \cap (auths \ auths') = {}
  <2>1. CASE x \in Apps \cup Endpoints
    <3>1. ParentsOf[x] = {SourceOf[x]} /\ SourceOf[x] \in Sources
      BY <2>1, ShapeAssumption DEF ParentsOf, Rows
    <3>2. x \in live' /\ SourceOf[x] \notin Auths
      BY <1>1, <2>1, <3>1, TablesAssumption
    <3> QED BY <3>1, <3>2 DEF TypeOK
  <2>2. CASE x \in AppAuths
    <3>1. ParentsOf[x] = {AppOf[x], AuthOf[x]} /\ AppOf[x] \notin Auths
      BY <2>2, ShapeAssumption, TablesAssumption DEF ParentsOf, Rows
    <3>2. AuthOf[x] \in auths
      BY <2>2 DEF NoOrphanRow
    <3>3. x \in live' <=> AuthOf[x] \notin gone
      BY <1>1, <2>2
    <3> QED BY <1>1, <3>1, <3>2, <3>3 DEF TypeOK
  <2>3. CASE x \notin Apps \cup Endpoints \cup AppAuths
    BY <1>1, <2>3 DEF ParentsOf, TypeOK
  <2> QED BY <2>1, <2>2, <2>3
<1>4. live' = {x \in live : ParentsOf[x] \cap (auths \ auths') = {}}
  BY <1>1, <1>3
<1> QED BY <1>1, <1>2, <1>4 DEF Contract!Purge

LEMMA RequestContract ==
    ASSUME CascadeInv, Request
    PROVE  [Contract!Next]_(Contract!vars)
<1> USE DEF CascadeInv
<1>1. ASSUME NEW x \in Rows, InsertRow(x)
      PROVE  Contract!InsertRow(x)
  <2>1. ParentsOf[x] \subseteq live \cup auths
    BY <1>1, TablesAssumption DEF InsertRow, ParentsOf
  <2> QED BY <1>1, <2>1 DEF InsertRow, Contract!InsertRow
<1>2. ASSUME NEW a \in Auths, InsertAuth(a)
      PROVE  Contract!InsertAuth(a)
  BY <1>2 DEF InsertAuth, Contract!InsertAuth, Progress, BornOK
<1>3. ASSUME NEW a \in Auths, LookUpOwner(a)
      PROVE  UNCHANGED Contract!vars
  BY <1>3 DEF LookUpOwner, Contract!vars
<1> QED BY <1>1, <1>2, <1>3 DEF Request, Contract!Next

LEMMA StepContract ==
    ASSUME CascadeInv, CascadeInv', [Next]_vars
    PROVE  [Contract!Next]_(Contract!vars)
<1>1. ASSUME NEW c \in Cascades, NEW x \in Rows, Raise(c, x)
      PROVE  [Contract!Next]_(Contract!vars)
  BY <1>1, AnnounceContract DEF Raise
<1>2. ASSUME NEW c \in Cascades, NEW a \in Auths, RaiseAuth(c, a)
      PROVE  [Contract!Next]_(Contract!vars)
  BY <1>2, AnnounceContract DEF RaiseAuth
<1>3. ASSUME NEW c \in Cascades, Commit(c) \/ WipeAuths(c)
      PROVE  Contract!Next
  BY <1>3, CommitContract, WipeContract DEF Contract!Next
<1>4. CASE UNCHANGED <<live, auths, born, topic>>
  BY <1>4 DEF Contract!vars
<1> QED BY <1>1, <1>2, <1>3, <1>4, RequestContract DEF Next, Step, Terminating, vars,
       Find, DeleteRows, DeleteEndpoint, Rollback, EndRaise, ListIdsForResource,
       FetchAuths, Finish, Crash, Begin

(* DeleteCascade implements the contract that clients and consumers of the *)
(* event stream rely on.                                                   *)
THEOREM CascadeImplementsContract == Spec => ImplementsContract
<1>1. CascadeInv /\ CascadeInv' /\ [Next]_vars => [Contract!Next]_(Contract!vars)
  BY StepContract
<1> QED BY InitContract, <1>1, CascadeInvariant, PTL DEF Spec, ImplementsContract, Contract!Spec
=============================================================================
