---------------------------- MODULE ProcessProofs ----------------------------
(***************************************************************************)
(* What a process keeps to, however many applications, background workers, *)
(* requests, rows and messages there are: the retry job counts what it     *)
(* sends, a process that ends well has waited for what it handled, lists,  *)
(* gets and queries show their requester what they may see, and the pages  *)
(* of a list make up the list.                                             *)
(*                                                                         *)
(* The first part is about Worker: a message is sent by a goroutine of     *)
(* Resends, which are counted as the elements of a set, and a run that     *)
(* picked an application is an element of Picking. The second is about     *)
(* main and its unit, the third about Lists, the fourth about GraphQL. The *)
(* last part follows a client through the pages of a list: the rows it has *)
(* passed are a set, which the next page begins after, and what was missed *)
(* or seen twice is counted against what went and what came.               *)
(***************************************************************************)
EXTENDS Process, FiniteSetTheorems, WellFoundedInduction, TLAPS

WorkerIInv == WorkerInv /\ \A a \in Apps : IsFiniteSet(Resends(a))

\* At most all background workers have picked an application.
LEMMA PickingBound ==
    ASSUME WorkerAssumption
    PROVE  /\ IsFiniteSet(Jobs) /\ Cardinality(Jobs) \in Nat \ {0}
           /\ \A S \in SUBSET Jobs :
                 /\ IsFiniteSet(S) /\ Cardinality(S) \in Nat
                 /\ Cardinality(S) <= Cardinality(Jobs)
                 /\ \A j \in S : Cardinality(S \ {j}) = Cardinality(S) - 1
                 /\ \A j \in Jobs \ S : Cardinality(S \cup {j}) = Cardinality(S) + 1
<1>1. IsFiniteSet(Jobs) /\ Jobs # {}
  BY DEF WorkerAssumption
<1>2. Cardinality(Jobs) \in Nat /\ Cardinality(Jobs) # 0
  BY <1>1, FS_CardinalityType, FS_EmptySet
<1>3. ASSUME NEW S \in SUBSET Jobs
      PROVE  /\ IsFiniteSet(S) /\ Cardinality(S) \in Nat
             /\ Cardinality(S) <= Cardinality(Jobs)
  BY <1>1, FS_Subset, FS_CardinalityType
<1>4. ASSUME NEW S \in SUBSET Jobs, NEW j \in S
      PROVE  Cardinality(S \ {j}) = Cardinality(S) - 1
  BY <1>3, FS_RemoveElement
<1>5. ASSUME NEW S \in SUBSET Jobs, NEW j \in Jobs \ S
      PROVE  Cardinality(S \cup {j}) = Cardinality(S) + 1
  BY <1>3, FS_AddElement
<1> QED BY <1>1, <1>2, <1>3, <1>4, <1>5

\* The facts of a state that the steps below start from.
LEMMA WorkerFacts ==
    ASSUME WorkerAssumption, WorkerIInv
    PROVE  /\ WorkerTypes /\ JobsOK /\ RetryMax \in Nat
           /\ \A a \in Apps :
                /\ Picking(a) \subseteq Jobs /\ Cardinality(Picking(a)) \in Nat
                /\ IsFiniteSet(Resends(a)) /\ Cardinality(Resends(a)) \in Nat
                /\ app[a].counter \in Nat /\ rolled[a] \in Nat /\ told["retry"][a] \in Nat
<1>1. \A a \in Apps : Picking(a) \subseteq Jobs
  BY DEF Picking
<1>2. \A a \in Apps : Cardinality(Picking(a)) \in Nat
  BY <1>1, PickingBound
<1>3. \A a \in Apps : IsFiniteSet(Resends(a)) /\ Cardinality(Resends(a)) \in Nat
  BY FS_CardinalityType DEF WorkerIInv
<1>4. \A a \in Apps : app[a].counter \in Nat /\ rolled[a] \in Nat /\ told["retry"][a] \in Nat
  BY DEF WorkerIInv, WorkerInv, WorkerTypes, AppRow
<1> QED BY <1>1, <1>2, <1>3, <1>4 DEF WorkerIInv, WorkerInv, WorkerAssumption

\* Nothing was sent and nothing runs at the start.
LEMMA WorkerInit ==
    ASSUME WorkerAssumption, InitWorker
    PROVE  WorkerIInv
<1>1. \A a \in Apps : Picking(a) = {} /\ Resends(a) = {}
  BY DEF InitWorker, Picking, Resends, Idle
<1>2. IsFiniteSet({}) /\ Cardinality({}) = 0
  BY FS_EmptySet
<1>3. WorkerTypes
  BY DEF InitWorker, WorkerTypes, AppRow, Run, Idle, AskedStates
<1>4. JobsOK
  BY DEF InitWorker, JobsOK, Idle, LockedBy
<1>5. \A a \in Apps : /\ app[a].counter = 0 /\ told["retry"][a] = 0 /\ told["api"][a] = 0
                      /\ rolled[a] = 0 /\ asked[a] = "none"
  BY DEF InitWorker
<1>6. RetryMax \in Nat /\ Cardinality(Jobs) \in Nat \ {0}
  BY PickingBound DEF WorkerAssumption
<1>7. \A a \in Apps :
        /\ app[a].counter + Cardinality(Picking(a)) <= RetryMax + Cardinality(Jobs) - 1
        /\ told["retry"][a] + Cardinality(Resends(a))
             <= app[a].counter + rolled[a] + Cardinality(Picking(a))
        /\ IsFiniteSet(Resends(a))
  <2> TAKE a \in Apps
  <2>1. Picking(a) = {} /\ Resends(a) = {}
    BY <1>1
  <2>2. /\ Cardinality(Picking(a)) = 0 /\ Cardinality(Resends(a)) = 0
        /\ IsFiniteSet(Resends(a))
    BY <1>2, <2>1
  <2> QED BY <1>5, <1>6, <2>2
<1>8. \A a \in Apps : Announced(a)
  BY <1>5 DEF InitWorker, Announced
<1> QED BY <1>3, <1>4, <1>5, <1>7, <1>8 DEF WorkerIInv, WorkerInv

-----------------------------------------------------------------------------
(* Steps that leave the runs and their goroutines alone.                    *)

LEMMA ApiStep ==
    ASSUME WorkerAssumption, WorkerIInv, WorkerTypes',
           job' = job, resends' = resends, rolled' = rolled,
           told'["retry"] = told["retry"],
           \A a \in Apps :
              /\ app'[a].counter = app[a].counter
              /\ app'[a].row = app[a].row \/ (app'[a].row # "new" /\ app[a].row # "gone")
              /\ Announced(a)'
              /\ a \in UserOwned => asked'[a] # "sent"
    PROVE  WorkerIInv'
<1>1. \A a \in Apps : Picking(a)' = Picking(a) /\ Resends(a)' = Resends(a)
  BY DEF Picking, Resends
<1>2. JobsOK'
  <2>1. \A j \in Jobs : job[j] \in Run /\ LockedBy(j)' = LockedBy(j)
    BY DEF WorkerIInv, WorkerInv, WorkerTypes, LockedBy
  <2>2. JobsOK
    BY DEF WorkerIInv, WorkerInv
  <2>3. \A j \in Jobs : \A a \in job[j].settled \cup job[j].picked : a \in Apps
    BY <2>1 DEF Run
  <2>4. ASSUME NEW j \in Jobs
        PROVE  /\ job'[j].pc = "idle" => job'[j].settled = {}
               /\ job'[j].pc \in {"idle", "settled"} => job'[j].picked = {}
               /\ job'[j].settled \cap job'[j].picked = {}
               /\ \A a \in job'[j].settled : app'[a].counter < RetryMax
               /\ \A a \in job'[j].settled \cup job'[j].picked : app'[a].row # "new"
    BY <2>2, <2>3 DEF JobsOK
  <2>5. \A j, k \in Jobs : j # k => LockedBy(j)' \cap LockedBy(k)' = {}
    BY <2>1, <2>2 DEF JobsOK
  <2> QED BY <2>4, <2>5 DEF JobsOK
<1>3. ASSUME NEW a \in Apps
      PROVE  /\ IsFiniteSet(Resends(a)')
             /\ app'[a].counter + Cardinality(Picking(a)') <= RetryMax + Cardinality(Jobs) - 1
             /\ app'[a].row # "gone" => told'["retry"][a] + Cardinality(Resends(a)')
                  <= app'[a].counter + rolled'[a] + Cardinality(Picking(a)')
             /\ a \in UserOwned => told'["retry"][a] = 0
  BY <1>1 DEF WorkerIInv, WorkerInv
<1> QED BY <1>2, <1>3 DEF WorkerIInv, WorkerInv

LEMMA ApiSteps ==
    ASSUME WorkerAssumption, WorkerIInv, NEW a \in Apps,
           \/ ApplicationCreate(a) \/ CheckSuperkey(a) \/ SendCreateRequest(a) \/ PostBack(a)
           \/ SetStatus(a) \/ ApplicationDelete(a) \/ Age(a)
    PROVE  WorkerIInv'
<1>1. /\ WorkerTypes
      /\ \A b \in Apps : /\ Announced(b)
                         /\ b \in UserOwned => asked[b] # "sent"
  BY DEF WorkerIInv, WorkerInv
<1> DEFINE Kept ==
      /\ WorkerTypes'
      /\ job' = job /\ resends' = resends /\ rolled' = rolled
      /\ told'["retry"] = told["retry"]
      /\ \A b \in Apps :
            /\ app'[b].counter = app[b].counter
            /\ app'[b].row = app[b].row \/ (app'[b].row # "new" /\ app[b].row # "gone")
            /\ Announced(b)'
            /\ b \in UserOwned => asked'[b] # "sent"
<1>2. ASSUME ApplicationCreate(a) PROVE Kept
  <2>1. /\ app[a].row = "new" /\ app' = [app EXCEPT ![a].row = "there"]
        /\ asked' = [asked EXCEPT ![a] = "unsure"]
        /\ UNCHANGED <<posted, told, job, resends, rolled>>
    BY <1>2 DEF ApplicationCreate
  <2>2. /\ app' \in [Apps -> AppRow]
        /\ \A b \in Apps : app'[b].counter = app[b].counter
        /\ \A b \in Apps : app'[b].row = app[b].row \/ (app'[b].row = "there" /\ app[b].row = "new")
    <3> DEFINE new == [app[a] EXCEPT !.row = "there"]
    <3>1. app[a] \in AppRow /\ app' = [app EXCEPT ![a] = new]
      BY <1>1, <2>1 DEF WorkerTypes
    <3>2. new \in AppRow /\ new.counter = app[a].counter /\ new.row = "there"
      BY <3>1 DEF AppRow
    <3> HIDE DEF new
    <3> QED BY SMTT(30), <1>1, <2>1, <3>1, <3>2 DEF WorkerTypes
  <2>3. /\ asked' \in [Apps -> AskedStates] /\ asked'[a] = "unsure"
        /\ \A b \in Apps \ {a} : asked'[b] = asked[b]
    BY <1>1, <2>1 DEF WorkerTypes, AskedStates
  <2>4. WorkerTypes'
    BY <1>1, <2>1, <2>2, <2>3 DEF WorkerTypes
  <2>5. ASSUME NEW b \in Apps PROVE Announced(b)'
    <3>1. CASE b = a
      BY <1>1, <2>1, <2>2, <2>3, <3>1 DEF Announced
    <3>2. CASE b # a
      BY <1>1, <2>1, <2>2, <2>3, <3>2 DEF Announced
    <3> QED BY <3>1, <3>2
  <2> QED BY <1>1, <2>1, <2>2, <2>3, <2>4, <2>5
<1>7. ASSUME CheckSuperkey(a) PROVE Kept
  <2>1. PICK new \in {"pending", "no"} :
          /\ asked[a] = "unsure" /\ asked' = [asked EXCEPT ![a] = new]
          /\ \/ told' = told
             \/ new = "no" /\ told' = [told EXCEPT !["api"][a] = @ + 1]
          /\ UNCHANGED <<app, posted, job, resends, rolled>>
    BY <1>7 DEF CheckSuperkey, Tell
  <2>2. /\ asked' \in [Apps -> AskedStates] /\ asked'[a] = new
        /\ \A b \in Apps \ {a} : asked'[b] = asked[b]
    BY <1>1, <2>1 DEF WorkerTypes, AskedStates
  <2>3. /\ told' \in [{"api", "retry"} -> [Apps -> Nat]] /\ told'["retry"] = told["retry"]
        /\ \A b \in Apps \ {a} : told'["api"][b] = told["api"][b]
        /\ told'["api"][a] = told["api"][a] \/ (new = "no" /\ told'["api"][a] = told["api"][a] + 1)
        /\ told["api"][a] \in Nat
    <3>1. CASE told' = told
      BY <1>1, <3>1 DEF WorkerTypes
    <3>2. CASE new = "no" /\ told' = [told EXCEPT !["api"][a] = @ + 1]
      BY <1>1, <3>2 DEF WorkerTypes
    <3> QED BY <2>1, <3>1, <3>2
  <2>4. WorkerTypes'
    BY <1>1, <2>1, <2>2, <2>3 DEF WorkerTypes
  <2>5. ASSUME NEW b \in Apps PROVE Announced(b)'
    <3>1. CASE b = a
      <4>1. a \notin posted /\ told["api"][a] = 0 /\ app[a].row # "new"
        BY <1>1, <2>1, <2>3 DEF Announced
      <4> QED BY <2>1, <2>2, <2>3, <3>1, <4>1 DEF Announced
    <3>2. CASE b # a
      BY <1>1, <2>1, <2>2, <2>3, <3>2 DEF Announced
    <3> QED BY <3>1, <3>2
  <2> QED BY <1>1, <2>1, <2>2, <2>3, <2>4, <2>5
<1>3. ASSUME SendCreateRequest(a) PROVE Kept
  <2>1. PICK new \in {"sent", "dropped"} :
          /\ asked[a] = "pending"
          /\ asked' = [asked EXCEPT ![a] = new] /\ (new = "sent" => a \notin UserOwned)
          /\ UNCHANGED <<app, posted, told, job, resends, rolled>>
    BY <1>3 DEF SendCreateRequest, LoadApplication
  <2>2. /\ asked' \in [Apps -> AskedStates] /\ asked'[a] = new
        /\ \A b \in Apps \ {a} : asked'[b] = asked[b]
    BY <1>1, <2>1 DEF WorkerTypes, AskedStates
  <2>3. WorkerTypes'
    BY <1>1, <2>1, <2>2 DEF WorkerTypes
  <2>4. ASSUME NEW b \in Apps PROVE Announced(b)'
    <3>1. CASE b = a
      BY <1>1, <2>1, <2>2, <3>1 DEF Announced
    <3>2. CASE b # a
      BY <1>1, <2>1, <2>2, <3>2 DEF Announced
    <3> QED BY <3>1, <3>2
  <2> QED BY <1>1, <2>1, <2>2, <2>3, <2>4
<1>4. ASSUME PostBack(a) PROVE Kept
  <2>1. /\ asked[a] = "sent" /\ a \notin posted /\ posted' = posted \cup {a} /\ app[a].row = "there"
        /\ told' = told \/ told' = [told EXCEPT !["api"][a] = @ + 1]
        /\ UNCHANGED <<app, asked, job, resends, rolled>>
    BY <1>4 DEF PostBack, Tell, There
  <2>2. /\ told' \in [{"api", "retry"} -> [Apps -> Nat]] /\ told'["retry"] = told["retry"]
        /\ \A b \in Apps \ {a} : told'["api"][b] = told["api"][b]
        /\ told'["api"][a] \in {told["api"][a], told["api"][a] + 1} /\ told["api"][a] \in Nat
    <3>1. CASE told' = told
      BY <1>1, <3>1 DEF WorkerTypes
    <3>2. CASE told' = [told EXCEPT !["api"][a] = @ + 1]
      BY <1>1, <3>2 DEF WorkerTypes
    <3> QED BY <2>1, <3>1, <3>2
  <2>3. WorkerTypes'
    BY <1>1, <2>1, <2>2 DEF WorkerTypes
  <2>4. ASSUME NEW b \in Apps PROVE Announced(b)'
    <3>1. CASE b = a
      <4>1. told["api"][a] = 0
        BY <1>1, <2>1, <2>2 DEF Announced
      <4> QED BY <2>1, <2>2, <3>1, <4>1 DEF Announced
    <3>2. CASE b # a
      BY <1>1, <2>1, <2>2, <3>2 DEF Announced
    <3> QED BY <3>1, <3>2
  <2> QED BY <1>1, <2>1, <2>2, <2>3, <2>4
<1>5. ASSUME SetStatus(a) \/ ApplicationDelete(a) \/ Age(a) PROVE Kept
  <2>1. /\ \/ app' = [app EXCEPT ![a].available = ~@]
           \/ app' = [app EXCEPT ![a].row = "gone"]
           \/ app' = [app EXCEPT ![a].young = FALSE]
        /\ app[a].row = "there"
        /\ UNCHANGED <<asked, posted, told, job, resends, rolled>>
    BY <1>5 DEF SetStatus, ApplicationDelete, Age, There
  <2>2. /\ app' \in [Apps -> AppRow]
        /\ \A b \in Apps : app'[b].counter = app[b].counter
        /\ \A b \in Apps : app'[b].row = app[b].row \/ (app'[b].row = "gone" /\ app[b].row = "there")
    <3>1. app[a] \in AppRow
      BY <1>1 DEF WorkerTypes
    <3>2. PICK new \in AppRow :
            /\ app' = [app EXCEPT ![a] = new] /\ new.counter = app[a].counter
            /\ new.row = app[a].row \/ (new.row = "gone" /\ app[a].row = "there")
      <4>1. CASE app' = [app EXCEPT ![a].available = ~@]
        <5> DEFINE new == [app[a] EXCEPT !.available = ~app[a].available]
        <5>1. app' = [app EXCEPT ![a] = new]
          BY <4>1
        <5>2. /\ new \in AppRow /\ new.counter = app[a].counter
              /\ new.row = app[a].row
          BY <3>1 DEF AppRow
        <5> HIDE DEF new
        <5> QED BY <2>1, <5>1, <5>2
      <4>2. CASE app' = [app EXCEPT ![a].row = "gone"]
        <5> DEFINE new == [app[a] EXCEPT !.row = "gone"]
        <5>1. app' = [app EXCEPT ![a] = new]
          BY <4>2
        <5>2. /\ new \in AppRow /\ new.counter = app[a].counter
              /\ new.row = "gone"
          BY <3>1 DEF AppRow
        <5> HIDE DEF new
        <5> QED BY <2>1, <5>1, <5>2
      <4>3. CASE app' = [app EXCEPT ![a].young = FALSE]
        <5> DEFINE new == [app[a] EXCEPT !.young = FALSE]
        <5>1. app' = [app EXCEPT ![a] = new]
          BY <4>3
        <5>2. /\ new \in AppRow /\ new.counter = app[a].counter
              /\ new.row = app[a].row
          BY <3>1 DEF AppRow
        <5> HIDE DEF new
        <5> QED BY <2>1, <5>1, <5>2
      <4> QED BY <2>1, <4>1, <4>2, <4>3
    <3> QED BY <1>1, <3>2 DEF WorkerTypes
  <2>3. WorkerTypes'
    BY <1>1, <2>1, <2>2 DEF WorkerTypes
  <2>4. \A b \in Apps : Announced(b)'
    BY <1>1, <2>1, <2>2 DEF Announced
  <2> QED BY <1>1, <2>1, <2>2, <2>3, <2>4
<1>6. Kept
  BY <1>2, <1>3, <1>4, <1>5, <1>7
<1> QED BY <1>6, ApiStep

-----------------------------------------------------------------------------
(* The steps of a run.                                                      *)

\* What changes when the run of j is new.
LEMMA RunStep ==
    ASSUME WorkerTypes, NEW j \in Jobs, NEW new \in Run, job' = [job EXCEPT ![j] = new]
    PROVE  /\ job' \in [Jobs -> Run] /\ job'[j] = new
           /\ \A k \in Jobs \ {j} : job'[k] = job[k] /\ LockedBy(k)' = LockedBy(k)
           /\ LockedBy(j)' = new.settled \cup IF new.pc = "counted" THEN new.picked ELSE {}
           /\ \A a : Picking(a)' = IF a \in new.picked THEN Picking(a) \cup {j}
                                                       ELSE Picking(a) \ {j}
<1>1. /\ job' \in [Jobs -> Run] /\ job'[j] = new
      /\ \A k \in Jobs \ {j} : job'[k] = job[k]
  BY DEF WorkerTypes
<1>2. ASSUME NEW k \in Jobs \ {j} PROVE LockedBy(k)' = LockedBy(k)
  BY <1>1 DEF LockedBy
<1>3. LockedBy(j)' = new.settled \cup IF new.pc = "counted" THEN new.picked ELSE {}
  BY <1>1 DEF LockedBy
<1>4. ASSUME NEW a
      PROVE  Picking(a)' = IF a \in new.picked THEN Picking(a) \cup {j} ELSE Picking(a) \ {j}
  BY <1>1 DEF Picking
<1> QED BY <1>1, <1>2, <1>3, <1>4

\* The number of runs that picked an application, before and after.
LEMMA PickingStep ==
    ASSUME WorkerAssumption, WorkerTypes, NEW j \in Jobs, NEW new \in Run,
           job' = [job EXCEPT ![j] = new], NEW a
    PROVE  /\ Cardinality(Picking(a)') \in Nat
           /\ Cardinality(Picking(a)') <= Cardinality(Jobs)
           /\ a \notin new.picked => Cardinality(Picking(a)') < Cardinality(Jobs)
           /\ a \in new.picked /\ a \notin job[j].picked =>
                Cardinality(Picking(a)') = Cardinality(Picking(a)) + 1
           /\ a \notin new.picked /\ a \in job[j].picked =>
                Cardinality(Picking(a)') = Cardinality(Picking(a)) - 1
           /\ (a \in new.picked <=> a \in job[j].picked) =>
                Cardinality(Picking(a)') = Cardinality(Picking(a))
<1>1. Picking(a) \in SUBSET Jobs /\ (j \in Picking(a) <=> a \in job[j].picked)
  BY DEF Picking
<1>2. Picking(a)' = IF a \in new.picked THEN Picking(a) \cup {j} ELSE Picking(a) \ {j}
  BY RunStep
<1>3. Picking(a)' \in SUBSET Jobs
  BY <1>1, <1>2
<1>4. Cardinality(Picking(a)') \in Nat /\ Cardinality(Picking(a)') <= Cardinality(Jobs)
  BY <1>3, PickingBound
<1>5. ASSUME a \notin new.picked PROVE Cardinality(Picking(a)') < Cardinality(Jobs)
  <2>1. j \notin Picking(a)' /\ Picking(a)' \cup {j} \in SUBSET Jobs
    BY <1>2, <1>3, <1>5
  <2>2. Cardinality(Picking(a)' \cup {j}) = Cardinality(Picking(a)') + 1
    BY <1>3, <2>1, PickingBound
  <2>3. Cardinality(Picking(a)' \cup {j}) <= Cardinality(Jobs) /\ Cardinality(Jobs) \in Nat
    BY <2>1, PickingBound
  <2> QED BY <1>4, <2>2, <2>3
<1>6. CASE a \in new.picked /\ a \notin job[j].picked
  <2>1. Picking(a)' = Picking(a) \cup {j} /\ j \in Jobs \ Picking(a)
    BY <1>1, <1>2, <1>6
  <2>2. Cardinality(Picking(a) \cup {j}) = Cardinality(Picking(a)) + 1
    BY <1>1, <2>1, PickingBound
  <2> QED BY <1>4, <1>5, <1>6, <2>1, <2>2
<1>7. CASE a \notin new.picked /\ a \in job[j].picked
  <2>1. Picking(a)' = Picking(a) \ {j} /\ j \in Picking(a)
    BY <1>1, <1>2, <1>7
  <2>2. Cardinality(Picking(a) \ {j}) = Cardinality(Picking(a)) - 1
    BY <1>1, <2>1, PickingBound
  <2> QED BY <1>4, <1>5, <1>7, <2>1, <2>2
<1>8. CASE a \in new.picked <=> a \in job[j].picked
  <2>1. Picking(a)' = Picking(a)
    BY <1>1, <1>2, <1>8
  <2> QED BY <1>4, <1>5, <1>8, <2>1
<1> QED BY <1>6, <1>7, <1>8

\* A step that sends nothing: the goroutines stay or end, and what the counts lose
\* the rolled back runs gain.
LEMMA SilentRun ==
    ASSUME WorkerAssumption, WorkerIInv, WorkerTypes', JobsOK',
           \A k \in Jobs, a \in Apps : resends'[k][a] \in {0, resends[k][a]},
           told' = told, asked' = asked, posted' = posted,
           \A a \in Apps :
             /\ app'[a].row = app[a].row
             /\ app'[a].counter + Cardinality(Picking(a)') <= RetryMax + Cardinality(Jobs) - 1
             /\ app[a].row # "gone" =>
                  app[a].counter + rolled[a] + Cardinality(Picking(a))
                    <= app'[a].counter + rolled'[a] + Cardinality(Picking(a)')
    PROVE  WorkerIInv'
<1>1. \A a \in Apps : Resends(a)' \subseteq Resends(a)
  <2>1. ASSUME NEW k \in Jobs, NEW a \in Apps
        PROVE  (1..resends'[k][a]) \subseteq (1..resends[k][a])
    <3>1. 1..0 = {} /\ resends'[k][a] \in {0, resends[k][a]}
      OBVIOUS
    <3> QED BY <3>1
  <2> QED BY <2>1 DEF Resends
<1>2. ASSUME NEW a \in Apps
      PROVE  /\ IsFiniteSet(Resends(a)')
             /\ app'[a].counter + Cardinality(Picking(a)') <= RetryMax + Cardinality(Jobs) - 1
             /\ app'[a].row # "gone" => told'["retry"][a] + Cardinality(Resends(a)')
                  <= app'[a].counter + rolled'[a] + Cardinality(Picking(a)')
             /\ Announced(a)'
             /\ a \in UserOwned => asked'[a] # "sent" /\ told'["retry"][a] = 0
  <2>1. /\ Cardinality(Resends(a)') <= Cardinality(Resends(a))
        /\ Cardinality(Resends(a)) \in Nat /\ Cardinality(Resends(a)') \in Nat
        /\ IsFiniteSet(Resends(a)')
    <3>1. IsFiniteSet(Resends(a)) /\ Resends(a)' \subseteq Resends(a)
      BY <1>1, WorkerFacts
    <3> QED BY <3>1, FS_Subset, FS_CardinalityType
  <2>2. /\ told["retry"][a] \in Nat /\ app[a].counter \in Nat /\ rolled[a] \in Nat
        /\ Cardinality(Picking(a)) \in Nat
    BY WorkerFacts
  <2>3. /\ app'[a].counter \in Nat /\ rolled'[a] \in Nat
    BY DEF WorkerTypes, AppRow
  <2>4. Picking(a)' \in SUBSET Jobs
    BY DEF Picking
  <2>5. Cardinality(Picking(a)') \in Nat
    BY <2>4, PickingBound
  <2>6. Announced(a)'
    BY DEF WorkerIInv, WorkerInv, Announced
  <2> QED BY <2>1, <2>2, <2>3, <2>5, <2>6 DEF WorkerIInv, WorkerInv
<1> QED BY <1>2 DEF WorkerIInv, WorkerInv

\* How JobsOK is kept when the run of j changes: its own part, and nobody else
\* holds what it holds.
LEMMA RunOK ==
    ASSUME WorkerTypes, JobsOK, NEW j \in Jobs, NEW new \in Run,
           job' = [job EXCEPT ![j] = new],
           new.pc = "idle" => new.settled = {},
           new.pc \in {"idle", "settled"} => new.picked = {},
           new.settled \cap new.picked = {},
           \A a \in new.settled : app'[a].counter < RetryMax,
           \A a \in new.settled \cup new.picked : app'[a].row # "new",
           \A k \in Jobs \ {j} : \A a \in job[k].settled : app'[a].counter < RetryMax,
           \A a \in Apps : app'[a].row = app[a].row,
           \A k \in Jobs \ {j} :
              LockedBy(k) \cap (new.settled \cup IF new.pc = "counted" THEN new.picked ELSE {}) = {}
    PROVE  JobsOK'
<1>1. /\ job'[j] = new
      /\ \A k \in Jobs \ {j} : job'[k] = job[k] /\ LockedBy(k)' = LockedBy(k)
      /\ LockedBy(j)' = new.settled \cup IF new.pc = "counted" THEN new.picked ELSE {}
  BY RunStep
<1>2. ASSUME NEW k \in Jobs
      PROVE  /\ job'[k].pc = "idle" => job'[k].settled = {}
             /\ job'[k].pc \in {"idle", "settled"} => job'[k].picked = {}
             /\ job'[k].settled \cap job'[k].picked = {}
             /\ \A a \in job'[k].settled : app'[a].counter < RetryMax
             /\ \A a \in job'[k].settled \cup job'[k].picked : app'[a].row # "new"
  <2>1. CASE k = j
    BY <1>1, <2>1
  <2>2. CASE k # j
    <3>1. job'[k] = job[k] /\ job[k] \in Run
      BY <1>1, <2>2 DEF WorkerTypes
    <3>2. \A a \in job[k].settled \cup job[k].picked : a \in Apps /\ app[a].row # "new"
      BY <3>1 DEF JobsOK, Run
    <3> QED BY <2>2, <3>1, <3>2 DEF JobsOK
  <2> QED BY <2>1, <2>2
<1>3. ASSUME NEW k \in Jobs, NEW l \in Jobs, k # l
      PROVE  LockedBy(k)' \cap LockedBy(l)' = {}
  <2>1. CASE k # j /\ l # j
    BY <1>1, <1>3, <2>1 DEF JobsOK
  <2>2. CASE k = j
    BY <1>1, <1>3, <2>2
  <2>3. CASE l = j
    BY <1>1, <1>3, <2>3
  <2> QED BY <2>1, <2>2, <2>3
<1> QED BY <1>2, <1>3 DEF JobsOK

\* The first statement takes what nobody has updated.
LEMMA SettleStep ==
    ASSUME WorkerAssumption, WorkerIInv, NEW j \in Jobs, SettleAvailable(j)
    PROVE  WorkerIInv'
<1> DEFINE done == {a \in Apps : There(a) /\ app[a].available /\ app[a].counter < RetryMax}
           new == [pc |-> "settled", settled |-> done, picked |-> {}]
<1>1. /\ job[j].pc = "idle" /\ \A a \in done : ~Locked(a)
      /\ job' = [job EXCEPT ![j] = new]
      /\ UNCHANGED <<app, asked, posted, told, resends, rolled>>
  BY Zenon DEF SettleAvailable
<1>2. new \in Run /\ new.settled = done /\ new.picked = {} /\ new.pc = "settled"
  BY DEF Run
<1>3. \A a \in done : a \in Apps /\ app[a].counter < RetryMax /\ app[a].row = "there"
  BY DEF There
<1>4. WorkerTypes /\ JobsOK
  BY WorkerFacts
<1>5. job[j].picked = {}
  BY <1>1, <1>4 DEF JobsOK
<1> HIDE DEF new, done
<1>6. \A k \in Jobs : LockedBy(k) \cap done = {}
  BY <1>1 DEF Locked
<1>7. JobsOK'
  <2>1. (new.settled \cup IF new.pc = "counted" THEN new.picked ELSE {}) = done
    BY <1>2
  <2>2. \A k \in Jobs \ {j} : \A a \in job[k].settled : app'[a].counter < RetryMax
    BY <1>1, <1>4 DEF JobsOK
  <2>3. /\ \A a \in new.settled : app'[a].counter < RetryMax
        /\ \A a \in new.settled \cup new.picked : app'[a].row # "new"
    BY <1>1, <1>2, <1>3
  <2> QED BY <1>1, <1>2, <1>4, <1>6, <2>1, <2>2, <2>3, RunOK
<1>8. WorkerTypes'
  BY <1>1, <1>2, <1>4 DEF WorkerTypes
<1>9. ASSUME NEW a \in Apps PROVE Cardinality(Picking(a)') = Cardinality(Picking(a))
  BY <1>1, <1>2, <1>4, <1>5, PickingStep
<1>10. \A a \in Apps : /\ app[a].counter + rolled[a] + Cardinality(Picking(a)) \in Nat
                       /\ app[a].counter + Cardinality(Picking(a)) <= RetryMax + Cardinality(Jobs) - 1
  BY WorkerFacts DEF WorkerIInv, WorkerInv
<1>11. ASSUME NEW a \in Apps
       PROVE  /\ app'[a].row = app[a].row
              /\ app'[a].counter + Cardinality(Picking(a)') <= RetryMax + Cardinality(Jobs) - 1
              /\ app[a].counter + rolled[a] + Cardinality(Picking(a))
                    <= app'[a].counter + rolled'[a] + Cardinality(Picking(a)')
  BY <1>1, <1>9, <1>10
<1>12. \A k \in Jobs, a \in Apps : resends'[k][a] \in {0, resends[k][a]}
  BY <1>1
<1> QED BY <1>1, <1>7, <1>8, <1>11, <1>12, SilentRun

\* The second statement picks: one more run, and one more goroutine, for each.
LEMMA PickStep ==
    ASSUME WorkerAssumption, WorkerIInv, NEW j \in Jobs, PickRetryable(j)
    PROVE  WorkerIInv'
<1> DEFINE some == Retryable(j)
           new == [pc |-> IF some = {} THEN "counted" ELSE "picked",
                   settled |-> job[j].settled, picked |-> some]
<1>1. /\ job[j].pc = "settled"
      /\ job' = [job EXCEPT ![j] = new]
      /\ resends' = [resends EXCEPT ![j] = [a \in Apps |-> resends[j][a] + IF a \in some THEN 1 ELSE 0]]
      /\ UNCHANGED <<app, asked, posted, told, rolled>>
  BY DEF PickRetryable
<1>2. /\ WorkerTypes /\ JobsOK /\ job[j] \in Run
      /\ resends \in [Jobs -> [Apps -> Nat]]
  BY WorkerFacts DEF WorkerTypes
<1>3. \A a \in some : /\ a \in Apps /\ a \notin job[j].settled
                      /\ app[a].row = "there" /\ app[a].counter < RetryMax
  BY DEF Retryable, There
<1>4. /\ new \in Run /\ new.settled = job[j].settled /\ new.picked = some
      /\ new.pc = IF some = {} THEN "counted" ELSE "picked"
  BY <1>2, <1>3 DEF Run
<1>5. job[j].picked = {}
  BY <1>1, <1>2 DEF JobsOK
<1> HIDE DEF new, some
<1>6. JobsOK'
  <2>1. /\ (new.settled \cup IF new.pc = "counted" THEN new.picked ELSE {}) = job[j].settled
        /\ LockedBy(j) = job[j].settled
    BY <1>1, <1>4 DEF LockedBy
  <2>2. /\ \A k \in Jobs : \A a \in job[k].settled : app'[a].counter < RetryMax
        /\ \A a \in job[j].settled : app'[a].row # "new"
    BY <1>1, <1>2 DEF JobsOK
  <2>3. \A a \in some : app'[a].row # "new"
    BY <1>1, <1>3
  <2>4. \A k \in Jobs \ {j} : LockedBy(k) \cap job[j].settled = {}
    BY <1>2, <2>1 DEF JobsOK
  <2>5. /\ \A a \in new.settled : app'[a].counter < RetryMax
        /\ \A a \in new.settled \cup new.picked : app'[a].row # "new"
        /\ new.settled \cap new.picked = {}
        /\ \A a \in Apps : app'[a].row = app[a].row
        /\ new.pc \notin {"idle", "settled"}
    BY <1>1, <1>3, <1>4, <2>2, <2>3
  <2>6. /\ WorkerTypes /\ JobsOK /\ new \in Run /\ job' = [job EXCEPT ![j] = new]
        /\ \A k \in Jobs \ {j} : \A a \in job[k].settled : app'[a].counter < RetryMax
        /\ \A k \in Jobs \ {j} :
             LockedBy(k) \cap (new.settled \cup IF new.pc = "counted" THEN new.picked ELSE {}) = {}
    BY <1>1, <1>2, <1>4, <2>1, <2>2, <2>4
  <2> QED BY <2>5, <2>6, RunOK
<1>7. /\ resends' \in [Jobs -> [Apps -> Nat]]
      /\ \A k \in Jobs \ {j} : resends'[k] = resends[k]
      /\ \A a \in Apps : resends'[j][a] = resends[j][a] + IF a \in some THEN 1 ELSE 0
  BY <1>1, <1>2
<1>8. WorkerTypes'
  BY <1>1, <1>2, <1>4, <1>7 DEF WorkerTypes
<1>9. ASSUME NEW a \in Apps
      PROVE  /\ IsFiniteSet(Resends(a)') /\ Cardinality(Resends(a)') \in Nat
             /\ Cardinality(Resends(a)') = Cardinality(Resends(a)) + IF a \in some THEN 1 ELSE 0
  <2>1. IsFiniteSet(Resends(a)) /\ Cardinality(Resends(a)) \in Nat
    BY WorkerFacts
  <2> DEFINE one == <<j, resends[j][a] + 1>>
  <2>2. /\ resends[j][a] \in Nat
        /\ resends'[j][a] = resends[j][a] + IF a \in some THEN 1 ELSE 0
        /\ \A k \in Jobs \ {j} : resends'[k][a] = resends[k][a]
    BY <1>2, <1>7
  <2>3. CASE a \in some
    <3>1. Resends(a)' = Resends(a) \cup {one} /\ one \notin Resends(a)
      <4>1. \A x : x \in Resends(a) <=> \E k \in Jobs : \E n \in 1..resends[k][a] : x = <<k, n>>
        BY DEF Resends
      <4>2. \A x : x \in Resends(a)' <=> \E k \in Jobs : \E n \in 1..resends'[k][a] : x = <<k, n>>
        BY DEF Resends
      <4>3. \A n : n \in 1..resends'[j][a] <=> n \in 1..resends[j][a] \/ n = resends[j][a] + 1
        BY <2>2, <2>3
      <4>4. ASSUME NEW x PROVE x \in Resends(a)' <=> x \in Resends(a) \/ x = one
        <5>1. ASSUME x \in Resends(a)' PROVE x \in Resends(a) \/ x = one
          <6>0. PICK k \in Jobs : \E n \in 1..resends'[k][a] : x = <<k, n>>
            BY <4>2, <5>1
          <6>1. PICK n \in 1..resends'[k][a] : x = <<k, n>>
            BY <6>0
          <6> QED BY <2>2, <4>1, <4>3, <6>1
        <5>2. ASSUME x \in Resends(a) PROVE x \in Resends(a)'
          <6>0. PICK k \in Jobs : \E n \in 1..resends[k][a] : x = <<k, n>>
            BY <4>1, <5>2
          <6>1. PICK n \in 1..resends[k][a] : x = <<k, n>>
            BY <6>0
          <6>2. n \in 1..resends'[k][a]
            BY <2>2, <4>3, <6>1
          <6> QED BY <4>2, <6>1, <6>2
        <5>3. one \in Resends(a)'
          <6>1. resends[j][a] + 1 \in 1..resends'[j][a]
            BY <2>2, <2>3
          <6> QED BY <4>2, <6>1
        <5> QED BY <5>1, <5>2, <5>3
      <4>5. one \notin Resends(a)
        BY <2>2, <4>1
      <4> QED BY <4>4, <4>5
    <3> HIDE DEF one
    <3> QED BY <2>1, <2>3, <3>1, FS_AddElement
  <2>4. CASE a \notin some
    <3>1. Resends(a)' = Resends(a)
      BY <2>2, <2>4 DEF Resends
    <3> QED BY <2>1, <2>4, <3>1
  <2> QED BY <2>3, <2>4
<1>10. ASSUME NEW a \in Apps
       PROVE  /\ Cardinality(Picking(a)') \in Nat
              /\ Cardinality(Picking(a)') <= Cardinality(Jobs)
              /\ Cardinality(Picking(a)') = Cardinality(Picking(a)) + IF a \in some THEN 1 ELSE 0
              /\ Cardinality(Picking(a)) \in Nat
  <2>1. /\ job' = [job EXCEPT ![j] = new] /\ new \in Run /\ new.picked = some
        /\ a \notin job[j].picked
    BY <1>1, <1>4, <1>5
  <2>2. /\ Cardinality(Picking(a)') \in Nat
        /\ Cardinality(Picking(a)') <= Cardinality(Jobs)
        /\ a \in some => Cardinality(Picking(a)') = Cardinality(Picking(a)) + 1
        /\ a \notin some => Cardinality(Picking(a)') = Cardinality(Picking(a))
    BY <1>2, <2>1, PickingStep
  <2>3. Cardinality(Picking(a)) \in Nat
    BY WorkerFacts
  <2> QED BY <2>2, <2>3
<1>11. Cardinality(Jobs) \in Nat /\ RetryMax \in Nat
  BY PickingBound DEF WorkerAssumption
<1>12. ASSUME NEW a \in Apps
       PROVE  /\ app'[a].counter + Cardinality(Picking(a)') <= RetryMax + Cardinality(Jobs) - 1
              /\ app'[a].row # "gone" => told'["retry"][a] + Cardinality(Resends(a)')
                   <= app'[a].counter + rolled'[a] + Cardinality(Picking(a)')
              /\ Announced(a)'
              /\ a \in UserOwned => asked'[a] # "sent" /\ told'["retry"][a] = 0
  <2>1. /\ app[a].counter \in Nat /\ rolled[a] \in Nat /\ told["retry"][a] \in Nat
        /\ Cardinality(Resends(a)) \in Nat
    BY WorkerFacts
  <2>2. /\ app[a].counter + Cardinality(Picking(a)) <= RetryMax + Cardinality(Jobs) - 1
        /\ app[a].row # "gone" => told["retry"][a] + Cardinality(Resends(a))
             <= app[a].counter + rolled[a] + Cardinality(Picking(a))
        /\ Announced(a)
        /\ a \in UserOwned => asked[a] # "sent" /\ told["retry"][a] = 0
    BY DEF WorkerIInv, WorkerInv
  <2>5. Announced(a)'
    BY <1>1, <2>2 DEF Announced
  <2>3. CASE a \in some
    <3>1. app[a].counter < RetryMax
      BY <1>3, <2>3
    <3> QED BY <1>1, <1>9, <1>10, <1>11, <2>1, <2>2, <2>3, <2>5, <3>1
  <2>4. CASE a \notin some
    BY <1>1, <1>9, <1>10, <1>11, <2>1, <2>2, <2>4, <2>5
  <2> QED BY <2>3, <2>4
<1>13. \A a \in Apps : IsFiniteSet(Resends(a)')
  BY <1>9
<1> QED BY <1>6, <1>8, <1>12, <1>13 DEF WorkerIInv, WorkerInv

\* The third statement changes nothing but what the run holds.
LEMMA CountStep ==
    ASSUME WorkerAssumption, WorkerIInv, NEW j \in Jobs, CountRetry(j)
    PROVE  WorkerIInv'
<1> DEFINE new == [job[j] EXCEPT !.pc = "counted"]
<1>1. /\ job[j].pc = "picked" /\ \A a \in job[j].picked : ~Locked(a)
      /\ job' = [job EXCEPT ![j] = new]
      /\ UNCHANGED <<app, asked, posted, told, resends, rolled>>
  BY DEF CountRetry
<1>2. WorkerTypes /\ JobsOK /\ job[j] \in Run
  BY WorkerFacts DEF WorkerTypes
<1>3. /\ new \in Run /\ new.pc = "counted"
      /\ new.settled = job[j].settled /\ new.picked = job[j].picked
  BY <1>2 DEF Run
<1> HIDE DEF new
<1>4. JobsOK'
  <2>1. \A k \in Jobs \ {j} : LockedBy(k) \cap (job[j].settled \cup job[j].picked) = {}
    <3>1. \A k \in Jobs : LockedBy(k) \cap job[j].picked = {}
      BY <1>1 DEF Locked
    <3>2. \A k \in Jobs \ {j} : LockedBy(k) \cap job[j].settled = {}
      BY <1>2 DEF JobsOK, LockedBy
    <3> QED BY <3>1, <3>2
  <2>2. /\ \A k \in Jobs : \A a \in job[k].settled : app'[a].counter < RetryMax
        /\ \A a \in job[j].settled \cup job[j].picked : app'[a].row # "new"
        /\ job[j].settled \cap job[j].picked = {}
    BY <1>1, <1>2 DEF JobsOK
  <2> QED BY <1>1, <1>2, <1>3, <2>1, <2>2, RunOK
<1>5. WorkerTypes'
  BY <1>1, <1>2, <1>3 DEF WorkerTypes
<1>6. ASSUME NEW a \in Apps PROVE Cardinality(Picking(a)') = Cardinality(Picking(a))
  BY <1>1, <1>2, <1>3, PickingStep
<1>7. \A a \in Apps : /\ app[a].counter + rolled[a] + Cardinality(Picking(a)) \in Nat
                      /\ app[a].counter + Cardinality(Picking(a)) <= RetryMax + Cardinality(Jobs) - 1
  BY WorkerFacts DEF WorkerIInv, WorkerInv
<1>8. ASSUME NEW a \in Apps
      PROVE  /\ app'[a].row = app[a].row
             /\ app'[a].counter + Cardinality(Picking(a)') <= RetryMax + Cardinality(Jobs) - 1
             /\ app[a].counter + rolled[a] + Cardinality(Picking(a))
                   <= app'[a].counter + rolled'[a] + Cardinality(Picking(a)')
  BY <1>1, <1>6, <1>7
<1>9. \A k \in Jobs, a \in Apps : resends'[k][a] \in {0, resends[k][a]}
  BY <1>1
<1> QED BY <1>1, <1>4, <1>5, <1>8, <1>9, SilentRun

\* The run ends: what it picked is counted, what it settled is at the limit, and
\* no other run holds either.
LEMMA CommitStep ==
    ASSUME WorkerAssumption, WorkerIInv, NEW j \in Jobs, Commit(j)
    PROVE  WorkerIInv'
<1>1. /\ job[j].pc = "counted"
      /\ job' = [job EXCEPT ![j] = Idle]
      /\ UNCHANGED <<asked, posted, told, resends, rolled>>
  BY DEF Commit
<1>2. WorkerTypes /\ JobsOK /\ job[j] \in Run /\ RetryMax \in Nat
  BY WorkerFacts DEF WorkerTypes
<1>3. Idle \in Run /\ Idle.pc = "idle" /\ Idle.settled = {} /\ Idle.picked = {}
  BY DEF Idle, Run
<1>4. /\ app' \in [Apps -> AppRow]
      /\ \A a \in Apps :
           /\ app'[a].row = app[a].row
           /\ app'[a].counter = IF a \in job[j].settled THEN RetryMax
                                ELSE IF a \in job[j].picked /\ There(a) THEN app[a].counter + 1
                                ELSE app[a].counter
  <2> DEFINE count(a) == IF a \in job[j].settled THEN RetryMax
                         ELSE IF a \in job[j].picked /\ There(a) THEN app[a].counter + 1
                         ELSE app[a].counter
  <2>1. app' = [a \in Apps |-> [app[a] EXCEPT !.counter = count(a)]]
    BY DEF Commit
  <2>2. \A a \in Apps : app[a] \in AppRow /\ app[a].counter \in Nat /\ count(a) \in Nat
    BY <1>2 DEF WorkerTypes, AppRow
  <2> HIDE DEF count
  <2>3. ASSUME NEW a \in Apps
        PROVE  /\ [app[a] EXCEPT !.counter = count(a)] \in AppRow
               /\ [app[a] EXCEPT !.counter = count(a)].row = app[a].row
               /\ [app[a] EXCEPT !.counter = count(a)].counter = count(a)
    BY <2>2 DEF AppRow
  <2>4. /\ app' \in [Apps -> AppRow]
        /\ \A a \in Apps : app'[a].row = app[a].row /\ app'[a].counter = count(a)
    BY <2>1, <2>3
  <2> QED BY <2>4 DEF count
<1>5. JobsOK'
  <2>1. LockedBy(j) = job[j].settled \cup job[j].picked
    BY <1>1 DEF LockedBy
  <2>2. ASSUME NEW k \in Jobs \ {j}, NEW a \in job[k].settled
        PROVE  app'[a].counter < RetryMax
    <3>1. a \in Apps /\ app[a].counter < RetryMax
      BY <1>2 DEF WorkerTypes, Run, JobsOK
    <3>2. a \notin LockedBy(j)
      BY <1>2 DEF JobsOK, LockedBy
    <3> QED BY <1>4, <2>1, <3>1, <3>2
  <2>3. (Idle.settled \cup IF Idle.pc = "counted" THEN Idle.picked ELSE {}) = {}
    BY <1>3
  <2>4. /\ \A a \in Idle.settled : app'[a].counter < RetryMax
        /\ \A a \in Idle.settled \cup Idle.picked : app'[a].row # "new"
        /\ Idle.settled \cap Idle.picked = {}
        /\ \A a \in Apps : app'[a].row = app[a].row
    BY <1>3, <1>4
  <2> QED BY <1>1, <1>2, <1>3, <2>2, <2>3, <2>4, RunOK
<1>6. WorkerTypes'
  BY <1>1, <1>2, <1>3, <1>4 DEF WorkerTypes
<1>7. ASSUME NEW a \in Apps
      PROVE  /\ app'[a].row = app[a].row
             /\ app'[a].counter + Cardinality(Picking(a)') <= RetryMax + Cardinality(Jobs) - 1
             /\ app[a].row # "gone" =>
                  app[a].counter + rolled[a] + Cardinality(Picking(a))
                    <= app'[a].counter + rolled'[a] + Cardinality(Picking(a)')
  <2>1. /\ app[a].counter \in Nat /\ rolled[a] \in Nat /\ rolled'[a] = rolled[a]
        /\ Cardinality(Picking(a)) \in Nat
        /\ app[a].counter + Cardinality(Picking(a)) <= RetryMax + Cardinality(Jobs) - 1
        /\ Cardinality(Jobs) \in Nat
    BY <1>1, WorkerFacts, PickingBound DEF WorkerIInv, WorkerInv
  <2>2. /\ Cardinality(Picking(a)') \in Nat /\ Cardinality(Picking(a)') < Cardinality(Jobs)
        /\ Cardinality(Picking(a)') = IF a \in job[j].picked THEN Cardinality(Picking(a)) - 1
                                                             ELSE Cardinality(Picking(a))
    BY <1>1, <1>2, <1>3, PickingStep
  <2>3. CASE a \in job[j].settled
    <3>1. a \notin job[j].picked /\ app[a].counter < RetryMax /\ app'[a].counter = RetryMax
      BY <1>2, <1>4, <2>3 DEF JobsOK
    <3> QED BY <1>2, <1>4, <2>1, <2>2, <3>1
  <2>4. CASE a \notin job[j].settled /\ a \in job[j].picked
    <3>1. app[a].row # "new" /\ app[a].row \in {"new", "there", "gone"}
      BY <1>2, <2>4 DEF JobsOK, WorkerTypes, AppRow
    <3>2. CASE There(a)
      <4>1. app'[a].counter = app[a].counter + 1
        BY <1>4, <2>4, <3>2
      <4> QED BY <1>2, <1>4, <2>1, <2>2, <2>4, <4>1
    <3>3. CASE ~There(a)
      <4>1. app[a].row = "gone" /\ app'[a].counter = app[a].counter
        BY <1>4, <2>4, <3>1, <3>3 DEF There
      <4> QED BY <1>2, <1>4, <2>1, <2>2, <2>4, <4>1
    <3> QED BY <3>2, <3>3
  <2>5. CASE a \notin job[j].settled /\ a \notin job[j].picked
    BY <1>2, <1>4, <2>1, <2>2, <2>5
  <2> QED BY <2>3, <2>4, <2>5
<1>8. \A k \in Jobs, a \in Apps : resends'[k][a] \in {0, resends[k][a]}
  BY <1>1
<1> QED BY <1>1, <1>5, <1>6, <1>7, <1>8, SilentRun

\* A run that is undone leaves what it sent to the runs that rolled back.
LEMMA UndoStep ==
    ASSUME WorkerAssumption, WorkerIInv, NEW j \in Jobs, Rollback(j) \/ StopWorker(j)
    PROVE  WorkerIInv' /\ job'[j] = Idle
<1>1. /\ job' = [job EXCEPT ![j] = Idle]
      /\ rolled' = [a \in Apps |-> rolled[a] + IF a \in job[j].picked THEN 1 ELSE 0]
      /\ UNCHANGED <<app, asked, posted, told>>
      /\ \/ resends' = resends
         \/ resends' = [resends EXCEPT ![j] = [a \in Apps |-> 0]]
  BY DEF Rollback, StopWorker, Undo
<1>2. WorkerTypes /\ JobsOK /\ job[j] \in Run
  BY WorkerFacts DEF WorkerTypes
<1>3. Idle \in Run /\ Idle.pc = "idle" /\ Idle.settled = {} /\ Idle.picked = {}
  BY DEF Idle, Run
<1>4. /\ resends' \in [Jobs -> [Apps -> Nat]]
      /\ \A k \in Jobs, a \in Apps : resends'[k][a] \in {0, resends[k][a]}
  <2>1. resends \in [Jobs -> [Apps -> Nat]]
    BY <1>2 DEF WorkerTypes
  <2>2. CASE resends' = resends
    BY <2>1, <2>2
  <2>3. CASE resends' = [resends EXCEPT ![j] = [a \in Apps |-> 0]]
    <3>1. /\ resends' \in [Jobs -> [Apps -> Nat]] /\ resends'[j] = [a \in Apps |-> 0]
          /\ \A k \in Jobs : k # j => resends'[k] = resends[k]
      BY <2>1, <2>3
    <3> QED BY <3>1
  <2> QED BY <1>1, <2>2, <2>3
<1>5. JobsOK'
  <2>1. (Idle.settled \cup IF Idle.pc = "counted" THEN Idle.picked ELSE {}) = {}
    BY <1>3
  <2>2. \A k \in Jobs : \A a \in job[k].settled : app'[a].counter < RetryMax
    BY <1>1, <1>2 DEF JobsOK
  <2> QED BY ZenonT(30), <1>1, <1>2, <1>3, <2>1, <2>2, RunOK
<1>6. rolled' \in [Apps -> Nat]
  BY <1>1, <1>2 DEF WorkerTypes
<1>7. WorkerTypes'
  BY <1>1, <1>2, <1>3, <1>4, <1>6 DEF WorkerTypes
<1>8. ASSUME NEW a \in Apps
      PROVE  /\ app'[a].row = app[a].row
             /\ app'[a].counter + Cardinality(Picking(a)') <= RetryMax + Cardinality(Jobs) - 1
             /\ app[a].counter + rolled[a] + Cardinality(Picking(a))
                  <= app'[a].counter + rolled'[a] + Cardinality(Picking(a)')
  <2>1. /\ app[a].counter \in Nat /\ rolled[a] \in Nat
        /\ rolled'[a] = rolled[a] + IF a \in job[j].picked THEN 1 ELSE 0
        /\ Cardinality(Picking(a)) \in Nat
        /\ app[a].counter + Cardinality(Picking(a)) <= RetryMax + Cardinality(Jobs) - 1
        /\ Cardinality(Jobs) \in Nat /\ RetryMax \in Nat
    BY <1>1, WorkerFacts, PickingBound DEF WorkerIInv, WorkerInv
  <2>2. /\ Cardinality(Picking(a)') \in Nat
        /\ Cardinality(Picking(a)') = IF a \in job[j].picked THEN Cardinality(Picking(a)) - 1
                                                             ELSE Cardinality(Picking(a))
    BY <1>1, <1>2, <1>3, PickingStep
  <2>3. app' = app
    BY <1>1
  <2> QED BY <2>1, <2>2, <2>3
<1>9. job'[j] = Idle
  BY <1>1, <1>2 DEF WorkerTypes
<1> QED BY <1>1, <1>4, <1>5, <1>7, <1>8, <1>9, SilentRun

\* A goroutine sends or gives up: it is one of those that were counted.
LEMMA ResendStep ==
    ASSUME WorkerAssumption, WorkerIInv, NEW j \in Jobs, NEW a \in Apps,
           ResendCreateMessages(j, a)
    PROVE  WorkerIInv'
<1> DEFINE one == <<j, resends[j][a]>>
<1>1. /\ resends[j][a] > 0
      /\ resends' = [resends EXCEPT ![j][a] = resends[j][a] - 1]
      /\ \/ a \notin UserOwned /\ told' = [told EXCEPT !["retry"][a] = told["retry"][a] + 1]
         \/ told' = told
      /\ UNCHANGED <<app, asked, posted, job, rolled>>
  BY DEF ResendCreateMessages, LoadApplication, Tell
<1>2. /\ WorkerTypes /\ JobsOK /\ resends \in [Jobs -> [Apps -> Nat]]
      /\ told \in [{"api", "retry"} -> [Apps -> Nat]]
  BY WorkerFacts DEF WorkerTypes
<1>3. /\ resends' \in [Jobs -> [Apps -> Nat]]
      /\ resends'[j][a] = resends[j][a] - 1 /\ resends[j][a] \in Nat \ {0}
      /\ \A k \in Jobs, b \in Apps : k # j \/ b # a => resends'[k][b] = resends[k][b]
  BY <1>1, <1>2
<1>4. /\ told' \in [{"api", "retry"} -> [Apps -> Nat]]
      /\ told'["api"] = told["api"]
      /\ \A b \in Apps \ {a} : told'["retry"][b] = told["retry"][b]
      /\ \/ a \notin UserOwned /\ told'["retry"][a] = told["retry"][a] + 1
         \/ told'["retry"][a] = told["retry"][a]
  BY <1>1, <1>2
<1>5. WorkerTypes'
  BY <1>1, <1>2, <1>3, <1>4 DEF WorkerTypes
<1>6. JobsOK'
  BY <1>1, <1>2 DEF JobsOK, LockedBy
<1>7. \A b \in Apps : Picking(b)' = Picking(b)
  BY <1>1 DEF Picking
<1>8. \A b \in Apps \ {a} : Resends(b)' = Resends(b)
  BY <1>3 DEF Resends
<1>9. Resends(a)' = Resends(a) \ {one} /\ one \in Resends(a)
  <2>1. \A x : x \in Resends(a) <=> \E k \in Jobs : \E n \in 1..resends[k][a] : x = <<k, n>>
    BY DEF Resends
  <2>2. \A x : x \in Resends(a)' <=> \E k \in Jobs : \E n \in 1..resends'[k][a] : x = <<k, n>>
    BY DEF Resends
  <2>3. \A n : n \in 1..resends[j][a] <=> n \in 1..resends'[j][a] \/ n = resends[j][a]
    BY <1>3
  <2>4. resends[j][a] \notin 1..resends'[j][a]
    BY <1>3
  <2>5. ASSUME NEW x \in Resends(a)' PROVE x \in Resends(a) \ {one}
    <3>1. PICK k \in Jobs : \E n \in 1..resends'[k][a] : x = <<k, n>>
      BY <2>2
    <3>2. PICK n \in 1..resends'[k][a] : x = <<k, n>>
      BY <3>1
    <3> QED BY <1>3, <2>1, <2>3, <2>4, <3>2
  <2>6. ASSUME NEW x \in Resends(a) \ {one} PROVE x \in Resends(a)'
    <3>1. PICK k \in Jobs : \E n \in 1..resends[k][a] : x = <<k, n>>
      BY <2>1
    <3>2. PICK n \in 1..resends[k][a] : x = <<k, n>>
      BY <3>1
    <3>3. n \in 1..resends'[k][a]
      BY <1>3, <2>3, <3>2
    <3> QED BY <2>2, <3>2, <3>3
  <2>7. one \in Resends(a)
    <3>1. resends[j][a] \in 1..resends[j][a]
      BY <1>3
    <3> QED BY <2>1, <3>1
  <2> QED BY <2>5, <2>6, <2>7
<1>10. /\ IsFiniteSet(Resends(a)') /\ Cardinality(Resends(a)') = Cardinality(Resends(a)) - 1
       /\ Cardinality(Resends(a)) \in Nat
  <2>1. IsFiniteSet(Resends(a)) /\ Cardinality(Resends(a)) \in Nat
    BY WorkerFacts
  <2> HIDE DEF one
  <2> QED BY <1>9, <2>1, FS_RemoveElement
<1>11. ASSUME NEW b \in Apps
       PROVE  /\ IsFiniteSet(Resends(b)')
              /\ app'[b].counter + Cardinality(Picking(b)') <= RetryMax + Cardinality(Jobs) - 1
              /\ app'[b].row # "gone" => told'["retry"][b] + Cardinality(Resends(b)')
                   <= app'[b].counter + rolled'[b] + Cardinality(Picking(b)')
              /\ Announced(b)'
              /\ b \in UserOwned => asked'[b] # "sent" /\ told'["retry"][b] = 0
  <2>1. /\ app[b].counter + Cardinality(Picking(b)) <= RetryMax + Cardinality(Jobs) - 1
        /\ app[b].row # "gone" => told["retry"][b] + Cardinality(Resends(b))
             <= app[b].counter + rolled[b] + Cardinality(Picking(b))
        /\ Announced(b)
        /\ b \in UserOwned => asked[b] # "sent" /\ told["retry"][b] = 0
        /\ IsFiniteSet(Resends(b))
    BY DEF WorkerIInv, WorkerInv
  <2>2. /\ Picking(b)' = Picking(b) /\ app'[b] = app[b] /\ rolled'[b] = rolled[b]
        /\ posted' = posted /\ asked' = asked /\ told'["api"] = told["api"]
    BY <1>1, <1>4, <1>7
  <2>5. Announced(b)'
    BY <2>1, <2>2 DEF Announced
  <2>3. CASE b # a
    <3>1. Resends(b)' = Resends(b) /\ told'["retry"][b] = told["retry"][b]
      BY <1>4, <1>8, <2>3
    <3> QED BY <2>1, <2>2, <2>5, <3>1
  <2>4. CASE b = a
    <3>1. /\ told["retry"][a] \in Nat /\ app[a].counter \in Nat /\ rolled[a] \in Nat
          /\ Cardinality(Picking(a)) \in Nat
      BY WorkerFacts
    <3>2. /\ told'["retry"][a] <= told["retry"][a] + 1 /\ told'["retry"][a] \in Nat
          /\ a \in UserOwned => told'["retry"][a] = told["retry"][a]
      BY <1>4, <3>1
    <3>3. app[a].row # "gone" => told'["retry"][a] + Cardinality(Resends(a)')
                 <= app[a].counter + rolled[a] + Cardinality(Picking(a))
      BY <1>10, <2>1, <2>4, <3>1, <3>2
    <3> QED BY <1>10, <2>1, <2>2, <2>4, <2>5, <3>2, <3>3
  <2> QED BY <2>3, <2>4
<1> QED BY <1>5, <1>6, <1>11 DEF WorkerIInv, WorkerInv

\* A request that is forgotten when the API server ends.
LEMMA ForgetStep ==
    ASSUME WorkerAssumption, WorkerIInv,
           asked' = [a \in Apps |-> IF asked[a] = "pending" THEN "dropped" ELSE asked[a]],
           UNCHANGED <<app, posted, told, job, resends, rolled>>
    PROVE  WorkerIInv'
<1>1. /\ WorkerTypes
      /\ \A b \in Apps : /\ Announced(b)
                         /\ b \in UserOwned => asked[b] # "sent"
  BY DEF WorkerIInv, WorkerInv
<1>2. /\ asked' \in [Apps -> AskedStates]
      /\ \A b \in Apps : asked'[b] = IF asked[b] = "pending" THEN "dropped" ELSE asked[b]
  BY <1>1 DEF WorkerTypes, AskedStates
<1>3. WorkerTypes'
  BY <1>1, <1>2 DEF WorkerTypes
<1>5. \A a \in Apps : Announced(a)'
  BY <1>1, <1>2 DEF Announced
<1>4. \A a \in Apps :
        /\ app'[a].counter = app[a].counter
        /\ app'[a].row = app[a].row \/ (app'[a].row # "new" /\ app[a].row # "gone")
        /\ Announced(a)'
        /\ a \in UserOwned => asked'[a] # "sent"
  BY <1>1, <1>2, <1>5
<1> QED BY <1>3, <1>4, ApiStep

LEMMA WorkerStutter ==
    ASSUME WorkerIInv, UNCHANGED workerVars
    PROVE  WorkerIInv'
<1>1. UNCHANGED <<app, asked, posted, told, job, resends, rolled>>
  BY DEF workerVars
<1>2. WorkerTypes' /\ JobsOK'
  BY <1>1 DEF WorkerIInv, WorkerInv, WorkerTypes, JobsOK, LockedBy
<1>3. \A a \in Apps : Picking(a)' = Picking(a) /\ Resends(a)' = Resends(a)
  BY <1>1 DEF Picking, Resends
<1>4. ASSUME NEW a \in Apps
      PROVE  /\ IsFiniteSet(Resends(a)')
             /\ app'[a].counter + Cardinality(Picking(a)') <= RetryMax + Cardinality(Jobs) - 1
             /\ app'[a].row # "gone" => told'["retry"][a] + Cardinality(Resends(a)')
                  <= app'[a].counter + rolled'[a] + Cardinality(Picking(a)')
             /\ Announced(a)'
             /\ a \in UserOwned => asked'[a] # "sent" /\ told'["retry"][a] = 0
  BY <1>1, <1>3 DEF WorkerIInv, WorkerInv, Announced
<1> QED BY <1>2, <1>4 DEF WorkerIInv, WorkerInv

LEMMA JobSteps ==
    ASSUME WorkerAssumption, WorkerIInv, NEW j \in Jobs,
           RunJob(j) \/ Rollback(j) \/ StopWorker(j)
    PROVE  WorkerIInv'
BY SettleStep, PickStep, CountStep, CommitStep, ResendStep, UndoStep DEF RunJob

-----------------------------------------------------------------------------
(* The process as a whole.                                                  *)

\* What a step of the process does to the rows and runs of the applications.
LEMMA ProcessWorkerStep ==
    ASSUME WorkerAssumption, ProcessAssumption, WorkerIInv, [NextProcess]_processVars
    PROVE  WorkerIInv'
<1>1. Here \in Jobs
  BY DEF ProcessAssumption
<1>2. CASE UNCHANGED workerVars
  BY <1>2, WorkerStutter
<1>3. ASSUME NEW code, Terminate(code) PROVE WorkerIInv'
  <2>1. CASE proc.mode = "worker"
    <3>1. StopWorker(Here)
      BY <1>3, <2>1 DEF Terminate
    <3> QED BY <1>1, <3>1, UndoStep
  <2>2. CASE proc.mode = "applications"
    <3>1. /\ asked' = [a \in Apps |-> IF asked[a] = "pending" THEN "dropped" ELSE asked[a]]
          /\ UNCHANGED <<app, posted, told, job, resends, rolled>>
      BY <1>3, <2>2 DEF Terminate
    <3> QED BY <3>1, ForgetStep
  <2>3. CASE proc.mode \notin {"worker", "applications"}
    <3>1. UNCHANGED workerVars
      BY <1>3, <2>3 DEF Terminate
    <3> QED BY <3>1, WorkerStutter
  <2> QED BY <2>1, <2>2, <2>3
<1>4. CASE ReceiveShutdown \/ DrainTimeout \/ Fatal
  BY <1>3, <1>4 DEF ReceiveShutdown, DrainTimeout, Fatal
<1>5. CASE ServeApplications
  <2>1. \E a \in Apps : ApplicationCreate(a) \/ CheckSuperkey(a) \/ SendCreateRequest(a)
    BY <1>5 DEF ServeApplications
  <2> QED BY <2>1, ApiSteps
<1>6. CASE RunScheduledJobs
  <2>1. RunJob(Here) \/ Rollback(Here)
    BY <1>6 DEF RunScheduledJobs
  <2> QED BY <1>1, <2>1, JobSteps
<1>7. CASE OtherProcesses
  <2>1. \/ UNCHANGED workerVars
        \/ \E a \in Apps : ApplicationCreate(a) \/ CheckSuperkey(a) \/ PostBack(a)
                             \/ SetStatus(a) \/ ApplicationDelete(a) \/ Age(a)
        \/ \E j \in Jobs : RunJob(j) \/ Rollback(j)
    BY <1>7, Zenon DEF OtherProcesses
  <2>2. CASE UNCHANGED workerVars
    BY <2>2, WorkerStutter
  <2>3. CASE \E a \in Apps : ApplicationCreate(a) \/ CheckSuperkey(a) \/ PostBack(a)
                               \/ SetStatus(a) \/ ApplicationDelete(a) \/ Age(a)
    BY <2>3, ApiSteps
  <2>4. CASE \E j \in Jobs : RunJob(j) \/ Rollback(j)
    BY <2>4, JobSteps
  <2> QED BY <2>1, <2>2, <2>3, <2>4
<1>8. CASE Signal \/ SendShutdown \/ StartUnit \/ Drained \/ CloseReader \/ Requested
  BY <1>2, <1>8 DEF Signal, SendShutdown, StartUnit, Drained, CloseReader, Requested,
                    AnswerLists, AnswerQuery
<1>9. CASE Consume \/ PopJob \/ Handle \/ ProduceHealthcheck \/ PingValkey \/ ConsumeBeat
            \/ HealthCheckInterval
  BY <1>2, <1>9 DEF Consume, PopJob, Take, Handle, ProduceHealthcheck, PingValkey, ConsumeBeat,
                    HealthCheckInterval
<1>10. CASE UNCHANGED processVars
  BY <1>2, <1>10 DEF processVars
<1> QED BY <1>4, <1>5, <1>6, <1>7, <1>8, <1>9, <1>10 DEF NextProcess, Main, Unit, Background

\* However many background workers run the retry job, on however many
\* applications, and whenever their runs roll back and processes stop: an
\* application is announced again at most once for every count, for every run
\* under way and for every run that rolled back, and the count passes RetryMax
\* only by the runs that read it at the same time. The API announces an
\* application at most once: one of a superkey source after the superkey worker
\* posted back, or never having asked for it when IsSuperkey failed. None of a user
\* is asked for or announced again (RetryCreateJob, ResendCreateMessages, SendCreateRequest).
THEOREM RetriesCounted ==
    ASSUME WorkerAssumption, ProcessAssumption
    PROVE  SpecProcess => []WorkerInv
<1>1. InitProcess => WorkerIInv
  BY WorkerInit DEF InitProcess
<1>2. WorkerIInv /\ [NextProcess]_processVars => WorkerIInv'
  BY ProcessWorkerStep
<1>3. WorkerIInv => WorkerInv
  BY DEF WorkerIInv
<1> QED BY <1>1, <1>2, <1>3, PTL DEF SpecProcess

-----------------------------------------------------------------------------
(* The end of a process.                                                    *)

\* What a process that ends well went through, as it is known on the way: only
\* the mode that is looked at has something in flight, and the unit answers
\* (is "sending") when it has none and its reader is closed. The fields of
\* records that others change are there.
ShutdownOK ==
    /\ DOMAIN proc = {"mode", "main", "unit", "exit"}
    /\ "step" \in DOMAIN session /\ "closed" \in DOMAIN inbox
    /\ proc.mode \in Modes /\ proc.exit \in {"none", "0", "1"}
    /\ proc.mode # "lists" => session.step = "done"
    /\ proc.mode # "graphql" => gql.status # "open"
    /\ proc.unit = "draining" => proc.mode \in Server
    /\ proc.unit = "closing" => proc.mode = "listener"
    /\ proc.unit = "sending" => ~InFlight /\ (proc.mode = "listener" => inbox.closed)
    /\ proc.exit = "0" => proc.main = "receiving" /\ proc.unit = "sending"
    /\ ~Alive /\ proc.mode = "worker" => job[Here].pc = "idle" /\ LockedBy(Here) = {}

LEMMA ShutdownInit ==
    ASSUME InitProcess PROVE ShutdownOK
<1>1. PICK mode \in Modes :
        /\ proc = [mode |-> mode, main |-> "waiting", unit |-> "starting", exit |-> "none"]
        /\ inbox = [unread |-> IF mode \in {"jobs", "listener"} THEN MaxMessages ELSE 0,
                    handling |-> 0, closed |-> FALSE]
        /\ IF mode = "lists" THEN \E q \in Requests : session = Session(q)
           ELSE \E q \in {CHOOSE q \in Requests : TRUE} :
                  session = [Session(q) EXCEPT !.step = "done"]
        /\ IF mode = "graphql" THEN \E q \in Queries : gql = GraphQLQuery(q)
           ELSE \E q \in {CHOOSE q \in Queries : TRUE} :
                  gql = [GraphQLQuery([q EXCEPT !.fields = {}]) EXCEPT !.status = "answered"]
  BY DEF InitProcess
<1>2. \A q : "step" \in DOMAIN Session(q)
  BY DEF Session
<1>3. "step" \in DOMAIN session /\ (mode # "lists" => session.step = "done")
  BY <1>1, <1>2
<1>4. \A q : "status" \in DOMAIN GraphQLQuery(q)
  BY DEF GraphQLQuery
<1>5. mode # "graphql" => gql.status # "open"
  BY <1>1, <1>4
<1>6. /\ DOMAIN proc = {"mode", "main", "unit", "exit"} /\ "closed" \in DOMAIN inbox
      /\ proc.mode = mode /\ proc.exit = "none" /\ proc.unit = "starting"
  BY <1>1
<1> QED BY <1>3, <1>5, <1>6 DEF ShutdownOK, Alive

\* A step of the process at work: main and the unit stay where they are, and
\* once the unit answers nothing new begins.
LEMMA WorkStep ==
    ASSUME ShutdownOK, Alive, proc' = proc,
           \/ session' = session
           \/ /\ proc.mode = "lists" /\ "step" \in DOMAIN session'
              /\ proc.unit = "sending" => session'.step = session.step,
           gql' = gql \/ (proc.mode = "graphql" /\ gql.status = "open"),
           inbox' = inbox \/ ("closed" \in DOMAIN inbox' /\ inbox'.closed = inbox.closed),
           proc.mode = "applications" /\ proc.unit = "sending" => Undecided' \subseteq Undecided
    PROVE  ShutdownOK'
<1>1. proc'.exit = "none" /\ Alive'
  BY DEF Alive
<1>2. proc.unit = "sending" => gql' = gql /\ session'.step = session.step
  BY DEF ShutdownOK, InFlight
<1>3. proc.unit = "sending" => ~InFlight'
  BY <1>2 DEF ShutdownOK, InFlight
<1> QED BY <1>1, <1>3 DEF ShutdownOK

\* A step of a session: one that was answered waits for the unit.
LEMMA ListsStep ==
    ASSUME ShutdownOK, Started, AnswerLists
    PROVE  /\ proc.mode = "lists" /\ "step" \in DOMAIN session'
           /\ proc.unit # "sending"
<1>1. proc.mode = "lists" /\ (session.step = "answered" => proc.unit = "waiting") /\ Answering
  BY DEF AnswerLists
<1>2. session.step \in {"parse", "primary", "count", "select", "answered"}
  BY <1>1 DEF Answering, Parse, FindPrimary, Count, Select, SelectFixed, NextPage, LastPage
<1>3. proc.unit # "sending"
  BY <1>1, <1>2 DEF ShutdownOK, InFlight
<1>4. DOMAIN session' = DOMAIN session
  <2>1. ASSUME NEW status, End(status) PROVE DOMAIN session' = DOMAIN session
    BY <2>1 DEF End
  <2>2. ASSUME NEW rows, Deliver(rows) PROVE DOMAIN session' = DOMAIN session
    BY <2>2 DEF Deliver
  <2>3. CASE Parse
    BY <2>1, <2>3 DEF Parse
  <2>4. CASE FindPrimary
    <3>1. \/ \E status : End(status)
          \/ \E l : session' = [session EXCEPT !.step = "done", !.status = "200",
                                               !.page = l, !.seen = l]
          \/ session' = [session EXCEPT !.step = "count"]
      BY <2>4, Zenon DEF FindPrimary
    <3> QED BY <2>1, <3>1
  <2>5. CASE Count
    BY <2>5 DEF Count
  <2>6. CASE Select \/ SelectFixed
    <3>1. (\E rows : Deliver(rows)) \/ (\E status : End(status))
      BY <2>6, Zenon DEF Select, SelectFixed
    <3> QED BY <2>1, <2>2, <3>1
  <2>7. CASE NextPage
    BY <2>7 DEF NextPage
  <2>8. CASE LastPage
    BY <2>1, <2>8 DEF LastPage
  <2> QED BY <1>1, <2>3, <2>4, <2>5, <2>6, <2>7, <2>8 DEF Answering
<1> QED BY <1>1, <1>3, <1>4 DEF ShutdownOK

\* The process ends: of a worker, its run with it.
LEMMA EndStep ==
    ASSUME WorkerAssumption, ProcessAssumption, WorkerIInv, ShutdownOK,
           NEW code \in {"0", "1"}, Terminate(code),
           code = "0" => proc.main = "receiving" /\ proc.unit = "sending"
    PROVE  ShutdownOK'
<1>1. /\ proc' = [proc EXCEPT !.exit = code] /\ inbox' = [inbox EXCEPT !.handling = 0]
      /\ session' = session /\ gql' = gql
  BY DEF Terminate
<1>2. /\ DOMAIN proc' = DOMAIN proc /\ proc'.mode = proc.mode /\ proc'.main = proc.main
      /\ proc'.unit = proc.unit /\ proc'.exit = code
  BY <1>1 DEF ShutdownOK
<1>3. "closed" \in DOMAIN inbox' /\ inbox'.closed = inbox.closed
  BY <1>1 DEF ShutdownOK
<1>4. InFlight' = InFlight
  <2>1. ASSUME proc.mode = "applications" PROVE Undecided' = Undecided
    <3>1. \A a \in Apps : asked'[a] = IF asked[a] = "pending" THEN "dropped" ELSE asked[a]
      BY <2>1 DEF Terminate
    <3> QED BY <3>1 DEF Undecided
  <2> QED BY <1>1, <1>2, <2>1 DEF InFlight
<1>5. proc.mode = "worker" => job'[Here].pc = "idle" /\ LockedBy(Here)' = {}
  <2>1. Here \in Jobs
    BY DEF ProcessAssumption
  <2>2. proc.mode = "worker" => job'[Here] = Idle
    BY <2>1, UndoStep DEF Terminate
  <2> QED BY <2>2 DEF Idle, LockedBy
<1> QED BY <1>1, <1>2, <1>3, <1>4, <1>5 DEF ShutdownOK, Alive

LEMMA ShutdownStep ==
    ASSUME WorkerAssumption, ProcessAssumption, WorkerIInv, ShutdownOK,
           [NextProcess]_processVars
    PROVE  ShutdownOK'
<1>1. CASE ReceiveShutdown \/ DrainTimeout \/ Fatal
  BY <1>1, EndStep DEF ReceiveShutdown, DrainTimeout, Fatal
<1>2. CASE Signal
  <2>1. /\ Alive /\ proc.main = "waiting" /\ proc' = [proc EXCEPT !.main = "sending"]
        /\ session' = session /\ gql' = gql /\ inbox' = inbox /\ asked' = asked
    BY <1>2 DEF Signal, workerVars
  <2>2. /\ DOMAIN proc' = DOMAIN proc /\ proc'.mode = proc.mode /\ proc'.exit = proc.exit
        /\ proc'.unit = proc.unit
    BY <2>1 DEF ShutdownOK
  <2>3. InFlight' = InFlight
    BY <2>1, <2>2 DEF InFlight, Undecided
  <2> QED BY <2>1, <2>2, <2>3 DEF ShutdownOK, Alive
<1>3. ASSUME Alive, NEW unit, DOMAIN proc' = DOMAIN proc, proc'.mode = proc.mode,
             proc'.exit = proc.exit, proc'.unit = unit,
             session' = session, gql' = gql, asked' = asked,
             "closed" \in DOMAIN inbox' /\ (inbox.closed => inbox'.closed),
             unit = "draining" => proc.mode \in Server,
             unit = "closing" => proc.mode = "listener",
             unit = "sending" => ~InFlight /\ (proc.mode = "listener" => inbox'.closed)
      PROVE  ShutdownOK'
  <2>1. InFlight' = InFlight
    BY <1>3 DEF InFlight, Undecided
  <2> QED BY <1>3, <2>1 DEF ShutdownOK, Alive
<1>4. CASE StartUnit
  <2>1. PICK configured \in BOOLEAN :
          proc' = [proc EXCEPT !.unit = IF configured THEN "waiting" ELSE "failed"]
    BY <1>4 DEF StartUnit
  <2> DEFINE unit == IF configured THEN "waiting" ELSE "failed"
  <2>2. /\ DOMAIN proc' = DOMAIN proc /\ proc'.mode = proc.mode /\ proc'.exit = proc.exit
        /\ proc'.unit = unit /\ unit \notin {"draining", "closing", "sending"}
    BY <2>1 DEF ShutdownOK
  <2>3. Alive /\ session' = session /\ gql' = gql /\ inbox' = inbox /\ asked' = asked
    BY <1>4 DEF StartUnit, workerVars
  <2> HIDE DEF unit
  <2> QED BY <1>3, <2>2, <2>3 DEF ShutdownOK
<1>5. CASE SendShutdown
  <2> DEFINE unit == CASE proc.mode \in Server -> "draining"
                       [] proc.mode = "listener" -> "closing"
                       [] OTHER -> "sending"
  <2>1. proc' = [proc EXCEPT !.main = "receiving", !.unit = unit]
    BY <1>5 DEF SendShutdown
  <2>5. /\ unit = "sending" => proc.mode \notin Server \cup {"listener"}
        /\ unit = "draining" => proc.mode \in Server
        /\ unit = "closing" => proc.mode = "listener"
    OBVIOUS
  <2> HIDE DEF unit
  <2>2. /\ DOMAIN proc' = DOMAIN proc /\ proc'.mode = proc.mode /\ proc'.exit = proc.exit
        /\ proc'.unit = unit
    BY <2>1 DEF ShutdownOK
  <2>3. Alive /\ session' = session /\ gql' = gql /\ inbox' = inbox /\ asked' = asked
    BY <1>5 DEF SendShutdown, workerVars
  <2>4. unit = "sending" => ~InFlight /\ proc.mode # "listener"
    BY <2>5 DEF ShutdownOK, InFlight, Server
  <2> QED BY <1>3, <2>2, <2>3, <2>4, <2>5 DEF ShutdownOK
<1>6. CASE Drained
  <2>1. /\ Alive /\ proc.unit = "draining" /\ ~InFlight
        /\ proc' = [proc EXCEPT !.unit = "sending"]
        /\ session' = session /\ gql' = gql /\ inbox' = inbox /\ asked' = asked
    BY <1>6 DEF Drained, workerVars
  <2>2. /\ DOMAIN proc' = DOMAIN proc /\ proc'.mode = proc.mode /\ proc'.exit = proc.exit
        /\ proc'.unit = "sending"
    BY <2>1 DEF ShutdownOK
  <2>3. "closed" \in DOMAIN inbox' /\ inbox'.closed = inbox.closed /\ proc.mode # "listener"
    BY <2>1 DEF ShutdownOK, Server
  <2>4. "sending" = "sending" => ~InFlight /\ (proc.mode = "listener" => inbox'.closed)
    BY <2>1, <2>3
  <2> QED BY <1>3, <2>1, <2>2, <2>3, <2>4
<1>7. CASE CloseReader
  <2>1. /\ Alive /\ proc.unit = "closing" /\ proc' = [proc EXCEPT !.unit = "sending"]
        /\ inbox' = [inbox EXCEPT !.closed = TRUE]
        /\ session' = session /\ gql' = gql /\ asked' = asked
    BY <1>7 DEF CloseReader, workerVars
  <2>2. /\ DOMAIN proc' = DOMAIN proc /\ proc'.mode = proc.mode /\ proc'.exit = proc.exit
        /\ proc'.unit = "sending" /\ "closed" \in DOMAIN inbox' /\ inbox'.closed
    BY <2>1 DEF ShutdownOK
  <2>3. "sending" = "sending" => ~InFlight /\ (proc.mode = "listener" => inbox'.closed)
    BY <2>1, <2>2 DEF ShutdownOK, InFlight
  <2> QED BY <1>3, <2>1, <2>2, <2>3
<1>8. CASE UNCHANGED processVars
  BY <1>8 DEF processVars, ShutdownOK, Alive, InFlight, Undecided, LockedBy, workerVars
<1>9. CASE AnswerLists
  <2>1. Alive /\ Started /\ proc' = proc /\ gql' = gql /\ inbox' = inbox
    BY <1>9 DEF AnswerLists, Started
  <2> QED BY <1>9, <2>1, ListsStep, WorkStep
<1>10. CASE AnswerQuery
  <2>1. /\ Alive /\ proc' = proc /\ session' = session /\ inbox' = inbox
        /\ proc.mode = "graphql" /\ gql.status = "open"
    BY <1>10 DEF AnswerQuery, Started, Resolving, Respond
  <2> QED BY <2>1, WorkStep
<1>11. CASE ServeApplications \/ RunScheduledJobs \/ ProduceHealthcheck \/ PingValkey
             \/ ConsumeBeat \/ HealthCheckInterval
  <2>1. Alive /\ proc' = proc /\ session' = session /\ gql' = gql /\ inbox' = inbox
    BY <1>11 DEF ServeApplications, RunScheduledJobs, ProduceHealthcheck, PingValkey,
                 ConsumeBeat, HealthCheckInterval, Started
  <2>2. CASE ServeApplications /\ proc.unit = "sending"
    <3>1. PICK a \in Apps : CheckSuperkey(a) \/ SendCreateRequest(a)
      BY <2>2 DEF ServeApplications
    <3>2. asked \in [Apps -> AskedStates]
      BY DEF WorkerIInv, WorkerInv, WorkerTypes
    <3>3. \A b \in Apps : asked'[b] = "unsure" => asked[b] = "unsure"
      BY <3>1, <3>2 DEF CheckSuperkey, SendCreateRequest
    <3>4. Undecided' \subseteq Undecided
      BY <3>3 DEF Undecided
    <3> QED BY <2>1, <3>4, WorkStep
  <2>3. CASE RunScheduledJobs
    BY <2>1, <2>3, WorkStep DEF RunScheduledJobs
  <2>4. CASE ServeApplications /\ proc.unit # "sending"
    BY <2>1, <2>4, WorkStep
  <2>5. CASE ProduceHealthcheck \/ PingValkey \/ ConsumeBeat \/ HealthCheckInterval
    <3>1. asked' = asked
      BY <2>5 DEF ProduceHealthcheck, PingValkey, ConsumeBeat, HealthCheckInterval, workerVars
    <3> QED BY <2>1, <3>1, WorkStep DEF Undecided
  <2> QED BY <1>11, <2>2, <2>3, <2>4, <2>5
<1>12. CASE Consume \/ PopJob \/ Handle
  <2>1. /\ Alive /\ proc' = proc /\ session' = session /\ gql' = gql
        /\ "closed" \in DOMAIN inbox' /\ inbox'.closed = inbox.closed
    BY <1>12 DEF Consume, PopJob, Take, Handle, Started, ShutdownOK
  <2>2. asked' = asked
    BY <1>12 DEF Consume, PopJob, Take, Handle, workerVars
  <2> QED BY <2>1, <2>2, WorkStep DEF Undecided
<1>13. CASE OtherProcesses
  <2>1. Alive /\ proc' = proc /\ inbox' = inbox
    BY <1>13 DEF OtherProcesses, Started
  <2>2. CASE proc.mode = "lists" /\ Elsewhere /\ gql' = gql
    <3>1. "step" \in DOMAIN session' /\ session'.step = session.step
      BY <2>2 DEF Elsewhere, ShutdownOK
    <3> QED BY <2>1, <2>2, <3>1, WorkStep
  <2>3. CASE session' = session /\ gql' = gql /\ (proc.mode = "applications" => asked' = asked)
    BY <2>1, <2>3, WorkStep DEF Undecided
  <2>4. CASE proc.mode = "applications"
    <3>1. asked' = asked
      BY <1>13, <2>4 DEF OtherProcesses, PostBack, SetStatus, ApplicationDelete, Age
    <3> QED BY <1>13, <2>3, <2>4, <3>1 DEF OtherProcesses
  <2> QED BY <1>13, <2>2, <2>3, <2>4 DEF OtherProcesses, Meanwhile
<1> QED BY <1>1, <1>2, <1>4, <1>5, <1>6, <1>7, <1>8, <1>9, <1>10, <1>11, <1>12, <1>13
        DEF NextProcess, Main, Unit, Requested, Background

\* Whatever kind of process it is and however many requests, messages and jobs
\* there are: one that ends well was told so by its unit, which had answered all
\* it took and closed its reader; and however a worker ends, its job holds no
\* transaction any more (main, runServer, background.Run, statuslistener.Run).
THEOREM EndsGracefully ==
    ASSUME WorkerAssumption, ProcessAssumption
    PROVE  SpecProcess => []GracefulExit
<1>1. InitProcess => WorkerIInv /\ ShutdownOK
  BY WorkerInit, ShutdownInit DEF InitProcess
<1>2. WorkerIInv /\ ShutdownOK /\ [NextProcess]_processVars => WorkerIInv' /\ ShutdownOK'
  BY ProcessWorkerStep, ShutdownStep
<1>3. ShutdownOK => GracefulExit
  BY DEF ShutdownOK, GracefulExit
<1> QED BY <1>1, <1>2, <1>3, PTL DEF SpecProcess

-----------------------------------------------------------------------------
(* What the handlers list.                                                  *)

\* What Listing comes to for each handler.
LEMMA Dispatch ==
    ASSUME NEW q
    PROVE  /\ q.handler = "SourceList" => Listing(q) = SourceList(q)
           /\ q.handler = "SourceGet" => Listing(q) = SourceGet(q)
           /\ q.handler = "SourceListAuthentications" => Listing(q) = SourceListAuthentications(q)
           /\ q.handler = "SourceTypeListSource" => Listing(q) = SourceTypeListSource(q)
           /\ q.handler = "ApplicationTypeListSource" => Listing(q) = ApplicationTypeListSource(q)
           /\ q.handler = "SourcesRhcConnectionList" => Listing(q) = SourcesRhcConnectionList(q)
           /\ q.handler = "InternalSourceList" => Listing(q) = InternalSourceList(q)
           /\ q.handler = "InternalAuthenticationGet" => Listing(q) = InternalAuthenticationGet(q)
           /\ q.handler = "ApplicationList" => Listing(q) = ApplicationList(q)
           /\ q.handler = "ApplicationGet" => Listing(q) = ApplicationGet(q)
           /\ q.handler = "ApplicationListAuthentications" => Listing(q) = ApplicationListAuthentications(q)
           /\ q.handler = "SourceListApplications" => Listing(q) = SourceListApplications(q)
           /\ q.handler = "SourceListApplicationTypes" => Listing(q) = SourceListApplicationTypes(q)
           /\ q.handler = "ApplicationTypeList" => Listing(q) = ApplicationTypeList(q)
           /\ q.handler = "ApplicationTypeGet" => Listing(q) = ApplicationTypeGet(q)
           /\ q.handler = "SourceListEndpoint" => Listing(q) = SourceListEndpoint(q)
           /\ q.handler = "EndpointList" => Listing(q) = EndpointList(q)
           /\ q.handler = "EndpointGet" => Listing(q) = EndpointGet(q)
           /\ q.handler = "EndpointListAuthentications" => Listing(q) = EndpointListAuthentications(q)
           /\ q.handler = "AuthenticationList" => Listing(q) = AuthenticationList(q)
           /\ q.handler = "AuthenticationGet" => Listing(q) = AuthenticationGet(q)
           /\ q.handler = "ApplicationAuthenticationList" => Listing(q) = ApplicationAuthenticationList(q)
           /\ q.handler = "ApplicationAuthenticationGet" => Listing(q) = ApplicationAuthenticationGet(q)
           /\ q.handler = "ApplicationAuthenticationListAuthentications" => Listing(q) = ApplicationAuthenticationListAuthentications(q)
           /\ q.handler = "RhcConnectionList" => Listing(q) = RhcConnectionList(q)
           /\ q.handler = "RhcConnectionGetById" => Listing(q) = RhcConnectionGetById(q)
           /\ q.handler = "RhcConnectionSourcesList" => Listing(q) = RhcConnectionSourcesList(q)
           /\ q.handler = "MetaDataList" => Listing(q) = MetaDataList(q)
           /\ q.handler = "ApplicationTypeListMetaData" => Listing(q) = ApplicationTypeListMetaData(q)
           /\ q.handler = "MetaDataGet" => Listing(q) = MetaDataGet(q)
           /\ q.handler = "SourceTypeList" => Listing(q) = SourceTypeList(q)
           /\ q.handler = "SourceTypeGet" => Listing(q) = SourceTypeGet(q)
           /\ q.handler = "SecretList" => Listing(q) = SecretList(q)
           /\ q.handler = "SecretGet" => Listing(q) = SecretGet(q)
           /\ q.handler = "InternalSecretGet" => Listing(q) = InternalSecretGet(q)
BY Zenon DEF Listing

\* How the handlers wrap an answer.
LEMMA HandledFacts ==
    /\ \A a : Paged(a).paging = "asked" /\ Paged(a).more = {} /\ Paged(a).rows = a.rows
    /\ \A a : Fixed(a).paging = "fixed" /\ Fixed(a).more = {} /\ Fixed(a).rows = a.rows
    /\ \A a : Single(a).paging = "single" /\ Single(a).more = {} /\ Single(a).rows = a.rows
    /\ \A a, m, p : /\ Handled(a, m, p).paging = p /\ Handled(a, m, p).more = m
                    /\ Handled(a, m, p).rows = a.rows
BY DEF Paged, Fixed, Single, Handled

\* The lists of which the client gets the page it asked for.
PagedLists ==
    {"SourceList", "InternalSourceList", "SourceTypeListSource", "ApplicationTypeListSource",
     "SourcesRhcConnectionList", "ApplicationList", "SourceListApplications",
     "SourceListApplicationTypes", "ApplicationTypeList", "SourceListEndpoint", "EndpointList",
     "EndpointListAuthentications", "AuthenticationList", "ApplicationAuthenticationList",
     "RhcConnectionList", "RhcConnectionSourcesList", "MetaDataList",
     "ApplicationTypeListMetaData", "SourceTypeList", "SecretList"}

\* How much of its list a handler gives.
LEMMA PagingFacts ==
    ASSUME NEW q, q.handler \in Handlers
    PROVE  /\ Listing(q).paging = "fixed" <=>
                q.handler \in {"SourceListAuthentications", "ApplicationListAuthentications"}
           /\ Listing(q).paging \in {"asked", "ordered", "single", "fixed"}
           /\ Listing(q).paging \in {"asked", "ordered"} <=> q.handler \in PagedLists
           /\ Listing(q).paging = "ordered" <=> q.handler \in Internal
           /\ q.handler = "SourceList" => /\ Listing(q).paging = "asked"
                                          /\ Listing(q).more = IF q.cert THEN {Satellites} ELSE {}
           /\ q.handler # "SourceList" => Listing(q).more = {}
<1>1. q.handler = "SourceList" =>
      Listing(q).paging = "asked" /\ Listing(q).more = IF q.cert THEN {Satellites} ELSE {}
  <2>1. \A m : /\ Handled(SourcesListed(q), m, "asked").paging = "asked"
              /\ Handled(SourcesListed(q), m, "asked").more = m
    BY HandledFacts
  <2>2. q.handler = "SourceList" => Listing(q) = SourceList(q)
    BY Dispatch
  <2> DEFINE m == IF q.cert THEN {Satellites} ELSE {}
  <2>3. /\ Handled(SourcesListed(q), m, "asked").paging = "asked"
        /\ Handled(SourcesListed(q), m, "asked").more = m
    BY <2>1
  <2>4. SourceList(q) = Handled(SourcesListed(q), m, "asked")
    BY Zenon DEF SourceList
  <2> HIDE DEF m
  <2>5. q.handler = "SourceList" =>
          Listing(q).paging = "asked" /\ Listing(q).more = m
    BY <2>2, <2>3, <2>4
  <2> QED BY Zenon, <2>5 DEF m
<1>2. q.handler = "InternalSourceList" =>
      Listing(q).paging = "ordered" /\ Listing(q).more = {}
  BY Dispatch, HandledFacts DEF InternalSourceList
<1>3. q.handler \in {"SourceGet", "InternalAuthenticationGet", "ApplicationGet", "ApplicationTypeGet",
      "EndpointGet", "AuthenticationGet", "ApplicationAuthenticationGet",
      "ApplicationAuthenticationListAuthentications", "RhcConnectionGetById",
      "MetaDataGet", "SourceTypeGet", "SecretGet", "InternalSecretGet"} =>
      Listing(q).paging = "single" /\ Listing(q).more = {}
  BY Dispatch, HandledFacts DEF SourceGet, InternalAuthenticationGet, ApplicationGet,
     ApplicationTypeGet, EndpointGet, AuthenticationGet, ApplicationAuthenticationGet,
     ApplicationAuthenticationListAuthentications, RhcConnectionGetById, MetaDataGet,
     SourceTypeGet, SecretGet, InternalSecretGet
<1>4. q.handler \in {"SourceListAuthentications", "ApplicationListAuthentications"} =>
      Listing(q).paging = "fixed" /\ Listing(q).more = {}
  BY Dispatch, HandledFacts DEF SourceListAuthentications,
     ApplicationListAuthentications
<1>5. q.handler \in {"SourceTypeListSource", "ApplicationTypeListSource", "SourcesRhcConnectionList",
      "ApplicationList", "SourceListApplications", "SourceListApplicationTypes",
      "ApplicationTypeList", "SourceListEndpoint", "EndpointList",
      "EndpointListAuthentications", "AuthenticationList",
      "ApplicationAuthenticationList", "RhcConnectionList", "RhcConnectionSourcesList",
      "MetaDataList", "ApplicationTypeListMetaData", "SourceTypeList", "SecretList"} =>
      Listing(q).paging = "asked" /\ Listing(q).more = {}
  BY Dispatch, HandledFacts DEF SourceTypeListSource, ApplicationTypeListSource,
     SourcesRhcConnectionList, ApplicationList, SourceListApplications,
     SourceListApplicationTypes, ApplicationTypeList, SourceListEndpoint, EndpointList,
     EndpointListAuthentications, AuthenticationList, ApplicationAuthenticationList,
     RhcConnectionList, RhcConnectionSourcesList, MetaDataList,
     ApplicationTypeListMetaData, SourceTypeList, SecretList
<1> QED BY <1>1, <1>2, <1>3, <1>4, <1>5 DEF Handlers, PagedLists, Internal

\* The rows a query of the data access objects starts from.
LEMMA VisibleFacts ==
    ASSUME NEW q, NEW table
    PROVE  /\ In(table) \subseteq db
           /\ \A x \in In(table) : x.table = table
           /\ Visible(table, q) \subseteq db
           /\ \A x \in Visible(table, q) :
                x.table = table /\ x.tenant = q.tenant /\ x.user \in {Nobody, q.user}
           /\ OfTenant(table, q) \subseteq db
           /\ \A x \in OfTenant(table, q) : x.table = table /\ x.tenant = q.tenant
BY DEF In, Visible, OfTenant

\* Narrowing them down adds nothing.
LEMMA NarrowingFacts ==
    /\ \A rows, id : WithId(rows, id) \subseteq rows
    /\ \A rows, id : OfSource(rows, id) \subseteq rows
    /\ \A rows, id : OfType(rows, id) \subseteq rows
    /\ \A rows : Enabled(rows) \subseteq rows
    /\ \A rows, q : TypesThroughApplications(rows, q) \subseteq rows
    /\ \A rows, q : SourcesThroughApplications(rows, q) \subseteq rows
BY DEF WithId, OfSource, OfType, Enabled, TypesThroughApplications, SourcesThroughApplications

\* An answer has the rows it is given.
LEMMA WithinFacts ==
    /\ \A found, table, rows : Within(found, table, rows).rows = rows
    /\ \A table, rows : All(table, rows).rows = rows
    /\ \A table, rows, q : One(table, rows, q).rows = WithId(rows, q.id)
BY DEF Within, All, One

\* What the requester may be shown of the rows there are.
Mine(q) == {x \in db : Theirs(x, q)}

\* What the queries start from, the requester may see.
LEMMA MineFacts ==
    ASSUME NEW q, db \subseteq AllRows
    PROVE  /\ \A table \in Owned : Visible(table, q) \subseteq Mine(q)
           /\ OfTenant("endpoints", q) \subseteq Mine(q)
           /\ Enabled(In("application_types")) \subseteq Mine(q)
           /\ In("source_types") \subseteq Mine(q) /\ In("meta_data") \subseteq Mine(q)
           /\ Connected(q) \subseteq Mine(q)
           /\ ConnectionsOfSource(q) \subseteq Mine(q)
           /\ SourcesOfConnection(q) \subseteq Mine(q)
<1>1. ASSUME NEW table \in Owned
      PROVE  Visible(table, q) \subseteq Mine(q)
  <2>1. table \in Tenanted /\ table # "application_types" /\ table # "rhc_connections"
    BY DEF Owned, Tenanted
  <2> QED BY <2>1, VisibleFacts DEF Mine, Theirs
<1>2. \A x \in db : x.table \notin Owned => x.user = Nobody
  BY RowsAssumption
<1>3. \A x \in OfTenant("endpoints", q) : x \in db /\ Theirs(x, q)
  <2>1. "endpoints" \notin Owned BY DEF Owned
  <2> QED BY <1>2, <2>1, VisibleFacts DEF Theirs
<1>4. \A x \in Enabled(In("application_types")) : x \in db /\ Theirs(x, q)
  <2>1. "application_types" \notin Owned /\ "application_types" \notin Tenanted
    BY DEF Owned, Tenanted
  <2>2. \A x \in Enabled(In("application_types")) :
           x \in db /\ x.table = "application_types" /\ x.id \notin Disabled
    BY VisibleFacts DEF Enabled
  <2> QED BY <1>2, <2>1, <2>2 DEF Theirs
<1>5. \A x \in In("source_types") \cup In("meta_data") : x \in db /\ Theirs(x, q)
  <2>1. /\ "source_types" \notin Tenanted /\ "meta_data" \notin Tenanted
        /\ "source_types" \notin Owned /\ "meta_data" \notin Owned
    BY DEF Owned, Tenanted
  <2> QED BY <1>2, <2>1, VisibleFacts DEF Theirs
<1>6. ASSUME NEW x \in In("rhc_connections"),
             \E l \in OfTenant("source_rhc_connections", q) : l.of = <<x.id>>
      PROVE  x \in db /\ Theirs(x, q)
  <2>1. "rhc_connections" \notin Tenanted /\ "rhc_connections" \notin Owned
    BY DEF Owned, Tenanted
  <2>2. PICK l \in OfTenant("source_rhc_connections", q) : l.of = <<x.id>>
    BY <1>6
  <2>3. l \in AllRows /\ l.table = "source_rhc_connections" /\ l.tenant = q.tenant
    BY VisibleFacts
  <2>4. x \in db /\ x.table = "rhc_connections"
    BY VisibleFacts
  <2> QED BY <1>2, <2>1, <2>2, <2>3, <2>4 DEF Theirs
<1>7. Connected(q) \subseteq Mine(q)
  BY <1>6 DEF Connected, Mine
<1>8. ConnectionsOfSource(q) \subseteq Mine(q)
  BY <1>6, NarrowingFacts DEF ConnectionsOfSource, Mine
<1>9. SourcesOfConnection(q) \subseteq Mine(q)
  <2> SUFFICES ASSUME NEW s \in SourcesOfConnection(q)
               PROVE  s \in db /\ Theirs(s, q)
    BY DEF Mine
  <2>1. s \in In("sources") /\ s.user \in {Nobody, q.user}
    BY DEF SourcesOfConnection
  <2>2. PICK c \in OfTenant("source_rhc_connections", q) : c.source = s.id
    BY DEF SourcesOfConnection
  <2>3. c \in AllRows /\ c.table = "source_rhc_connections" /\ c.tenant = q.tenant
    BY VisibleFacts
  <2>4. s \in AllRows /\ s \in db /\ s.table = "sources"
    BY <2>1, VisibleFacts
  <2>5. s.tenant = q.tenant
    BY <2>2, <2>3, <2>4, RowsAssumption
  <2> QED BY <2>1, <2>4, <2>5 DEF Theirs
<1> QED BY <1>1, <1>3, <1>4, <1>5, <1>7, <1>8, <1>9 DEF Mine

\* Whatever a handler lists is there, and the requester may see it.
LEMMA ListingFacts ==
    ASSUME NEW q, q.handler \in Handlers, db \subseteq AllRows
    PROVE  /\ Listing(q).rows \subseteq db
           /\ q.handler \notin Internal => Listing(q).rows \subseteq Mine(q)
           /\ q.handler = "SourceList" => \A x \in Listing(q).rows : x.table = "sources"
<1>1. /\ Visible("sources", q) \subseteq Mine(q)
      /\ Visible("applications", q) \subseteq Mine(q)
      /\ Visible("authentications", q) \subseteq Mine(q)
      /\ Visible("application_authentications", q) \subseteq Mine(q)
  BY MineFacts DEF Owned
<1>2. q.handler \in {"SourceList", "SourceGet", "SourceTypeListSource",
         "ApplicationTypeListSource", "RhcConnectionSourcesList"}
      => Listing(q).rows \subseteq Mine(q)
  BY <1>1, MineFacts, Dispatch, HandledFacts, NarrowingFacts, WithinFacts
     DEF SourceList, SourceGet, SourceTypeListSource, ApplicationTypeListSource,
         RhcConnectionSourcesList, SourcesListed, SourceById, SourcesOfSourceType,
         SourcesOfApplicationType
<1>3. q.handler \in {"ApplicationList", "ApplicationGet", "SourceListApplications"}
      => Listing(q).rows \subseteq Mine(q)
  BY <1>1, Dispatch, HandledFacts, NarrowingFacts, WithinFacts
     DEF ApplicationList, ApplicationGet, SourceListApplications, ApplicationsListed,
         ApplicationById, ApplicationsOfSource
<1>4. q.handler \in {"SourceListApplicationTypes", "ApplicationTypeList", "ApplicationTypeGet"}
      => Listing(q).rows \subseteq Mine(q)
  <2>1. Enabled(TypesThroughApplications(In("application_types"), q))
          \subseteq Enabled(In("application_types"))
    BY NarrowingFacts DEF Enabled
  <2> QED BY <2>1, MineFacts, Dispatch, HandledFacts, NarrowingFacts, WithinFacts
     DEF SourceListApplicationTypes, ApplicationTypeList, ApplicationTypeGet,
         ApplicationTypesOfSource, ApplicationTypesListed, ApplicationTypeById
<1>5. q.handler \in {"SourceListEndpoint", "EndpointList", "EndpointGet"}
      => Listing(q).rows \subseteq Mine(q)
  BY MineFacts, Dispatch, HandledFacts, NarrowingFacts, WithinFacts
     DEF SourceListEndpoint, EndpointList, EndpointGet, EndpointsOfSource,
         EndpointsListed, EndpointById
<1>6. q.handler \in {"SourceListAuthentications", "ApplicationListAuthentications",
         "EndpointListAuthentications", "AuthenticationList", "AuthenticationGet",
         "InternalAuthenticationGet", "ApplicationAuthenticationListAuthentications"}
      => Listing(q).rows \subseteq Mine(q)
  <2>1. /\ AuthenticationsOfApplication(q).rows \subseteq Mine(q)
        /\ AuthenticationsOfEndpoint(q).rows \subseteq Mine(q)
        /\ AuthenticationOfAssociation(q).rows \subseteq Mine(q)
        /\ AuthenticationsOfSource(q).rows \subseteq Mine(q)
        /\ AuthenticationsListed(q).rows \subseteq Mine(q)
        /\ AuthenticationById(q).rows \subseteq Mine(q)
    BY <1>1, NarrowingFacts, WithinFacts
       DEF AuthenticationsOfApplication, AuthenticationsOfEndpoint, AuthenticationsOf,
           AuthenticationOfAssociation, AuthenticationsOfSource, AuthenticationsListed,
           AuthenticationById
  <2> QED BY <2>1, Dispatch, HandledFacts
     DEF SourceListAuthentications, ApplicationListAuthentications,
         EndpointListAuthentications, AuthenticationList, AuthenticationGet,
         InternalAuthenticationGet, ApplicationAuthenticationListAuthentications
<1>7. q.handler \in {"ApplicationAuthenticationList", "ApplicationAuthenticationGet"}
      => Listing(q).rows \subseteq Mine(q)
  BY <1>1, Dispatch, HandledFacts, NarrowingFacts, WithinFacts
     DEF ApplicationAuthenticationList, ApplicationAuthenticationGet, AssociationsListed,
         AssociationById
<1>8. q.handler \in {"SourcesRhcConnectionList", "RhcConnectionList", "RhcConnectionGetById"}
      => Listing(q).rows \subseteq Mine(q)
  BY MineFacts, Dispatch, HandledFacts, NarrowingFacts, WithinFacts
     DEF SourcesRhcConnectionList, RhcConnectionList, RhcConnectionGetById,
         ConnectionsListed, ConnectionById
<1>9. q.handler \in {"MetaDataList", "ApplicationTypeListMetaData", "MetaDataGet",
         "SourceTypeList", "SourceTypeGet"}
      => Listing(q).rows \subseteq Mine(q)
  <2>1. /\ MetaDataListed(q).rows \subseteq In("meta_data")
        /\ MetaDataOfType(q).rows \subseteq In("meta_data")
        /\ MetaDataById(q).rows \subseteq In("meta_data")
    BY NarrowingFacts, WithinFacts DEF MetaDataListed, MetaDataOfType, MetaDataById
  <2>2. /\ SourceTypesListed(q).rows \subseteq In("source_types")
        /\ SourceTypeById(q).rows \subseteq In("source_types")
    BY NarrowingFacts, WithinFacts DEF SourceTypesListed, SourceTypeById
  <2>3. In("source_types") \subseteq Mine(q) /\ In("meta_data") \subseteq Mine(q)
    BY MineFacts
  <2> QED BY <2>1, <2>2, <2>3, Dispatch, HandledFacts
     DEF MetaDataList, ApplicationTypeListMetaData, MetaDataGet, SourceTypeList,
         SourceTypeGet
<1>10. q.handler \in {"SecretList", "SecretGet", "InternalSecretGet"}
      => Listing(q).rows \subseteq Mine(q)
  <2>1. SecretsOf(q) \subseteq Mine(q)
    BY <1>1 DEF SecretsOf
  <2> QED BY <2>1, Dispatch, HandledFacts, NarrowingFacts, WithinFacts
     DEF SecretList, SecretGet, InternalSecretGet, SecretsListed, SecretById
<1>11. q.handler = "InternalSourceList" => Listing(q).rows \subseteq db
  <2>1. InternalSources(q).rows \subseteq In("sources")
    <3> DEFINE Linked(s)  == OfSource(In("source_rhc_connections"), s.id) # {}
               Checked(s) == \E a \in OfSource(In("applications"), s.id) : a.type # CostType
               listed     == {s \in In("sources") : q.skip => Linked(s) \/ Checked(s)}
    <3>1. InternalSources(q) = All("sources", listed)
      BY Zenon DEF InternalSources
    <3>2. listed \subseteq In("sources")
      OBVIOUS
    <3> HIDE DEF listed
    <3> QED BY <3>1, <3>2, WithinFacts
  <2>2. Handled(InternalSources(q), {}, "ordered").rows = InternalSources(q).rows
    BY HandledFacts
  <2> QED BY <2>1, <2>2, VisibleFacts, Dispatch DEF InternalSourceList
<1>12. q.handler = "SourceList" => \A x \in Listing(q).rows : x.table = "sources"
  BY VisibleFacts, Dispatch, HandledFacts, WithinFacts DEF SourceList, SourcesListed
<1>13. q.handler \notin Internal => Listing(q).rows \subseteq Mine(q)
  BY <1>2, <1>3, <1>4, <1>5, <1>6, <1>7, <1>8, <1>9, <1>10 DEF Handlers, Internal
<1>14. Mine(q) \subseteq db
  BY DEF Mine
<1> QED BY <1>11, <1>12, <1>13, <1>14 DEF Internal

\* Without a change of the rows there are, no query answers anything else.
LEMMA SameRows ==
    ASSUME NEW q, UNCHANGED db
    PROVE  Matching(q)' = Matching(q)
<1>1. Listing(q)' = Listing(q)
  BY Zenon DEF Listing, SourceList, SourceGet, SourceListAuthentications,
     SourceTypeListSource, ApplicationTypeListSource, SourcesRhcConnectionList,
     InternalSourceList, InternalAuthenticationGet, ApplicationList, ApplicationGet,
     ApplicationListAuthentications, SourceListApplications, SourceListApplicationTypes,
     ApplicationTypeList, ApplicationTypeGet, SourceListEndpoint, EndpointList,
     EndpointGet, EndpointListAuthentications, AuthenticationList, AuthenticationGet,
     ApplicationAuthenticationList, ApplicationAuthenticationGet,
     ApplicationAuthenticationListAuthentications, RhcConnectionList,
     RhcConnectionGetById, RhcConnectionSourcesList, MetaDataList,
     ApplicationTypeListMetaData, MetaDataGet, SourceTypeList, SourceTypeGet,
     SecretList, SecretGet, InternalSecretGet, In, Visible, OfTenant, Enabled,
     PrimaryExists, WithId, OfSource, OfType, TypesThroughApplications,
     SourcesThroughApplications, Exists, SourcesListed, SourcesOfSourceType,
     SourcesOfApplicationType, InternalSources, SourceById, SourcesOfConnection,
     ApplicationsListed, ApplicationsOfSource, ApplicationById, ApplicationTypesListed,
     ApplicationTypesOfSource, ApplicationTypeById, EndpointsListed, EndpointsOfSource,
     EndpointById, AuthenticationsListed, AuthenticationById, AuthenticationsOfSource,
     AuthenticationsOf, AuthenticationsOfApplication, AuthenticationsOfEndpoint,
     AuthenticationOfAssociation, AssociationsListed, AssociationById, Connected,
     ConnectionsListed, ConnectionById, ConnectionsOfSource, MetaDataListed,
     MetaDataOfType, MetaDataById, SourceTypesListed, SourceTypeById, SecretsOf,
     SecretsListed, SecretById
<1>2. Conditions(q)' = Conditions(q)
  BY Zenon, <1>1 DEF Conditions, SortAndFilter
<1>3. Refused(q)' = Refused(q)
  BY Zenon, <1>1, <1>2 DEF Refused
<1>4. Filtered(Listing(q).rows, Conditions(q).filters)'
        = Filtered(Listing(q).rows, Conditions(q).filters)
  BY Zenon, <1>1, <1>2 DEF Filtered, Passes, Joined, In, OfSource, WithId
<1> QED BY Zenon, <1>1, <1>2, <1>3, <1>4 DEF Matching

\* What a list matches is of what it lists; with a certificate only satellites.
LEMMA MatchingFacts ==
    ASSUME NEW q, q.handler \in Handlers, db \subseteq AllRows
    PROVE  /\ Matching(q) \subseteq Listing(q).rows
           /\ Matching(q) \subseteq db /\ IsFiniteSet(Matching(q))
           /\ q.handler \notin Internal => \A x \in Matching(q) : Theirs(x, q)
           /\ q.cert /\ q.handler = "SourceList" => \A x \in Matching(q) : x.type = Satellite
<1>1. \A rows, filters : Filtered(rows, filters) \subseteq rows
  BY DEF Filtered
<1>2. Matching(q) \subseteq Listing(q).rows
  BY <1>1 DEF Matching
<1>3. Matching(q) \subseteq db /\ IsFiniteSet(Matching(q))
  BY <1>2, ListingFacts, RowsAssumption, FS_Subset
<1>4. q.handler \notin Internal => \A x \in Matching(q) : Theirs(x, q)
  BY <1>2, ListingFacts DEF Mine
<1>5. ASSUME q.cert, q.handler = "SourceList", NEW x \in Matching(q)
      PROVE  x.type = Satellite
  <2>1. Listing(q).paging = "asked" /\ Listing(q).more = {Satellites}
    BY <1>5, PagingFacts
  <2>2. Satellites \in Conditions(q).filters
    BY <2>1, Zenon DEF Conditions, SortAndFilter
  <2>3. Passes(x, Satellites)
    <3>1. x \in Filtered(Listing(q).rows, Conditions(q).filters)
      BY <1>5 DEF Matching
    <3> QED BY <2>2, <3>1 DEF Filtered
  <2>4. /\ Satellites.sub = "" /\ Satellites.column = "type_id" /\ Satellites.op = "eq"
        /\ Satellites.values = {Satellite}
    BY DEF Satellites
  <2>5. Joined(x, Satellites.sub) = {x}
    BY <2>4 DEF Joined
  <2>6. ValueOf(x, Satellites.column) = x.type
    BY <2>4 DEF ValueOf
  <2> QED BY <2>3, <2>4, <2>5, <2>6 DEF Passes
<1> QED BY <1>2, <1>3, <1>4, <1>5

\* A page holds what fits of what is left; one that is not full is the end.
LEMMA PagesFacts ==
    ASSUME NEW rows, IsFiniteSet(rows), NEW sort, NEW limit \in Int, NEW offset \in Int,
           NEW page \in Pages(rows, sort, limit, offset)
    PROVE  /\ page \subseteq rows /\ IsFiniteSet(page) /\ Cardinality(page) \in Nat
           /\ Cardinality(page) < limit => offset + Cardinality(page) >= Cardinality(rows)
           /\ offset = 0 /\ Cardinality(page) < limit => page = rows
<1> DEFINE n    == Cardinality(rows)
           skip == IF offset < n THEN offset ELSE n
           size == IF skip + limit < n THEN limit ELSE n - skip
<1>1. page \subseteq rows /\ Cardinality(page) = size
  BY DEF Pages
<1>2. n \in Nat
  BY FS_CardinalityType
<1>3. IsFiniteSet(page) /\ Cardinality(page) \in Nat
  BY <1>1, FS_Subset, FS_CardinalityType
<1>4. Cardinality(page) < limit => offset + Cardinality(page) >= n
  <2> HIDE DEF n
  <2> QED BY <1>1, <1>2, <1>3
<1>5. ASSUME offset = 0, Cardinality(page) < limit
      PROVE  page = rows
  <2>1. Cardinality(page) = n
    <3> HIDE DEF n
    <3> QED BY <1>1, <1>2, <1>3, <1>5
  <2> QED BY <1>1, <2>1, FS_Subset
<1> QED BY <1>1, <1>3, <1>4, <1>5

-----------------------------------------------------------------------------
(* Sessions.                                                                *)

FixedLists == {"SourceListAuthentications", "ApplicationListAuthentications"}

RowsThere == db \subseteq AllRows

SessionOK ==
    /\ DOMAIN session = {"q", "step", "from", "status", "count", "page", "seen", "twice",
                         "always", "left", "came", "shrunk"}
    /\ DOMAIN session.q = {"handler", "tenant", "user", "id", "filters", "sort", "limit",
                           "offset", "cert", "skip"}
    /\ session.q.handler \in Handlers /\ session.q.limit \in Int /\ session.q.offset \in Int
    /\ session.step \in {"parse", "primary", "count", "select", "answered", "done"}
    /\ session.status \in {"", "200", "400", "404", "500"}
    /\ session.shrunk \in BOOLEAN /\ session.count \in Nat
    /\ session.status = "500" => session.step = "done"
    /\ session.step = "answered" => session.status = "200"

ShownOK ==
    /\ session.q.handler \notin Internal => \A x \in session.seen : Theirs(x, session.q)
    /\ session.q.cert /\ session.q.handler = "SourceList" =>
         \A x \in session.seen : x.type = Satellite

CountedOK ==
    /\ session.step = "select" /\ ~session.shrunk =>
         Cardinality(Matching(session.q)) >= session.count
    /\ session.status = "500" /\ session.q.handler \in FixedLists =>
         session.shrunk \/ session.count > FixedLimit
    /\ session.step = "answered" /\ ~session.shrunk /\ session.q.handler \notin FixedLists
         /\ Cardinality(session.page) < session.q.limit
       => session.q.offset + Cardinality(session.page) >= session.count

SessionInv == SessionOK /\ ShownOK /\ CountedOK

\* The invariant is strong enough.
LEMMA SessionSays == SessionInv => ListsInv
<1> SUFFICES ASSUME SessionInv PROVE ListsInv
  OBVIOUS
<1>1. Listing(session.q).paging = "fixed" <=> session.q.handler \in FixedLists
  BY PagingFacts DEF SessionInv, SessionOK, FixedLists
<1> QED BY <1>1 DEF SessionInv, SessionOK, ShownOK, CountedOK, ListsInv

\* A session begins with nothing shown and nothing counted.
LEMMA SessionStarts ==
    ASSUME NEW q \in Requests
    PROVE  /\ session = Session(q) => SessionInv
           /\ session = [Session(q) EXCEPT !.step = "done"] => SessionInv
<1>1. /\ DOMAIN q = {"handler", "tenant", "user", "id", "filters", "sort", "limit",
                     "offset", "cert", "skip"}
      /\ q.handler \in Handlers /\ q.limit \in Int /\ q.offset \in Int
  BY RequestsAssumption
<1> DEFINE Fresh == /\ DOMAIN session = {"q", "step", "from", "status", "count", "page",
                           "seen", "twice", "always", "left", "came", "shrunk"}
                    /\ session.q = q /\ session.step \in {"parse", "done"}
                    /\ session.status = "" /\ session.shrunk \in BOOLEAN
                    /\ session.count = 0 /\ session.seen = {}
<1>2. session = Session(q) => Fresh
  <2> SUFFICES ASSUME session = Session(q) PROVE Fresh
    OBVIOUS
  <2>1. /\ session.q = q /\ session.step = "parse" /\ session.status = ""
        /\ session.count = 0 /\ session.seen = {}
    BY DEF Session
  <2>2. session.shrunk = FALSE
    BY Zenon DEF Session
  <2>3. DOMAIN session = {"q", "step", "from", "status", "count", "page", "seen", "twice",
                          "always", "left", "came", "shrunk"}
    BY DEF Session
  <2> QED BY <2>1, <2>2, <2>3, Zenon
<1>3. session = [Session(q) EXCEPT !.step = "done"] => Fresh
  <2> DEFINE S == Session(q)
  <2>1. /\ DOMAIN S = {"q", "step", "from", "status", "count", "page", "seen", "twice",
                       "always", "left", "came", "shrunk"}
        /\ S.q = q /\ S.status = "" /\ S.shrunk \in BOOLEAN /\ S.count = 0 /\ S.seen = {}
    BY DEF Session
  <2> HIDE DEF S
  <2> SUFFICES ASSUME session = [S EXCEPT !.step = "done"] PROVE Fresh
    BY DEF S
  <2> QED BY <2>1
<1>4. ASSUME Fresh PROVE SessionOK
  <2>1. session.q = q
    BY <1>4
  <2>2. /\ session.step \in {"parse", "done"} /\ session.status = "" /\ session.count = 0
        /\ session.shrunk \in BOOLEAN
    BY <1>4, Zenon
  <2>3. DOMAIN session = {"q", "step", "from", "status", "count", "page", "seen", "twice",
                          "always", "left", "came", "shrunk"}
    BY <1>4
  <2> HIDE DEF Fresh
  <2>4. /\ DOMAIN session.q = {"handler", "tenant", "user", "id", "filters", "sort", "limit",
                     "offset", "cert", "skip"}
        /\ session.q.handler \in Handlers /\ session.q.limit \in Int /\ session.q.offset \in Int
    BY <1>1, <2>1
  <2>5. /\ session.step \in {"parse", "primary", "count", "select", "answered", "done"}
        /\ session.status \in {"", "200", "400", "404", "500"}
        /\ session.status # "500" /\ session.step # "answered"
    BY <2>2, Zenon
  <2>7. \A n : n = 0 => n \in Nat
    OBVIOUS
  <2>6. session.shrunk \in BOOLEAN
    BY <2>2
  <2> QED BY <2>2, <2>3, <2>4, <2>5, <2>6, <2>7, Zenon DEF SessionOK
<1>5. Fresh => ShownOK /\ CountedOK
  BY DEF ShownOK, CountedOK
<1> HIDE DEF Fresh
<1> QED BY <1>2, <1>3, <1>4, <1>5 DEF SessionInv

\* A response without rows.
LEMMA EndKeeps ==
    ASSUME SessionInv, NEW status \in {"200", "400", "404", "500"}, End(status),
           status = "500" /\ session.q.handler \in FixedLists =>
             session.shrunk \/ session.count > FixedLimit
    PROVE  SessionInv'
<1>1. /\ DOMAIN session' = DOMAIN session
      /\ session'.step = "done" /\ session'.status = status
      /\ session'.q = session.q /\ session'.shrunk = session.shrunk
      /\ session'.count = session.count /\ session'.seen = session.seen
      /\ session'.page = session.page
  BY DEF SessionInv, SessionOK, End
<1>2. SessionOK'
  BY <1>1 DEF SessionInv, SessionOK
<1>3. ShownOK'
  BY <1>1 DEF SessionInv, ShownOK
<1>4. CountedOK'
  BY <1>1 DEF SessionInv, CountedOK
<1> QED BY <1>2, <1>3, <1>4 DEF SessionInv

\* Whatever is delivered is of the rows that match, or the single one.
LEMMA DeliveredOK ==
    ASSUME SessionInv, RowsThere, NEW rows,
           \/ rows \subseteq Matching(session.q)
           \/ Listing(session.q).paging = "single" /\ rows = Listing(session.q).rows
    PROVE  /\ session.q.handler \notin Internal => \A x \in rows : Theirs(x, session.q)
           /\ session.q.cert /\ session.q.handler = "SourceList" =>
                \A x \in rows : x.type = Satellite
<1>1. session.q.handler \in Handlers
  BY DEF SessionInv, SessionOK
<1>2. CASE rows \subseteq Matching(session.q)
  BY <1>1, <1>2, MatchingFacts DEF RowsThere
<1>3. CASE Listing(session.q).paging = "single" /\ rows = Listing(session.q).rows
  <2>1. session.q.handler # "SourceList"
    BY <1>1, <1>3, PagingFacts
  <2> QED BY <1>1, <1>3, <2>1, ListingFacts DEF RowsThere, Mine
<1> QED BY <1>2, <1>3

\* One lemma for each step of a session.
LEMMA ParseKeeps == ASSUME SessionInv, Parse PROVE SessionInv'
<1>1. CASE End("400")
  BY <1>1, EndKeeps
<1>2. CASE session' = [session EXCEPT !.step = "primary"] /\ session.step = "parse"
  <2>1. /\ DOMAIN session' = DOMAIN session
        /\ session'.step = "primary" /\ session'.status = session.status
        /\ session'.q = session.q /\ session'.shrunk = session.shrunk
        /\ session'.count = session.count /\ session'.seen = session.seen
        /\ session'.page = session.page
    BY <1>2 DEF SessionInv, SessionOK
  <2>2. SessionOK'
    BY <1>2, <2>1 DEF SessionInv, SessionOK
  <2>3. ShownOK'
    BY <2>1 DEF SessionInv, ShownOK
  <2>4. CountedOK'
    BY <1>2, <2>1, <2>2 DEF SessionInv, SessionOK, CountedOK
  <2> QED BY <2>2, <2>3, <2>4 DEF SessionInv
<1> QED BY <1>1, <1>2 DEF Parse

LEMMA FindPrimaryKeeps == ASSUME SessionInv, RowsThere, FindPrimary PROVE SessionInv'
<1> DEFINE q == session.q
           l == Listing(q)
<1>1. CASE ~l.found /\ End("404")
  BY <1>1, EndKeeps
<1>2. CASE /\ session.step = "primary" /\ l.found /\ l.paging = "single"
           /\ session' = [session EXCEPT !.step = "done", !.status = "200",
                                         !.page = l.rows, !.seen = l.rows]
  <2>1. /\ DOMAIN session' = DOMAIN session
        /\ session'.step = "done" /\ session'.status = "200"
        /\ session'.q = q /\ session'.shrunk = session.shrunk
        /\ session'.count = session.count /\ session'.seen = l.rows
    BY <1>2 DEF SessionInv, SessionOK
  <2>2. SessionOK'
    BY <2>1 DEF SessionInv, SessionOK
  <2>3. ShownOK'
    <3>1. /\ q.handler \notin Internal => \A x \in l.rows : Theirs(x, q)
          /\ q.cert /\ q.handler = "SourceList" => \A x \in l.rows : x.type = Satellite
      BY <1>2, DeliveredOK
    <3> QED BY <2>1, <3>1 DEF ShownOK
  <2>4. CountedOK'
    BY <2>1 DEF CountedOK
  <2> QED BY <2>2, <2>3, <2>4 DEF SessionInv
<1>3. CASE l.found /\ l.paging # "single" /\ Refused(q) /\ End(RefusedStatus(q))
  <2>1. /\ RefusedStatus(q) \in {"200", "400", "404", "500"}
        /\ RefusedStatus(q) = "500" => q.handler \notin FixedLists
    BY DEF RefusedStatus, FixedLists
  <2> QED BY <1>3, <2>1, EndKeeps
<1>4. CASE session.step = "primary" /\ session' = [session EXCEPT !.step = "count"]
  <2>1. /\ DOMAIN session' = DOMAIN session
        /\ session'.step = "count" /\ session'.status = session.status
        /\ session'.q = session.q /\ session'.shrunk = session.shrunk
        /\ session'.count = session.count /\ session'.seen = session.seen
        /\ session'.page = session.page
    BY <1>4 DEF SessionInv, SessionOK
  <2>2. SessionOK'
    BY <1>4, <2>1 DEF SessionInv, SessionOK
  <2>3. ShownOK'
    BY <2>1 DEF SessionInv, ShownOK
  <2>4. CountedOK'
    BY <1>4, <2>1, <2>2 DEF SessionInv, SessionOK, CountedOK
  <2> QED BY <2>2, <2>3, <2>4 DEF SessionInv
<1> QED BY <1>1, <1>2, <1>3, <1>4, Zenon DEF FindPrimary

\* Every list matches finitely many rows.
MatchesFinite == \A q : q.handler \in Handlers => IsFiniteSet(Matching(q))

\* There are finitely many rows, so every list matches finitely many.
LEMMA RowsThereFinite == RowsThere => MatchesFinite
BY MatchingFacts DEF RowsThere, MatchesFinite

LEMMA CountKeeps == ASSUME SessionInv, RowsThere, Count PROVE SessionInv'
<1> PICK q \in {session.q} : TRUE
  OBVIOUS
<1>1. q.handler \in Handlers /\ q = session.q
  BY DEF SessionInv, SessionOK
<1>2. IsFiniteSet(Matching(q)) /\ Cardinality(Matching(q)) \in Nat
  BY <1>1, RowsThereFinite, FS_CardinalityType DEF MatchesFinite
<1>3. /\ session.step = "count" /\ db' = db
      /\ DOMAIN session' = DOMAIN session
      /\ session'.step = "select" /\ session'.status = session.status
      /\ session'.q = q /\ session'.seen = session.seen /\ session'.page = session.page
      /\ session'.count = Cardinality(Matching(q))
  BY DEF Count, SessionInv, SessionOK
<1>4. session'.shrunk = FALSE
  BY Zenon DEF Count, SessionInv, SessionOK
<1>5. Matching(session.q)' = Matching(q)
  BY <1>3, SameRows
<1>6. SessionOK'
  BY <1>1, <1>2, <1>3, <1>4 DEF SessionInv, SessionOK
<1>7. ShownOK'
  BY <1>1, <1>3 DEF SessionInv, ShownOK
<1>8. CountedOK'
  <2>1. Cardinality(Matching(session.q))' >= session'.count
    BY <1>2, <1>3, <1>5
  <2>2. session'.status # "500" /\ session'.step # "answered"
    BY <1>3 DEF SessionInv, SessionOK
  <2> QED BY <2>1, <2>2 DEF CountedOK
<1> QED BY <1>6, <1>7, <1>8 DEF SessionInv

\* A response with rows.
LEMMA DeliverKeeps ==
    ASSUME SessionInv, RowsThere, NEW rows \in SUBSET Matching(session.q), Deliver(rows),
           session.q.handler \notin FixedLists /\ ~session.shrunk
             /\ Cardinality(rows) < session.q.limit
           => session.q.offset + Cardinality(rows) >= session.count
    PROVE  SessionInv'
<1>1. /\ DOMAIN session' = DOMAIN session
      /\ session'.step = "answered" /\ session'.status = "200"
      /\ session'.q = session.q /\ session'.shrunk = session.shrunk
      /\ session'.count = session.count /\ session'.seen = session.seen \cup rows
      /\ session'.page = rows
  BY DEF Deliver, SessionInv, SessionOK
<1>2. SessionOK'
  BY <1>1 DEF SessionInv, SessionOK
<1>3. ShownOK'
  <2>1. /\ session.q.handler \notin Internal => \A x \in rows : Theirs(x, session.q)
        /\ session.q.cert /\ session.q.handler = "SourceList" =>
             \A x \in rows : x.type = Satellite
    BY DeliveredOK
  <2> QED BY <1>1, <2>1 DEF SessionInv, ShownOK
<1>4. CountedOK'
  BY <1>1 DEF CountedOK
<1> QED BY <1>2, <1>3, <1>4 DEF SessionInv

LEMMA SelectKeeps == ASSUME SessionInv, RowsThere, Select PROVE SessionInv'
<1> DEFINE q == session.q
<1>1. q.handler \in Handlers /\ q.limit \in Int /\ q.offset \in Int /\ session.count \in Nat
  BY DEF SessionInv, SessionOK
<1>2. PICK page \in Pages(Matching(q), Conditions(q).sort, q.limit, q.offset) : Deliver(page)
  BY DEF Select
<1>3. IsFiniteSet(Matching(q)) /\ Cardinality(Matching(q)) \in Nat
  BY <1>1, RowsThereFinite, FS_CardinalityType DEF MatchesFinite
<1>4. /\ page \subseteq Matching(q) /\ Cardinality(page) \in Nat
      /\ Cardinality(page) < q.limit => q.offset + Cardinality(page) >= Cardinality(Matching(q))
  BY <1>1, <1>2, <1>3, PagesFacts
<1>5. ~session.shrunk => Cardinality(Matching(q)) >= session.count
  BY DEF SessionInv, CountedOK, Select
<1>6. ~session.shrunk /\ Cardinality(page) < q.limit
        => q.offset + Cardinality(page) >= session.count
  BY <1>1, <1>3, <1>4, <1>5
<1> QED BY <1>2, <1>4, <1>6, DeliverKeeps

LEMMA SelectFixedKeeps == ASSUME SessionInv, RowsThere, SelectFixed PROVE SessionInv'
<1> DEFINE q == session.q
<1>1. q.handler \in FixedLists /\ q.handler \in Handlers /\ session.count \in Nat
  BY PagingFacts DEF SelectFixed, SessionInv, SessionOK, FixedLists
<1>2. PICK page \in Pages(Matching(q), <<>>, FixedLimit, 0) :
         IF Cardinality(page) < session.count THEN End("500")
         ELSE \E rows \in SUBSET page :
                Cardinality(rows) = session.count /\ Deliver(rows)
  BY DEF SelectFixed
<1>3. IsFiniteSet(Matching(q)) /\ Cardinality(Matching(q)) \in Nat
  BY <1>1, RowsThereFinite, FS_CardinalityType DEF MatchesFinite
<1>4. FixedLimit \in Int /\ FixedLimit \in Nat
  BY RequestsAssumption
<1>5. /\ page \subseteq Matching(q) /\ Cardinality(page) \in Nat
      /\ Cardinality(page) < FixedLimit => 0 + Cardinality(page) >= Cardinality(Matching(q))
  BY <1>2, <1>3, <1>4, PagesFacts
<1>6. CASE Cardinality(page) < session.count /\ End("500")
  <2>1. ~session.shrunk => Cardinality(Matching(q)) >= session.count
    BY DEF SessionInv, CountedOK, SelectFixed
  <2>2. session.shrunk \/ session.count > FixedLimit
    BY <1>1, <1>3, <1>4, <1>5, <1>6, <2>1
  <2> QED BY <1>6, <2>2, EndKeeps
<1>7. ASSUME NEW rows \in SUBSET page, Deliver(rows)
      PROVE  SessionInv'
  BY <1>1, <1>5, <1>7, DeliverKeeps
<1> QED BY <1>2, <1>6, <1>7

LEMMA NextPageKeeps == ASSUME SessionInv, NextPage PROVE SessionInv'
<1> DEFINE s == [session EXCEPT !.step = "parse"]
           r == [s.q EXCEPT !.offset = session.q.offset + session.q.limit]
<1>0. session' = [s EXCEPT !.q = r] /\ session.step = "answered"
  BY Zenon DEF NextPage
<1>1. /\ DOMAIN s = DOMAIN session /\ s.q = session.q /\ s.step = "parse"
      /\ s.status = session.status /\ s.shrunk = session.shrunk
      /\ s.count = session.count /\ s.seen = session.seen
  BY DEF SessionInv, SessionOK
<1> HIDE DEF s
<1>2. /\ DOMAIN r = DOMAIN session.q
      /\ r.handler = session.q.handler /\ r.tenant = session.q.tenant
      /\ r.user = session.q.user /\ r.cert = session.q.cert /\ r.limit = session.q.limit
      /\ r.offset = session.q.offset + session.q.limit
  BY <1>1 DEF SessionInv, SessionOK
<1> HIDE DEF r
<1>3. /\ DOMAIN session' = DOMAIN session /\ session'.q = r
      /\ session'.step = "parse" /\ session'.status = session.status
      /\ session'.shrunk = session.shrunk /\ session'.count = session.count
      /\ session'.seen = session.seen
  BY <1>0, <1>1 DEF SessionInv, SessionOK
<1>4. SessionOK'
  <2>1. /\ DOMAIN r = {"handler", "tenant", "user", "id", "filters", "sort", "limit",
                        "offset", "cert", "skip"}
        /\ r.handler \in Handlers /\ r.limit \in Int /\ r.offset \in Int
    <3>1. session.q.limit \in Int /\ session.q.offset \in Int /\ session.q.handler \in Handlers
      BY DEF SessionInv, SessionOK
    <3>2. r.offset \in Int /\ r.limit \in Int /\ r.handler \in Handlers
      BY <1>2, <3>1
    <3>3. DOMAIN r = {"handler", "tenant", "user", "id", "filters", "sort", "limit",
                      "offset", "cert", "skip"}
      BY <1>2 DEF SessionInv, SessionOK
    <3> QED BY <3>2, <3>3
  <2>2. session'.status = "200"
    BY <1>0, <1>3 DEF SessionInv, SessionOK
  <2> QED BY <1>3, <2>1, <2>2 DEF SessionInv, SessionOK
<1>5. ShownOK'
  BY <1>2, <1>3 DEF SessionInv, ShownOK, Theirs
<1>6. CountedOK'
  BY <1>3, <1>4 DEF SessionOK, CountedOK
<1> QED BY <1>4, <1>5, <1>6 DEF SessionInv

LEMMA LastPageKeeps == ASSUME SessionInv, LastPage PROVE SessionInv'
<1>1. session.status = "200" /\ End("200")
  BY DEF LastPage, SessionInv, SessionOK
<1> QED BY <1>1, EndKeeps

\* Other requests insert and delete: nothing is shown by that, and only a row
\* that goes makes a count too large.
LEMMA ElsewhereKeeps ==
    ASSUME SessionInv, RowsThere, MatchesFinite, MatchesFinite', Elsewhere
    PROVE  SessionInv'
<1>1. PICK q \in {session.q} :
        session' = [session EXCEPT !.always = @ \cap Matching(q)',
                                   !.left = @ + Cardinality(Matching(q) \ Matching(q)'),
                                   !.came = @ + Cardinality(Matching(q)' \ Matching(q)),
                                   !.shrunk = @ \/ Matching(q) \ Matching(q)' # {}]
  BY Zenon DEF Elsewhere
<1>2. /\ DOMAIN session' = DOMAIN session
      /\ session'.step = session.step /\ session'.status = session.status
      /\ session'.q = q /\ session'.count = session.count /\ session'.seen = session.seen
      /\ session'.page = session.page /\ q = session.q
  BY <1>1 DEF SessionInv, SessionOK
<1>3. session'.shrunk = (session.shrunk \/ Matching(q) \ Matching(q)' # {})
  BY <1>1, Zenon DEF SessionInv, SessionOK
<1>4. SessionOK'
  BY <1>2, <1>3 DEF SessionInv, SessionOK
<1>5. ShownOK'
  BY <1>2 DEF SessionInv, ShownOK
<1>6. ASSUME session'.step = "select", ~session'.shrunk
      PROVE  Cardinality(Matching(q)') >= session'.count
  <2>1. q.handler \in Handlers /\ session.count \in Nat
    BY <1>2 DEF SessionInv, SessionOK
  <2>2. Matching(q) \subseteq Matching(q)' /\ ~session.shrunk
    BY <1>3, <1>6
  <2>3. IsFiniteSet(Matching(q)) /\ IsFiniteSet(Matching(q)')
    BY <2>1 DEF MatchesFinite
  <2>4. Cardinality(Matching(q)) \in Nat /\ Cardinality(Matching(q)') \in Nat
    BY <2>3, FS_CardinalityType
  <2>5. Cardinality(Matching(q)) <= Cardinality(Matching(q)')
    BY <2>2, <2>3, FS_Subset
  <2>6. Cardinality(Matching(q)) >= session.count
    BY <1>2, <1>6, <2>2 DEF SessionInv, CountedOK
  <2> QED BY <1>2, <2>1, <2>4, <2>5, <2>6
<1>7. Matching(session.q)' = Matching(q)'
  BY <1>2
<1>8. session.shrunk => session'.shrunk
  BY <1>3
<1>9. CountedOK'
  <2>1. session'.step = "select" /\ ~session'.shrunk =>
          Cardinality(Matching(session.q))' >= session'.count
    BY <1>6, <1>7
  <2> QED BY <1>2, <1>8, <2>1 DEF SessionInv, CountedOK
<1> QED BY <1>4, <1>5, <1>9 DEF SessionInv

\* Without a change of the rows, what was counted is still there.
LEMMA SessionStays == ASSUME SessionInv, UNCHANGED <<db, session>> PROVE SessionInv'
<1> PICK q \in {session.q} : TRUE
  OBVIOUS
<1>1. Matching(q)' = Matching(q)
  BY SameRows
<1>2. Matching(session.q)' = Matching(session.q)
  BY <1>1
<1> QED BY <1>2 DEF SessionInv, SessionOK, ShownOK, CountedOK

\* Every step of a session keeps its invariant.
LEMMA SessionSteps ==
    ASSUME SessionInv, RowsThere, MatchesFinite, MatchesFinite',
           Answering \/ Elsewhere \/ UNCHANGED <<db, session>>
    PROVE  SessionInv'
BY ParseKeeps, FindPrimaryKeeps, CountKeeps, SelectKeeps, SelectFixedKeeps, NextPageKeeps,
   LastPageKeeps, ElsewhereKeeps, SessionStays DEF Answering

-----------------------------------------------------------------------------
(* Queries.                                                                 *)

\* Of the tenant, and of everybody in it or the user.
Hers(x, q) ==
    /\ x.table \in Tenanted => x.tenant = q.tenant
    /\ x.user \in {Nobody, q.user}

\* What the map of a kind has to hold.
Due(x, k, g) ==
    /\ x.table = k /\ x.tenant = g.q.tenant /\ x.source \in g.ids
    /\ x.user = Nobody \/ (x.user = g.q.user /\ k # "authentications")

QueryOK(q) ==
    /\ DOMAIN q = {"fields", "nested", "deep", "tenant", "user", "id", "filters",
                   "sort", "limit", "offset"}
    /\ q.fields \subseteq {"sources", "application_types", "meta"}

\* The maps: loaded once, after the source ids are known, and complete with
\* what was there all the time.
MapsOK(g, always) ==
    /\ DOMAIN g = {"q", "status", "pc", "out", "failed", "locked", "ids", "owner", "map",
                   "loads", "chan"}
    /\ QueryOK(g.q)
    /\ DOMAIN g.map = Loaded /\ DOMAIN g.loads = Loaded /\ DOMAIN g.owner = Loaded
    /\ \A k \in Loaded :
         /\ g.loads[k] \in {0, 1} /\ (g.locked => g.loads[k] = 0)
         /\ \A x \in g.map[k] : Hers(x, g.q)
         /\ g.loads[k] = 1 /\ Cardinality(g.map[k]) < GraphLimit =>
              \A x \in always : Due(x, k, g) => x \in g.map[k]

\* The resolvers: who is done has what its map holds for it, and the ids are
\* given away by the sources field as its last step.
ResolversOK(g) ==
    /\ DOMAIN g.out = DOMAIN g.pc
    /\ \A t \in DOMAIN g.pc :
         /\ t[2] = "Query" =>
              t[1] \in {"sources", "application_types", "meta"} /\ t = Root(t[1])
         /\ g.pc[t] = "send" => t[2] = "Query" /\ t[1] # "meta"
         /\ g.pc[t] \in {"wait", "load"} => t[1] \in Loaded
         /\ \A x \in g.out[t] : Hers(x, g.q)
         /\ g.pc[t] = "done" /\ t[1] \in Loaded /\ t \notin g.failed =>
              g.loads[t[1]] = 1 /\ FromCtx(t, g.map[t[1]]) \subseteq g.out[t]
    /\ ~g.locked => Root("sources") \in DOMAIN g.pc /\ g.pc[Root("sources")] = "done"

QueryInv == MapsOK(gql, db \ Late) /\ ResolversOK(gql)

\* The invariant is strong enough.
LEMMA QuerySays == QueryInv => GraphInv
<1> SUFFICES ASSUME QueryInv PROVE GraphInv
  OBVIOUS
<1>1. \A k \in Loaded : gql.loads[k] <= 1 /\ (gql.locked => gql.loads[k] = 0)
  <2> SUFFICES ASSUME NEW k \in Loaded
               PROVE  gql.loads[k] <= 1 /\ (gql.locked => gql.loads[k] = 0)
    OBVIOUS
  <2>1. gql.loads[k] \in {0, 1} /\ (gql.locked => gql.loads[k] = 0)
    BY Zenon DEF QueryInv, MapsOK
  <2>2. gql.loads[k] <= 1
    BY <2>1
  <2> QED BY <2>1, <2>2, Zenon
<1>2. \A t \in DOMAIN gql.out : \A x \in gql.out[t] :
         /\ x.table \in Tenanted => x.tenant = gql.q.tenant
         /\ x.user \in {Nobody, gql.q.user}
  BY Zenon DEF QueryInv, ResolversOK, Hers
<1>3. ASSUME NEW t \in DOMAIN gql.pc, gql.pc[t] = "done", t[1] \in Loaded, t \notin gql.failed,
             Cardinality(gql.map[t[1]]) < GraphLimit,
             NEW x \in db \ Late, Belongs(x, t), x.source \in gql.ids
      PROVE  x \in gql.out[t]
  <2>1. gql.loads[t[1]] = 1 /\ FromCtx(t, gql.map[t[1]]) \subseteq gql.out[t]
    BY <1>3, Zenon DEF QueryInv, ResolversOK
  <2>2. Due(x, t[1], gql)
    BY <1>3, Zenon DEF Belongs, Due
  <2>3. x \in gql.map[t[1]]
    BY <1>3, <2>1, <2>2, Zenon DEF QueryInv, MapsOK
  <2>4. FromCtx(t, {x}) # {}
    BY <1>3 DEF Belongs
  <2>5. x \in FromCtx(t, gql.map[t[1]])
    BY <2>3, <2>4 DEF FromCtx, OfSource
  <2> QED BY <2>1, <2>5
<1> QED BY <1>1, <1>2, <1>3, Zenon DEF GraphInv

\* A page is of what it is a page of.
LEMMA PagesWithin ==
    \A rows, sort, limit, offset : \A page \in Pages(rows, sort, limit, offset) :
       page \subseteq rows
BY DEF Pages

\* Nobody starts a root field again.
LEMMA NestedFacts == ASSUME NEW t, NEW x, NEW u \in Nested(t, x) PROVE u[2] # "Query"
<1> DEFINE path == Append(t[4], x.id)
<1>1. \/ u = <<"sources", "ApplicationType", x.id, path>>
      \/ \E n \in {m \in gql.q.nested : m[1] = t[4][1]} : u = <<n[2], "Source", x.id, path>>
      \/ u = <<"authentications", "Application", x.id, path>>
      \/ u = <<"authentications", "Endpoint", x.id, path>>
  BY Zenon DEF Nested
<1> HIDE DEF path
<1> QED BY <1>1

\* What Return leaves alone, and what becomes of each resolver.
LEMMA ReturnFacts ==
    ASSUME NEW g, DOMAIN g = {"q", "status", "pc", "out", "failed", "locked", "ids", "owner",
                              "map", "loads", "chan"},
           DOMAIN g.out = DOMAIN g.pc,
           NEW t, NEW rows, NEW failed \in BOOLEAN, NEW h, h = Return(g, t, rows, failed)
    PROVE  /\ DOMAIN h = DOMAIN g /\ h.q = g.q /\ h.ids = g.ids
           /\ h.locked = g.locked /\ h.owner = g.owner
           /\ h.map = g.map /\ h.loads = g.loads
           /\ DOMAIN g.pc \subseteq DOMAIN h.pc /\ DOMAIN h.out = DOMAIN h.pc
           /\ g.failed \subseteq h.failed /\ (failed => t \in h.failed)
           /\ \A u \in DOMAIN h.pc :
                \/ u = t /\ h.pc[u] = "done" /\ h.out[u] = rows
                \/ u # t /\ u[2] # "Query" /\ h.pc[u] = "start" /\ h.out[u] = {}
                \/ u # t /\ u \in DOMAIN g.pc /\ h.pc[u] = g.pc[u] /\ h.out[u] = g.out[u]
<1> DEFINE new == UNION {Nested(t, x) : x \in rows}
           pc  == [u \in DOMAIN g.pc \cup new |->
                     IF u = t THEN "done" ELSE IF u \in new THEN "start" ELSE g.pc[u]]
           out == [u \in DOMAIN g.out \cup new |->
                     IF u = t THEN rows ELSE IF u \in new THEN {} ELSE g.out[u]]
           who == IF failed THEN g.failed \cup {t} ELSE g.failed
<1>1. h = [g EXCEPT !.pc = pc, !.out = out, !.failed = who]
  BY Zenon DEF Return
<1>2. \A u \in new : u[2] # "Query"
  BY NestedFacts
<1>3. g.failed \subseteq who /\ (failed => t \in who)
  OBVIOUS
<1>4. /\ DOMAIN pc = DOMAIN g.pc \cup new /\ DOMAIN out = DOMAIN g.pc \cup new
      /\ \A u \in DOMAIN g.pc \cup new :
           \/ u = t /\ pc[u] = "done" /\ out[u] = rows
           \/ u # t /\ u \in new /\ pc[u] = "start" /\ out[u] = {}
           \/ u # t /\ u \in DOMAIN g.pc /\ pc[u] = g.pc[u] /\ out[u] = g.out[u]
  <2> HIDE DEF new
  <2> QED OBVIOUS
<1> HIDE DEF new, pc, out, who
<1>5. /\ DOMAIN h = DOMAIN g /\ h.pc = pc /\ h.out = out /\ h.failed = who
      /\ h.q = g.q /\ h.ids = g.ids /\ h.locked = g.locked
      /\ h.owner = g.owner /\ h.map = g.map /\ h.loads = g.loads
  BY <1>1
<1> QED BY <1>2, <1>3, <1>4, <1>5

\* The maps do not depend on the resolvers.
LEMMA SameMaps ==
    ASSUME NEW always, NEW g, MapsOK(g, always),
           NEW h, DOMAIN h = DOMAIN g, h.q = g.q, h.ids = g.ids, h.locked = g.locked,
           h.map = g.map, h.loads = g.loads, DOMAIN h.owner = Loaded
    PROVE  MapsOK(h, always)
<1>1. \A x, k : Due(x, k, h) <=> Due(x, k, g)
  BY Zenon DEF Due
<1>2. ASSUME NEW k \in Loaded
      PROVE  /\ h.loads[k] \in {0, 1} /\ (h.locked => h.loads[k] = 0)
             /\ \A x \in h.map[k] : Hers(x, h.q)
             /\ h.loads[k] = 1 /\ Cardinality(h.map[k]) < GraphLimit =>
                  \A x \in always : Due(x, k, h) => x \in h.map[k]
  <2>1. /\ g.loads[k] \in {0, 1} /\ (g.locked => g.loads[k] = 0)
        /\ \A x \in g.map[k] : Hers(x, g.q)
        /\ g.loads[k] = 1 /\ Cardinality(g.map[k]) < GraphLimit =>
             \A x \in always : Due(x, k, g) => x \in g.map[k]
    BY Zenon DEF MapsOK
  <2> QED BY <1>1, <2>1, Zenon
<1>3. /\ DOMAIN h = {"q", "status", "pc", "out", "failed", "locked", "ids", "owner", "map",
                     "loads", "chan"}
      /\ QueryOK(h.q) /\ DOMAIN h.map = Loaded /\ DOMAIN h.loads = Loaded
  BY Zenon DEF MapsOK
<1> QED BY <1>2, <1>3, Zenon DEF MapsOK

\* A resolver goes on, and does not return yet.
LEMMA GoesOn ==
    ASSUME NEW always, MapsOK(gql, always), ResolversOK(gql),
           NEW t \in DOMAIN gql.pc, gql.pc[t] # "done", NEW v, v # "done",
           v = "send" => t[2] = "Query" /\ t[1] # "meta",
           v \in {"wait", "load"} => t[1] \in Loaded,
           NEW h, DOMAIN h = DOMAIN gql, h.q = gql.q, h.ids = gql.ids, h.locked = gql.locked,
           h.map = gql.map, h.loads = gql.loads, DOMAIN h.owner = Loaded,
           h.pc = [gql.pc EXCEPT ![t] = v], DOMAIN h.out = DOMAIN gql.out,
           \A u \in DOMAIN gql.out : u # t => h.out[u] = gql.out[u],
           \A x \in h.out[t] : Hers(x, gql.q),
           gql.failed \subseteq h.failed
    PROVE  MapsOK(h, always) /\ ResolversOK(h)
<1>1. MapsOK(h, always)
  BY SameMaps
<1>2. /\ DOMAIN h.pc = DOMAIN gql.pc /\ h.pc[t] = v
      /\ \A u \in DOMAIN gql.pc : u # t => h.pc[u] = gql.pc[u]
  OBVIOUS
<1>3. ASSUME NEW u \in DOMAIN h.pc
      PROVE  /\ u[2] = "Query" =>
                  u[1] \in {"sources", "application_types", "meta"} /\ u = Root(u[1])
             /\ h.pc[u] = "send" => u[2] = "Query" /\ u[1] # "meta"
             /\ h.pc[u] \in {"wait", "load"} => u[1] \in Loaded
             /\ \A x \in h.out[u] : Hers(x, h.q)
             /\ h.pc[u] = "done" /\ u[1] \in Loaded /\ u \notin h.failed =>
                  h.loads[u[1]] = 1 /\ FromCtx(u, h.map[u[1]]) \subseteq h.out[u]
  <2>1. CASE u = t
    BY <1>2, <2>1, Zenon DEF ResolversOK
  <2>2. CASE u # t
    <3>1. u \in DOMAIN gql.pc /\ h.pc[u] = gql.pc[u] /\ h.out[u] = gql.out[u]
      BY <1>2, <2>2, Zenon DEF ResolversOK
    <3>2. u[2] = "Query" =>
            u[1] \in {"sources", "application_types", "meta"} /\ u = Root(u[1])
      BY <3>1, Zenon DEF ResolversOK
    <3>3. /\ h.pc[u] = "send" => u[2] = "Query" /\ u[1] # "meta"
          /\ h.pc[u] \in {"wait", "load"} => u[1] \in Loaded
      BY <3>1, Zenon DEF ResolversOK
    <3>4. \A x \in h.out[u] : Hers(x, h.q)
      BY <3>1, Zenon DEF ResolversOK
    <3>5. h.pc[u] = "done" /\ u[1] \in Loaded /\ u \notin h.failed =>
            h.loads[u[1]] = 1 /\ FromCtx(u, h.map[u[1]]) \subseteq h.out[u]
      <4>1. u \notin h.failed => u \notin gql.failed
        OBVIOUS
      <4>2. gql.pc[u] = "done" /\ u[1] \in Loaded /\ u \notin gql.failed =>
              gql.loads[u[1]] = 1 /\ FromCtx(u, gql.map[u[1]]) \subseteq gql.out[u]
        BY <3>1, Zenon DEF ResolversOK
      <4>3. h.loads[u[1]] = gql.loads[u[1]] /\ h.map[u[1]] = gql.map[u[1]]
        OBVIOUS
      <4> QED BY <3>1, <4>1, <4>2, <4>3, Zenon
    <3> QED BY <3>2, <3>3, <3>4, <3>5, Zenon
  <2> QED BY <2>1, <2>2
<1>4. ~h.locked => Root("sources") \in DOMAIN h.pc /\ h.pc[Root("sources")] = "done"
  BY <1>2, Zenon DEF ResolversOK
<1>5. DOMAIN h.out = DOMAIN h.pc
  BY <1>2, Zenon DEF ResolversOK
<1> QED BY <1>1, <1>3, <1>4, <1>5, Zenon DEF ResolversOK

\* A resolver returns.
LEMMA Returns ==
    ASSUME NEW always, MapsOK(gql, always), ResolversOK(gql),
           NEW t \in DOMAIN gql.pc, NEW rows, NEW failed \in BOOLEAN,
           \A x \in rows : Hers(x, gql.q),
           NEW g, MapsOK(g, always), g.pc = gql.pc, g.out = gql.out, g.failed = gql.failed,
           g.q = gql.q, g.locked = gql.locked \/ t = Root("sources"),
           \A k \in Loaded : gql.loads[k] = 1 => g.loads[k] = 1 /\ g.map[k] = gql.map[k],
           t[1] \in Loaded /\ ~failed =>
             g.loads[t[1]] = 1 /\ FromCtx(t, g.map[t[1]]) \subseteq rows,
           NEW h, h = Return(g, t, rows, failed)
    PROVE  MapsOK(h, always) /\ ResolversOK(h)
<1>1. DOMAIN g.out = DOMAIN g.pc
  BY Zenon DEF ResolversOK
<1>2. DOMAIN g = {"q", "status", "pc", "out", "failed", "locked", "ids", "owner", "map",
                  "loads", "chan"}
  BY Zenon DEF MapsOK
<1>3. /\ DOMAIN h = DOMAIN g /\ h.q = g.q /\ h.ids = g.ids
      /\ h.locked = g.locked /\ h.owner = g.owner
      /\ h.map = g.map /\ h.loads = g.loads
      /\ DOMAIN g.pc \subseteq DOMAIN h.pc /\ DOMAIN h.out = DOMAIN h.pc
      /\ g.failed \subseteq h.failed /\ (failed => t \in h.failed)
  BY <1>1, <1>2, ReturnFacts
<1>4. \A u \in DOMAIN h.pc :
        \/ u = t /\ h.pc[u] = "done" /\ h.out[u] = rows
        \/ u # t /\ u[2] # "Query" /\ h.pc[u] = "start" /\ h.out[u] = {}
        \/ u # t /\ u \in DOMAIN gql.pc /\ h.pc[u] = gql.pc[u] /\ h.out[u] = gql.out[u]
  BY <1>1, <1>2, ReturnFacts
<1>5. MapsOK(h, always)
  <2>1. DOMAIN g.owner = Loaded
    BY Zenon DEF MapsOK
  <2> QED BY <1>3, <2>1, SameMaps
<1>6. ASSUME NEW u \in DOMAIN h.pc
      PROVE  /\ u[2] = "Query" =>
                  u[1] \in {"sources", "application_types", "meta"} /\ u = Root(u[1])
             /\ h.pc[u] = "send" => u[2] = "Query" /\ u[1] # "meta"
             /\ h.pc[u] \in {"wait", "load"} => u[1] \in Loaded
             /\ \A x \in h.out[u] : Hers(x, h.q)
             /\ h.pc[u] = "done" /\ u[1] \in Loaded /\ u \notin h.failed =>
                  h.loads[u[1]] = 1 /\ FromCtx(u, h.map[u[1]]) \subseteq h.out[u]
  <2>1. CASE u = t /\ h.pc[u] = "done" /\ h.out[u] = rows
    <3>1. u[2] = "Query" =>
            u[1] \in {"sources", "application_types", "meta"} /\ u = Root(u[1])
      BY <2>1, Zenon DEF ResolversOK
    <3>2. h.pc[u] \notin {"send", "wait", "load"}
      BY <2>1
    <3>3. \A x \in h.out[u] : Hers(x, h.q)
      BY <1>3, <2>1, Zenon
    <3>4. u[1] \in Loaded /\ u \notin h.failed =>
            h.loads[u[1]] = 1 /\ FromCtx(u, h.map[u[1]]) \subseteq h.out[u]
      BY <1>3, <2>1, Zenon
    <3> QED BY <3>1, <3>2, <3>3, <3>4, Zenon
  <2>2. CASE u # t /\ u[2] # "Query" /\ h.pc[u] = "start" /\ h.out[u] = {}
    BY <2>2
  <2>3. CASE u # t /\ u \in DOMAIN gql.pc /\ h.pc[u] = gql.pc[u] /\ h.out[u] = gql.out[u]
    <3>1. h.pc[u] = "done" /\ u[1] \in Loaded /\ u \notin h.failed =>
            h.loads[u[1]] = 1 /\ FromCtx(u, h.map[u[1]]) \subseteq h.out[u]
      <4> SUFFICES ASSUME h.pc[u] = "done", u[1] \in Loaded, u \notin h.failed
                   PROVE  h.loads[u[1]] = 1 /\ FromCtx(u, h.map[u[1]]) \subseteq h.out[u]
        OBVIOUS
      <4>1. gql.loads[u[1]] = 1 /\ FromCtx(u, gql.map[u[1]]) \subseteq gql.out[u]
        BY <1>3, <2>3, Zenon DEF ResolversOK
      <4>2. h.loads[u[1]] = 1 /\ h.map[u[1]] = gql.map[u[1]]
        BY <1>3, <4>1, Zenon
      <4> QED BY <2>3, <4>1, <4>2, Zenon
    <3> QED BY <1>3, <2>3, <3>1, Zenon DEF ResolversOK
  <2> QED BY <1>4, <2>1, <2>2, <2>3
<1>7. ~h.locked => Root("sources") \in DOMAIN h.pc /\ h.pc[Root("sources")] = "done"
  <2>1. Root("sources")[2] = "Query"
    BY DEF Root
  <2>2. ASSUME ~h.locked
        PROVE  Root("sources") \in DOMAIN gql.pc
                 /\ (Root("sources") # t => gql.pc[Root("sources")] = "done")
    <3>1. CASE t = Root("sources")
      BY <3>1
    <3>2. CASE g.locked = gql.locked
      <4>1. ~gql.locked
        BY <1>3, <2>2, <3>2, Zenon
      <4> QED BY <4>1, Zenon DEF ResolversOK
    <3> QED BY <3>1, <3>2
  <2> QED BY <1>3, <1>4, <2>1, <2>2, Zenon
<1> QED BY <1>3, <1>5, <1>6, <1>7, Zenon DEF ResolversOK

GraphKeeps == MapsOK(gql', db \ Late) /\ ResolversOK(gql')

\* A resolver takes of a map what is its own.
LEMMA FromCtxWithin == \A t, rows : FromCtx(t, rows) \subseteq rows
BY DEF FromCtx, OfSource

\* The fields of a query, and of what becomes of it.
LEMMA QueryFields ==
    ASSUME QueryInv
    PROVE  /\ DOMAIN gql = {"q", "status", "pc", "out", "failed", "locked", "ids", "owner",
                            "map", "loads", "chan"}
           /\ DOMAIN gql.map = Loaded /\ DOMAIN gql.loads = Loaded /\ DOMAIN gql.owner = Loaded
           /\ DOMAIN gql.out = DOMAIN gql.pc
BY Zenon DEF QueryInv, MapsOK, ResolversOK

\* What the sources and application_types fields list, the user may see.
LEMMA RootRowsFacts ==
    ASSUME RowsThere, NEW field, NEW q
    PROVE  \A x \in RootRows(field, q) : Hers(x, q)
<1>1. \A x \in Visible("sources", q) : Hers(x, q)
  BY VisibleFacts DEF Hers
<1>2. ASSUME NEW x \in Enabled(In("application_types"))
      PROVE  Hers(x, q)
  <2>1. x \in AllRows /\ x.table = "application_types"
    BY VisibleFacts, NarrowingFacts DEF RowsThere
  <2>2. "application_types" \notin Owned /\ "application_types" \notin Tenanted
    BY DEF Owned, Tenanted
  <2> QED BY <2>1, <2>2, RowsAssumption DEF Hers
<1> QED BY <1>1, <1>2 DEF RootRows

\* One lemma for each step of a query.
LEMMA ListKeeps ==
    ASSUME QueryInv, RowsThere, NEW t \in DOMAIN gql.pc, List(t)
    PROVE  GraphKeeps
<1> DEFINE q       == gql.q
           filters == {ParsedArgs(f) : f \in q.filters}
           refused == \/ \E f \in filters : BadFilter(t[1], f)
                      \/ \E i \in DOMAIN q.sort : BadSort(t[1], q.sort[i])
           pages   == IF refused THEN {{}}
                      ELSE Pages(Filtered(RootRows(t[1], q), filters), ArgsSort(q),
                                 q.limit, q.offset)
           who     == IF refused THEN gql.failed \cup {t} ELSE gql.failed
<1>1. gql.pc[t] = "start" /\ t[2] = "Query" /\ t[1] # "meta"
  BY Zenon DEF List
<1>2. \E page \in pages : gql' = [gql EXCEPT !.pc[t] = "send", !.out[t] = page, !.failed = who]
  BY Zenon DEF List
<1>3. \A page \in pages : page \subseteq RootRows(t[1], q)
  <2>1. \A rows, fs : Filtered(rows, fs) \subseteq rows
    BY DEF Filtered
  <2> HIDE DEF refused, filters
  <2> QED BY <2>1, PagesWithin
<1>4. gql.failed \subseteq who
  <2> HIDE DEF refused
  <2> QED OBVIOUS
<1> HIDE DEF pages, who
<1>5. PICK page \in pages :
         gql' = [gql EXCEPT !.pc[t] = "send", !.out[t] = page, !.failed = who]
  BY <1>2
<1>6. \A x \in page : Hers(x, q)
  BY <1>3, RootRowsFacts
<1> DEFINE pc  == [gql.pc EXCEPT ![t] = "send"]
           out == [gql.out EXCEPT ![t] = page]
<1>7. gql' = [gql EXCEPT !.pc = pc, !.out = out, !.failed = who]
  BY <1>5, Zenon
<1>8. /\ DOMAIN out = DOMAIN gql.out /\ out[t] = page
      /\ \A u \in DOMAIN gql.out : u # t => out[u] = gql.out[u]
  BY QueryFields
<1> HIDE DEF pc, out
<1>9. /\ DOMAIN gql' = DOMAIN gql /\ gql'.q = gql.q /\ gql'.ids = gql.ids
      /\ gql'.locked = gql.locked /\ gql'.map = gql.map /\ gql'.loads = gql.loads
      /\ gql'.owner = gql.owner /\ gql'.pc = pc /\ gql'.out = out /\ gql'.failed = who
  BY <1>7, QueryFields
<1>10. /\ DOMAIN gql'.owner = Loaded /\ gql'.pc = [gql.pc EXCEPT ![t] = "send"]
       /\ DOMAIN gql'.out = DOMAIN gql.out
       /\ \A u \in DOMAIN gql.out : u # t => gql'.out[u] = gql.out[u]
       /\ \A x \in gql'.out[t] : Hers(x, gql.q)
       /\ gql.failed \subseteq gql'.failed
  BY <1>4, <1>6, <1>8, <1>9, QueryFields, Zenon DEF pc
<1> QED BY <1>1, <1>9, <1>10, GoesOn DEF QueryInv, GraphKeeps

LEMMA SendCountKeeps ==
    ASSUME QueryInv, NEW t \in DOMAIN gql.pc, SendCount(t)
    PROVE  GraphKeeps
<1> DEFINE sent == [gql EXCEPT !.chan = {t[1]}]
           ids  == {x.id : x \in gql.out[t]}
           set  == IF t[1] = "sources" THEN [sent EXCEPT !.ids = ids, !.locked = FALSE]
                   ELSE sent
<1>1. gql.pc[t] = "send" /\ gql' = Return(set, t, gql.out[t], FALSE)
  BY Zenon DEF SendCount
<1>2. t[2] = "Query" /\ t[1] # "meta" /\ t = Root(t[1]) /\ t[1] \in {"sources", "application_types"}
  BY <1>1, Zenon DEF QueryInv, ResolversOK
<1>3. t[1] \notin Loaded
  BY <1>2 DEF Loaded
<1>4. \A x \in gql.out[t] : Hers(x, gql.q)
  BY Zenon DEF QueryInv, ResolversOK
<1>5. /\ DOMAIN sent = DOMAIN gql /\ sent.q = gql.q /\ sent.ids = gql.ids
      /\ sent.locked = gql.locked /\ sent.map = gql.map /\ sent.loads = gql.loads
      /\ sent.owner = gql.owner /\ sent.pc = gql.pc /\ sent.out = gql.out
      /\ sent.failed = gql.failed
  BY QueryFields
<1> HIDE DEF sent
<1>6. CASE t[1] = "sources"
  <2>1. /\ DOMAIN set = DOMAIN gql /\ set.q = gql.q
        /\ set.map = gql.map /\ set.loads = gql.loads /\ set.owner = gql.owner
        /\ set.pc = gql.pc /\ set.out = gql.out /\ set.failed = gql.failed
    <3> DEFINE s == [sent EXCEPT !.ids = ids, !.locked = FALSE]
    <3>1. set = s
      BY <1>6, Zenon
    <3> HIDE DEF ids, set
    <3>2. /\ DOMAIN s = DOMAIN sent /\ s.q = sent.q
          /\ s.map = sent.map /\ s.loads = sent.loads /\ s.owner = sent.owner
          /\ s.pc = sent.pc /\ s.out = sent.out /\ s.failed = sent.failed
      BY <1>5, QueryFields
    <3> QED BY <1>5, <3>1, <3>2, Zenon
  <2>2. t = Root("sources")
    BY <1>2, <1>6
  <2>3. gql.locked
    BY <1>1, <2>2, Zenon DEF QueryInv, ResolversOK
  <2>4. \A k \in Loaded : gql.loads[k] = 0
    BY <2>3, Zenon DEF QueryInv, MapsOK
  <2> HIDE DEF set
  <2>5. ASSUME NEW k \in Loaded
        PROVE  /\ set.loads[k] \in {0, 1} /\ set.loads[k] = 0 /\ set.loads[k] # 1
               /\ \A x \in set.map[k] : Hers(x, set.q)
    <3>1. set.loads[k] = 0
      BY <2>1, <2>4, Zenon
    <3>2. set.loads[k] # 1 /\ set.loads[k] \in {0, 1}
      BY <3>1
    <3>3. \A x \in gql.map[k] : Hers(x, gql.q)
      BY Zenon DEF QueryInv, MapsOK
    <3> QED BY <2>1, <3>1, <3>2, <3>3, Zenon
  <2>6. /\ DOMAIN set.map = Loaded /\ DOMAIN set.loads = Loaded /\ DOMAIN set.owner = Loaded
        /\ DOMAIN set = {"q", "status", "pc", "out", "failed", "locked", "ids", "owner",
                         "map", "loads", "chan"}
        /\ QueryOK(set.q)
    BY <2>1, Zenon DEF QueryInv, MapsOK
  <2>7. MapsOK(set, db \ Late)
    BY <2>5, <2>6, Zenon DEF MapsOK
  <2>8. \A k \in Loaded : gql.loads[k] = 1 =>
           set.loads[k] = 1 /\ set.map[k] = gql.map[k]
    BY <2>1, Zenon
  <2> QED BY <1>1, <1>3, <1>4, <2>1, <2>2, <2>7, <2>8, Returns DEF QueryInv, GraphKeeps
<1>7. CASE t[1] # "sources"
  <2>1. set = sent
    BY <1>7, Zenon
  <2> HIDE DEF set
  <2>2. MapsOK(set, db \ Late)
    BY <1>5, <2>1, QueryFields, SameMaps DEF QueryInv
  <2>3. \A k \in Loaded : gql.loads[k] = 1 =>
           set.loads[k] = 1 /\ set.map[k] = gql.map[k]
    BY <1>5, <2>1, Zenon
  <2> QED BY <1>1, <1>3, <1>4, <1>5, <2>1, <2>2, <2>3, Returns DEF QueryInv, GraphKeeps
<1> QED BY <1>6, <1>7

LEMMA MetaKeeps ==
    ASSUME QueryInv, NEW t \in DOMAIN gql.pc, Meta(t)
    PROVE  GraphKeeps
<1> DEFINE g == [gql EXCEPT !.chan = {}]
<1>1. t[1] = "meta" /\ gql' = Return(g, t, {}, FALSE)
  BY Zenon DEF Meta
<1>2. t[1] \notin Loaded
  BY <1>1 DEF Loaded
<1>3. /\ DOMAIN g = DOMAIN gql /\ g.q = gql.q /\ g.ids = gql.ids
      /\ g.locked = gql.locked /\ g.map = gql.map /\ g.loads = gql.loads
      /\ g.owner = gql.owner /\ g.pc = gql.pc /\ g.out = gql.out /\ g.failed = gql.failed
  BY QueryFields
<1> HIDE DEF g
<1>4. MapsOK(g, db \ Late)
  BY <1>3, QueryFields, SameMaps DEF QueryInv
<1>5. \A k \in Loaded : gql.loads[k] = 1 => g.loads[k] = 1 /\ g.map[k] = gql.map[k]
  BY <1>3, Zenon
<1> QED BY <1>1, <1>2, <1>3, <1>4, <1>5, Returns DEF QueryInv, GraphKeeps

LEMMA TypeSourcesKeeps ==
    ASSUME QueryInv, NEW t \in DOMAIN gql.pc, TypeSources(t)
    PROVE  GraphKeeps
<1> DEFINE q      == [gql.q EXCEPT !.id = t[3]]
           rows   == SourcesThroughApplications(Visible("sources", q), q)
           failed == ~PrimaryExists("application_types", q)
<1>1. t[1] = "sources"
  BY Zenon DEF TypeSources
<1>2. \E page \in Pages(rows, <<>>, GraphLimit, 0) : gql' = Return(gql, t, page, failed)
  BY Zenon DEF TypeSources
<1>3. failed \in BOOLEAN
  OBVIOUS
<1>4. q.tenant = gql.q.tenant /\ q.user = gql.q.user
  <2>1. "tenant" \in DOMAIN gql.q /\ "user" \in DOMAIN gql.q
    <3>1. DOMAIN gql.q = {"fields", "nested", "deep", "tenant", "user", "id", "filters",
                          "sort", "limit", "offset"}
      BY Zenon DEF QueryInv, MapsOK, QueryOK
    <3> QED BY <3>1
  <2> QED BY <2>1
<1>5. \A x \in rows : Hers(x, gql.q)
  <2> HIDE DEF q
  <2> QED BY <1>4, VisibleFacts, NarrowingFacts DEF Hers
<1> HIDE DEF rows, failed
<1>6. PICK page \in Pages(rows, <<>>, GraphLimit, 0) : gql' = Return(gql, t, page, failed)
  BY <1>2
<1>7. \A x \in page : Hers(x, gql.q)
  BY <1>5, PagesWithin
<1>8. t[1] \notin Loaded
  BY <1>1 DEF Loaded
<1> QED BY <1>3, <1>6, <1>7, <1>8, Returns DEF QueryInv, GraphKeeps

\* What a map holds for a resolver.
LEMMA FromMap ==
    ASSUME QueryInv, NEW t \in DOMAIN gql.pc, t[1] \in Loaded, gql.loads[t[1]] > 0,
           NEW g, MapsOK(g, db \ Late), g.pc = gql.pc, g.out = gql.out,
           g.failed = gql.failed, g.q = gql.q, g.locked = gql.locked,
           g.map = gql.map, g.loads = gql.loads,
           gql' = Return(g, t, FromCtx(t, gql.map[t[1]]), FALSE)
    PROVE  GraphKeeps
<1>1. gql.loads[t[1]] = 1
  <2>1. gql.loads[t[1]] \in {0, 1}
    BY Zenon DEF QueryInv, MapsOK
  <2> QED BY <2>1
<1>2. \A x \in FromCtx(t, gql.map[t[1]]) : Hers(x, gql.q)
  <2>1. \A x \in gql.map[t[1]] : Hers(x, gql.q)
    BY Zenon DEF QueryInv, MapsOK
  <2> QED BY <2>1, FromCtxWithin
<1>3. \A k \in Loaded : gql.loads[k] = 1 => g.loads[k] = 1 /\ g.map[k] = gql.map[k]
  BY Zenon
<1>4. g.loads[t[1]] = 1 /\ FromCtx(t, g.map[t[1]]) \subseteq FromCtx(t, gql.map[t[1]])
  BY <1>1
<1> QED BY <1>2, <1>3, <1>4, Returns DEF QueryInv, GraphKeeps

LEMMA CheckKeeps ==
    ASSUME QueryInv, NEW t \in DOMAIN gql.pc, Check(t)
    PROVE  GraphKeeps
<1>1. gql.pc[t] = "start" /\ t[1] \in Loaded
  BY Zenon DEF Check
<1>2. CASE gql.loads[t[1]] > 0 /\ gql' = Return(gql, t, FromCtx(t, gql.map[t[1]]), FALSE)
  BY <1>1, <1>2, FromMap DEF QueryInv
<1>3. CASE gql' = [gql EXCEPT !.pc[t] = "wait"]
  <2> DEFINE pc == [gql.pc EXCEPT ![t] = "wait"]
  <2>1. gql' = [gql EXCEPT !.pc = pc]
    BY <1>3, Zenon
  <2> HIDE DEF pc
  <2>2. /\ DOMAIN gql' = DOMAIN gql /\ gql'.q = gql.q /\ gql'.ids = gql.ids
        /\ gql'.locked = gql.locked /\ gql'.map = gql.map /\ gql'.loads = gql.loads
        /\ gql'.owner = gql.owner /\ gql'.pc = pc /\ gql'.out = gql.out
        /\ gql'.failed = gql.failed
    BY <2>1, QueryFields
  <2>3. \A x \in gql.out[t] : Hers(x, gql.q)
    BY Zenon DEF QueryInv, ResolversOK
  <2>4. /\ DOMAIN gql'.owner = Loaded /\ gql'.pc = [gql.pc EXCEPT ![t] = "wait"]
        /\ DOMAIN gql'.out = DOMAIN gql.out
        /\ \A u \in DOMAIN gql.out : u # t => gql'.out[u] = gql.out[u]
        /\ \A x \in gql'.out[t] : Hers(x, gql.q)
        /\ gql.failed \subseteq gql'.failed
    BY <2>2, <2>3, QueryFields, Zenon DEF pc
  <2> QED BY <1>1, <2>2, <2>4, GoesOn DEF QueryInv, GraphKeeps
<1> QED BY <1>2, <1>3, Zenon DEF Check

LEMMA LockOwnKeeps ==
    ASSUME QueryInv, NEW t \in DOMAIN gql.pc, LockOwn(t)
    PROVE  GraphKeeps
<1> DEFINE pc    == [gql.pc EXCEPT ![t] = "load"]
           owner == [gql.owner EXCEPT ![t[1]] = t]
<1>1. gql.pc[t] = "wait" /\ gql' = [gql EXCEPT !.pc = pc, !.owner = owner]
  BY Zenon DEF LockOwn
<1>2. t[1] \in Loaded
  BY <1>1, Zenon DEF QueryInv, ResolversOK
<1>3. DOMAIN owner = Loaded
  BY QueryFields
<1> HIDE DEF pc, owner
<1>4. /\ DOMAIN gql' = DOMAIN gql /\ gql'.q = gql.q /\ gql'.ids = gql.ids
      /\ gql'.locked = gql.locked /\ gql'.map = gql.map /\ gql'.loads = gql.loads
      /\ gql'.owner = owner /\ gql'.pc = pc /\ gql'.out = gql.out
      /\ gql'.failed = gql.failed
  BY <1>1, QueryFields
<1>5. \A x \in gql.out[t] : Hers(x, gql.q)
  BY Zenon DEF QueryInv, ResolversOK
<1>6. /\ DOMAIN gql'.owner = Loaded /\ gql'.pc = [gql.pc EXCEPT ![t] = "load"]
      /\ DOMAIN gql'.out = DOMAIN gql.out
      /\ \A u \in DOMAIN gql.out : u # t => gql'.out[u] = gql.out[u]
      /\ \A x \in gql'.out[t] : Hers(x, gql.q)
      /\ gql.failed \subseteq gql'.failed
  BY <1>3, <1>4, <1>5, Zenon DEF pc
<1> QED BY <1>1, <1>2, <1>4, <1>6, GoesOn DEF QueryInv, GraphKeeps

\* What is loaded of a kind: the user's and, of what was there all the time,
\* everything that is due.
LEMMA LoadedFacts ==
    ASSUME QueryInv, RowsThere, NEW k \in Loaded
    PROVE  /\ IsFiniteSet(LoadedRows(k))
           /\ \A x \in LoadedRows(k) : Hers(x, gql.q)
           /\ \A x \in db : Due(x, k, gql) => x \in LoadedRows(k)
<1> DEFINE q == gql.q
           p == [q EXCEPT !.user = Nobody]
<1>1. p.tenant = q.tenant /\ p.user = Nobody
  <2>1. "tenant" \in DOMAIN q /\ "user" \in DOMAIN q
    <3>1. DOMAIN q = {"fields", "nested", "deep", "tenant", "user", "id", "filters",
                      "sort", "limit", "offset"}
      BY Zenon DEF QueryInv, MapsOK, QueryOK
    <3> QED BY <3>1
  <2> QED BY <2>1
<1>2. LoadedRows("applications") = {x \in Visible("applications", q) : x.source \in gql.ids}
  BY DEF LoadedRows
<1>3. LoadedRows("endpoints") = {x \in OfTenant("endpoints", q) : x.source \in gql.ids}
  BY DEF LoadedRows
<1>4. LoadedRows("authentications")
        = {x \in Visible("authentications", p) : x.source \in gql.ids}
  BY DEF LoadedRows
<1> HIDE DEF p
<1>5. \A x \in db : x.table = "endpoints" => x.user = Nobody
  <2>1. "endpoints" \notin Owned
    BY DEF Owned
  <2> QED BY <2>1, RowsAssumption DEF RowsThere
<1>6. \A table, r : Visible(table, r) = {x \in db : /\ x.table = table /\ x.tenant = r.tenant
                                                    /\ x.user \in {Nobody, r.user}}
  BY DEF Visible, In
<1>7. \A table, r : OfTenant(table, r) = {x \in db : x.table = table /\ x.tenant = r.tenant}
  BY DEF OfTenant, In
<1>8. CASE k = "applications"
  <2>1. \A x \in LoadedRows(k) : x \in db /\ Hers(x, q)
    BY <1>2, <1>6, <1>8 DEF Hers
  <2>2. \A x \in db : Due(x, k, gql) => x \in LoadedRows(k)
    BY <1>2, <1>6, <1>8 DEF Due
  <2> QED BY <2>1, <2>2, RowsAssumption, FS_Subset DEF RowsThere
<1>9. CASE k = "endpoints"
  <2>1. \A x \in LoadedRows(k) : x \in db /\ Hers(x, q)
    BY <1>3, <1>5, <1>7, <1>9 DEF Hers
  <2>2. \A x \in db : Due(x, k, gql) => x \in LoadedRows(k)
    BY <1>3, <1>7, <1>9 DEF Due
  <2> QED BY <2>1, <2>2, RowsAssumption, FS_Subset DEF RowsThere
<1>10. CASE k = "authentications"
  <2>1. \A x \in LoadedRows(k) : x \in db /\ Hers(x, q)
    BY <1>1, <1>4, <1>6, <1>10 DEF Hers
  <2>2. \A x \in db : Due(x, k, gql) => x \in LoadedRows(k)
    BY <1>1, <1>4, <1>6, <1>10 DEF Due
  <2> QED BY <2>1, <2>2, RowsAssumption, FS_Subset DEF RowsThere
<1> QED BY <1>8, <1>9, <1>10 DEF Loaded

LEMMA LoadOnceKeeps ==
    ASSUME QueryInv, RowsThere, NEW t \in DOMAIN gql.pc, LoadOnce(t)
    PROVE  GraphKeeps
<1> DEFINE k == t[1]
           unlocked == [gql EXCEPT !.owner[k] = <<>>]
<1>1. gql.pc[t] = "load" /\ ~gql.locked
  BY Zenon DEF LoadOnce
<1>2. k \in Loaded
  BY <1>1, Zenon DEF QueryInv, ResolversOK
<1>3. \/ gql.loads[k] > 0 /\ gql' = Return(unlocked, t, FromCtx(t, gql.map[k]), FALSE)
      \/ gql' = Return(unlocked, t, {}, TRUE)
      \/ /\ ~(gql.loads[k] > 0)
         /\ \E page \in Pages(LoadedRows(k), <<>>, GraphLimit, 0) :
              gql' = Return([unlocked EXCEPT !.map[k] = page, !.loads[k] = @ + 1],
                            t, FromCtx(t, page), FALSE)
  BY Zenon DEF LoadOnce
<1>4. /\ DOMAIN unlocked = DOMAIN gql /\ unlocked.q = gql.q /\ unlocked.ids = gql.ids
      /\ unlocked.locked = gql.locked /\ unlocked.map = gql.map
      /\ unlocked.loads = gql.loads /\ DOMAIN unlocked.owner = Loaded
      /\ unlocked.pc = gql.pc /\ unlocked.out = gql.out /\ unlocked.failed = gql.failed
  <2> DEFINE owner == [gql.owner EXCEPT ![k] = <<>>]
  <2>1. DOMAIN owner = Loaded
    BY QueryFields
  <2> HIDE DEF owner
  <2>2. unlocked = [gql EXCEPT !.owner = owner]
    BY Zenon DEF owner
  <2> HIDE DEF unlocked
  <2> QED BY <2>1, <2>2, QueryFields
<1> HIDE DEF unlocked
<1>5. MapsOK(unlocked, db \ Late)
  BY <1>4, SameMaps DEF QueryInv
<1>6. CASE gql.loads[k] > 0 /\ gql' = Return(unlocked, t, FromCtx(t, gql.map[k]), FALSE)
  BY <1>2, <1>4, <1>5, <1>6, FromMap
<1>7. CASE gql' = Return(unlocked, t, {}, TRUE)
  <2>1. \A j \in Loaded : gql.loads[j] = 1 =>
           unlocked.loads[j] = 1 /\ unlocked.map[j] = gql.map[j]
    BY <1>4, Zenon
  <2> QED BY <1>4, <1>5, <1>7, <2>1, Returns DEF QueryInv, GraphKeeps
<1>8. ASSUME ~(gql.loads[k] > 0), NEW page \in Pages(LoadedRows(k), <<>>, GraphLimit, 0),
             gql' = Return([unlocked EXCEPT !.map[k] = page, !.loads[k] = @ + 1],
                           t, FromCtx(t, page), FALSE)
      PROVE  GraphKeeps
  <2> DEFINE map   == [gql.map EXCEPT ![k] = page]
             loads == [gql.loads EXCEPT ![k] = gql.loads[k] + 1]
             g     == [unlocked EXCEPT !.map = map, !.loads = loads]
  <2>1. gql.loads[k] = 0
    <3>1. gql.loads[k] \in {0, 1}
      BY <1>2, Zenon DEF QueryInv, MapsOK
    <3> QED BY <1>8, <3>1
  <2>2. [unlocked EXCEPT !.map[k] = page, !.loads[k] = @ + 1] = g
    <3>1. [unlocked EXCEPT !.map[k] = page, !.loads[k] = @ + 1]
            = [unlocked EXCEPT !.map = [unlocked.map EXCEPT ![k] = page],
                               !.loads = [unlocked.loads EXCEPT ![k] = unlocked.loads[k] + 1]]
      BY Zenon
    <3> QED BY <1>4, <3>1, Zenon
  <2>3. /\ DOMAIN map = Loaded /\ map[k] = page
        /\ \A j \in Loaded : j # k => map[j] = gql.map[j]
    BY <1>2, QueryFields
  <2>4. /\ DOMAIN loads = Loaded /\ loads[k] = 1
        /\ \A j \in Loaded : j # k => loads[j] = gql.loads[j]
    BY <1>2, <2>1, QueryFields
  <2> HIDE DEF map, loads
  <2>5. /\ DOMAIN g = DOMAIN gql /\ g.q = gql.q /\ g.ids = gql.ids
        /\ g.locked = gql.locked /\ g.map = map /\ g.loads = loads /\ DOMAIN g.owner = Loaded
        /\ g.pc = gql.pc /\ g.out = gql.out /\ g.failed = gql.failed
    BY <1>4, QueryFields
  <2> HIDE DEF g
  <2>6. /\ page \subseteq LoadedRows(k)
        /\ Cardinality(page) < GraphLimit => page = LoadedRows(k)
    <3>1. IsFiniteSet(LoadedRows(k)) /\ GraphLimit \in Int
      BY <1>2, LoadedFacts, QueriesAssumption
    <3>2. page \in Pages(LoadedRows(k), <<>>, GraphLimit, 0)
      BY <1>8
    <3> QED BY <3>1, <3>2, PagesFacts
  <2>7. \A x \in page : Hers(x, gql.q)
    BY <1>2, <2>6, LoadedFacts
  <2>8. ASSUME NEW j \in Loaded
        PROVE  /\ g.loads[j] \in {0, 1} /\ (g.locked => g.loads[j] = 0)
               /\ \A x \in g.map[j] : Hers(x, g.q)
               /\ g.loads[j] = 1 /\ Cardinality(g.map[j]) < GraphLimit =>
                    \A x \in db \ Late : Due(x, j, g) => x \in g.map[j]
    <3>1. \A x : Due(x, j, g) <=> Due(x, j, gql)
      BY <2>5, Zenon DEF Due
    <3>2. CASE j = k
      <4>1. g.loads[j] = 1 /\ g.map[j] = page
        BY <2>3, <2>4, <2>5, <3>2, Zenon
      <4>2. g.loads[j] \in {0, 1}
        BY <4>1
      <4>3. ~g.locked
        BY <1>1, <2>5, Zenon
      <4>4. Cardinality(page) < GraphLimit =>
               \A x \in db \ Late : Due(x, j, gql) => x \in page
        BY <1>2, <2>6, <3>2, LoadedFacts
      <4> QED BY <2>5, <2>7, <3>1, <4>1, <4>2, <4>3, <4>4, Zenon
    <3>3. CASE j # k
      <4>1. g.loads[j] = gql.loads[j] /\ g.map[j] = gql.map[j]
        BY <2>3, <2>4, <2>5, <3>3, Zenon
      <4>2. /\ gql.loads[j] \in {0, 1} /\ (gql.locked => gql.loads[j] = 0)
            /\ \A x \in gql.map[j] : Hers(x, gql.q)
            /\ gql.loads[j] = 1 /\ Cardinality(gql.map[j]) < GraphLimit =>
                 \A x \in db \ Late : Due(x, j, gql) => x \in gql.map[j]
        BY Zenon DEF QueryInv, MapsOK
      <4> QED BY <2>5, <3>1, <4>1, <4>2, Zenon
    <3> QED BY <3>2, <3>3
  <2>9. /\ DOMAIN g = {"q", "status", "pc", "out", "failed", "locked", "ids", "owner", "map",
                       "loads", "chan"}
        /\ QueryOK(g.q) /\ DOMAIN g.map = Loaded /\ DOMAIN g.loads = Loaded
    BY <2>3, <2>4, <2>5, QueryFields, Zenon DEF QueryInv, MapsOK
  <2>10. MapsOK(g, db \ Late)
    BY <2>5, <2>8, <2>9, Zenon DEF MapsOK
  <2>11. \A j \in Loaded : gql.loads[j] = 1 => g.loads[j] = 1 /\ g.map[j] = gql.map[j]
    <3> SUFFICES ASSUME NEW j \in Loaded, gql.loads[j] = 1
                 PROVE  g.loads[j] = 1 /\ g.map[j] = gql.map[j]
      OBVIOUS
    <3>1. j # k
      BY <2>1
    <3> QED BY <2>3, <2>4, <2>5, <3>1, Zenon
  <2>12. g.loads[k] = 1 /\ FromCtx(t, g.map[k]) \subseteq FromCtx(t, page)
    BY <1>2, <2>3, <2>4, <2>5
  <2>13. \A x \in FromCtx(t, page) : Hers(x, gql.q)
    BY <2>7, FromCtxWithin
  <2>14. gql' = Return(g, t, FromCtx(t, page), FALSE)
    BY <1>8, <2>2, Zenon
  <2> QED BY <2>5, <2>10, <2>11, <2>12, <2>13, <2>14, Returns DEF QueryInv, GraphKeeps
<1> QED BY <1>3, <1>6, <1>7, <1>8

LEMMA RespondKeeps == ASSUME QueryInv, Respond PROVE GraphKeeps
<1>1. gql' = [gql EXCEPT !.status = "answered"]
  BY DEF Respond
<1>2. /\ DOMAIN gql' = DOMAIN gql /\ gql'.q = gql.q /\ gql'.ids = gql.ids
      /\ gql'.locked = gql.locked /\ gql'.map = gql.map /\ gql'.loads = gql.loads
      /\ gql'.owner = gql.owner /\ gql'.pc = gql.pc /\ gql'.out = gql.out
      /\ gql'.failed = gql.failed
  BY <1>1, QueryFields
<1>3. MapsOK(gql', db \ Late)
  BY <1>2, QueryFields, SameMaps DEF QueryInv
<1>4. ASSUME NEW t \in DOMAIN gql'.pc
      PROVE  /\ t[2] = "Query" =>
                  t[1] \in {"sources", "application_types", "meta"} /\ t = Root(t[1])
             /\ gql'.pc[t] = "send" => t[2] = "Query" /\ t[1] # "meta"
             /\ gql'.pc[t] \in {"wait", "load"} => t[1] \in Loaded
             /\ \A x \in gql'.out[t] : Hers(x, gql'.q)
             /\ gql'.pc[t] = "done" /\ t[1] \in Loaded /\ t \notin gql'.failed =>
                  gql'.loads[t[1]] = 1 /\ FromCtx(t, gql'.map[t[1]]) \subseteq gql'.out[t]
  <2>1. t \in DOMAIN gql.pc
    BY <1>2
  <2>2. /\ t[2] = "Query" =>
             t[1] \in {"sources", "application_types", "meta"} /\ t = Root(t[1])
        /\ gql.pc[t] = "send" => t[2] = "Query" /\ t[1] # "meta"
        /\ gql.pc[t] \in {"wait", "load"} => t[1] \in Loaded
        /\ \A x \in gql.out[t] : Hers(x, gql.q)
        /\ gql.pc[t] = "done" /\ t[1] \in Loaded /\ t \notin gql.failed =>
             gql.loads[t[1]] = 1 /\ FromCtx(t, gql.map[t[1]]) \subseteq gql.out[t]
    BY <2>1, Zenon DEF QueryInv, ResolversOK
  <2> QED BY <1>2, <2>2, Zenon
<1>5. DOMAIN gql'.out = DOMAIN gql'.pc
  BY <1>2, QueryFields
<1>6. ~gql'.locked => /\ Root("sources") \in DOMAIN gql'.pc
                      /\ gql'.pc[Root("sources")] = "done"
  <2>1. ~gql.locked => Root("sources") \in DOMAIN gql.pc /\ gql.pc[Root("sources")] = "done"
    BY Zenon DEF QueryInv, ResolversOK
  <2> QED BY <1>2, <2>1, Zenon
<1>7. ResolversOK(gql')
  BY <1>4, <1>5, <1>6, Zenon DEF ResolversOK
<1> QED BY <1>3, <1>7 DEF GraphKeeps

\* Of what was there all the time, nothing comes.
LEMMA ChangesFacts ==
    ASSUME RowsThere, Changes
    PROVE  RowsThere' /\ db' \ Late \subseteq db \ Late
BY RowsAssumption DEF RowsThere, Changes, Insert, Remove

\* Every step of a query, and of others, keeps its invariant.
LEMMA QuerySteps ==
    ASSUME QueryInv, RowsThere, Resolving \/ Meanwhile \/ (UNCHANGED gql /\ (UNCHANGED db \/ Changes))
    PROVE  QueryInv'
<1>1. ASSUME GraphKeeps, UNCHANGED db
      PROVE  QueryInv'
  BY <1>1, Zenon DEF GraphKeeps, QueryInv
<1>2. CASE Resolving
  <2>1. UNCHANGED db
    BY <1>2 DEF Resolving, Resolve, Respond
  <2>2. GraphKeeps
    BY <1>2, ListKeeps, SendCountKeeps, MetaKeeps, TypeSourcesKeeps, CheckKeeps,
       LockOwnKeeps, LoadOnceKeeps, RespondKeeps DEF Resolving, Resolve
  <2> QED BY <1>1, <2>1, <2>2
<1>3. CASE UNCHANGED gql /\ (UNCHANGED db \/ Changes)
  <2>1. db' \ Late \subseteq db \ Late
    BY <1>3, ChangesFacts
  <2>2. MapsOK(gql, db' \ Late)
    BY <2>1, Zenon DEF QueryInv, MapsOK
  <2>3. MapsOK(gql', db' \ Late) /\ ResolversOK(gql')
    BY <1>3, <2>2, Zenon DEF QueryInv
  <2> QED BY <2>3, Zenon DEF QueryInv
<1> QED BY <1>2, <1>3 DEF Meanwhile

\* A query starts with nothing loaded, and the ids locked.
LEMMA QueryStarts ==
    ASSUME NEW q, QueryOK(q),
           gql = GraphQLQuery(q) \/ gql = [GraphQLQuery(q) EXCEPT !.status = "answered"]
    PROVE  QueryInv
<1> DEFINE g     == GraphQLQuery(q)
           roots == {Root(f) : f \in q.fields}
<1>1. /\ DOMAIN g = {"q", "status", "pc", "out", "failed", "locked", "ids", "owner", "map",
                     "loads", "chan"}
      /\ g.q = q /\ g.pc = [t \in roots |-> "start"] /\ g.out = [t \in roots |-> {}]
      /\ g.owner = [k \in Loaded |-> <<>>] /\ g.map = [k \in Loaded |-> {}]
      /\ g.loads = [k \in Loaded |-> 0]
  BY DEF GraphQLQuery
<1>2. g.locked
  BY Zenon DEF GraphQLQuery
<1> HIDE DEF g, roots
<1>3. /\ DOMAIN gql = DOMAIN g /\ gql.q = g.q /\ gql.pc = g.pc /\ gql.out = g.out
      /\ gql.locked = g.locked /\ gql.owner = g.owner /\ gql.map = g.map
      /\ gql.loads = g.loads
  BY <1>1 DEF g
<1>4. ASSUME NEW k \in Loaded
      PROVE  gql.loads[k] = 0 /\ gql.loads[k] # 1 /\ gql.loads[k] \in {0, 1} /\ gql.map[k] = {}
  BY <1>1, <1>3
<1>5. ASSUME NEW t \in DOMAIN gql.pc
      PROVE  /\ t[1] \in {"sources", "application_types", "meta"} /\ t = Root(t[1])
             /\ gql.pc[t] = "start" /\ gql.out[t] = {}
  <2>1. t \in roots
    BY <1>1, <1>3
  <2>2. PICK f \in q.fields : t = Root(f)
    BY <2>1 DEF roots
  <2>3. t[1] = f
    BY <2>2 DEF Root
  <2>4. f \in {"sources", "application_types", "meta"}
    BY Zenon DEF QueryOK
  <2> QED BY <1>1, <1>3, <2>1, <2>2, <2>3, <2>4
<1>6. DOMAIN gql.map = Loaded /\ DOMAIN gql.loads = Loaded /\ DOMAIN gql.owner = Loaded
  BY <1>1, <1>3
<1>7. MapsOK(gql, db \ Late)
  <2>1. \A k \in Loaded : \A x \in gql.map[k] : Hers(x, gql.q)
    BY <1>4
  <2> QED BY <1>1, <1>3, <1>4, <1>6, <2>1, Zenon DEF MapsOK
<1>8. ASSUME NEW t \in DOMAIN gql.pc
      PROVE  /\ t[1] \in {"sources", "application_types", "meta"} /\ t = Root(t[1])
             /\ gql.pc[t] # "send" /\ gql.pc[t] \notin {"wait", "load"} /\ gql.pc[t] # "done"
             /\ \A x \in gql.out[t] : Hers(x, gql.q)
  BY <1>5
<1>9. DOMAIN gql.out = DOMAIN gql.pc /\ gql.locked
  <2>1. DOMAIN gql.out = DOMAIN gql.pc
    BY <1>1, <1>3
  <2>2. gql.locked
    BY <1>2, <1>3, Zenon
  <2> QED BY <2>1, <2>2, Zenon
<1>10. ResolversOK(gql)
  BY <1>8, <1>9, Zenon DEF ResolversOK
<1> QED BY <1>7, <1>10 DEF QueryInv

-----------------------------------------------------------------------------
\* Only the server has sessions.
SessionsServed ==
    /\ DOMAIN proc = {"mode", "main", "unit", "exit"}
    /\ proc.mode # "lists" => session.step = "done"

AnswersInv == RowsThere /\ SessionsServed /\ SessionInv /\ QueryInv

\* Whatever kind of process starts.
LEMMA AnswersStart == InitProcess => AnswersInv
<1> SUFFICES ASSUME InitProcess PROVE AnswersInv
  OBVIOUS
<1>1. PICK mode \in Modes :
        /\ proc = [mode |-> mode, main |-> "waiting", unit |-> "starting", exit |-> "none"]
        /\ InitTables
        /\ IF mode = "lists" THEN \E q \in Requests : session = Session(q)
           ELSE \E q \in {CHOOSE q \in Requests : TRUE} :
                  session = [Session(q) EXCEPT !.step = "done"]
        /\ IF mode = "graphql" THEN \E q \in Queries : gql = GraphQLQuery(q)
           ELSE \E q \in {CHOOSE q \in Queries : TRUE} :
                  gql = [GraphQLQuery([q EXCEPT !.fields = {}]) EXCEPT !.status = "answered"]
  BY Zenon DEF InitProcess
<1>2. RowsThere
  BY <1>1, RowsAssumption DEF InitTables, RowsThere
<1>3. proc.mode = mode /\ DOMAIN proc = {"mode", "main", "unit", "exit"}
  BY <1>1
<1>4. (CHOOSE q \in Requests : TRUE) \in Requests /\ (CHOOSE q \in Queries : TRUE) \in Queries
  BY RequestsAssumption, QueriesAssumption
<1>5. \/ mode = "lists" /\ \E q \in Requests : session = Session(q)
      \/ mode # "lists" /\ \E q \in Requests : session = [Session(q) EXCEPT !.step = "done"]
  BY <1>1, <1>4, Zenon
<1>6. SessionInv
  BY <1>5, SessionStarts
<1>7. SessionsServed
  <2>1. ASSUME NEW q \in Requests, session = [Session(q) EXCEPT !.step = "done"]
        PROVE  session.step = "done"
    <3>1. "step" \in DOMAIN Session(q)
      BY DEF Session
    <3> QED BY <2>1, <3>1
  <2> QED BY <1>3, <1>5, <2>1 DEF SessionsServed
<1>8. QueryInv
  <2>1. ASSUME NEW q \in Queries
        PROVE  QueryOK(q) /\ QueryOK([q EXCEPT !.fields = {}])
    BY QueriesAssumption DEF QueryOK
  <2>2. CASE \E q \in Queries : gql = GraphQLQuery(q)
    BY <2>1, <2>2, QueryStarts
  <2>3. CASE \E q \in Queries : gql = [GraphQLQuery([q EXCEPT !.fields = {}])
                                         EXCEPT !.status = "answered"]
    BY <2>1, <2>3, QueryStarts
  <2> QED BY <1>1, <1>4, <2>2, <2>3, Zenon
<1> QED BY <1>2, <1>6, <1>7, <1>8 DEF AnswersInv

\* What a step of the process does to the rows, the session and the query.
LEMMA AnswersStep ==
    ASSUME SessionsServed, [NextProcess]_processVars
    PROVE  /\ DOMAIN proc' = DOMAIN proc /\ proc'.mode = proc.mode
           /\ \/ UNCHANGED <<db, session, gql>>
              \/ Answering /\ UNCHANGED <<db, gql>> /\ proc.mode = "lists"
              \/ Elsewhere /\ UNCHANGED gql /\ proc.mode = "lists"
              \/ Resolving /\ UNCHANGED <<db, session>>
              \/ Meanwhile /\ UNCHANGED session /\ proc.mode = "graphql"
<1>1. CASE UNCHANGED processVars
  BY <1>1 DEF processVars
<1>2. CASE Signal \/ Fatal \/ Main \/ Unit
  <2>1. UNCHANGED <<db, session, gql>>
    BY <1>2 DEF Signal, Fatal, Main, SendShutdown, ReceiveShutdown, Terminate, Unit, StartUnit,
                Drained, CloseReader, DrainTimeout
  <2>2. \/ \E main : proc' = [proc EXCEPT !.main = main]
        \/ \E unit : proc' = [proc EXCEPT !.unit = unit]
        \/ \E main, unit : proc' = [proc EXCEPT !.main = main, !.unit = unit]
        \/ \E code : proc' = [proc EXCEPT !.exit = code]
    BY <1>2, ZenonT(30) DEF Signal, Fatal, Main, SendShutdown, ReceiveShutdown, Terminate, Unit,
                StartUnit, Drained, CloseReader, DrainTimeout
  <2>3. DOMAIN proc' = DOMAIN proc /\ proc'.mode = proc.mode
    BY <2>2 DEF SessionsServed
  <2> QED BY <2>1, <2>3
<1>3. CASE Background
  BY <1>3 DEF Background, ServeApplications, RunScheduledJobs, Consume, PopJob, Take, Handle,
              ProduceHealthcheck, PingValkey, ConsumeBeat, HealthCheckInterval
<1>4. CASE AnswerLists
  <2>1. Answering => UNCHANGED db
    BY DEF Answering, Parse, FindPrimary, Count, Select, SelectFixed, NextPage, LastPage
  <2> QED BY <1>4, <2>1 DEF AnswerLists
<1>5. CASE AnswerQuery
  <2>1. Resolving => UNCHANGED db
    BY DEF Resolving, Resolve, Respond
  <2> QED BY <1>5, <2>1 DEF AnswerQuery
<1>6. CASE OtherProcesses
  BY <1>6 DEF OtherProcesses
<1> QED BY <1>1, <1>2, <1>3, <1>4, <1>5, <1>6 DEF NextProcess, Requested

\* Others insert and delete rows there may be.
LEMMA RowsStay ==
    ASSUME SessionsServed, RowsThere, [NextProcess]_processVars
    PROVE  RowsThere'
<1>1. UNCHANGED db \/ Changes
  BY AnswersStep DEF Elsewhere, Meanwhile
<1> QED BY <1>1, ChangesFacts DEF RowsThere

\* The invariants of sessions and queries hold together.
LEMMA AnswersKeep ==
    ASSUME AnswersInv, MatchesFinite, MatchesFinite', [NextProcess]_processVars
    PROVE  AnswersInv'
<1>1. /\ DOMAIN proc' = DOMAIN proc /\ proc'.mode = proc.mode
      /\ \/ UNCHANGED <<db, session, gql>>
         \/ Answering /\ UNCHANGED <<db, gql>> /\ proc.mode = "lists"
         \/ Elsewhere /\ UNCHANGED gql /\ proc.mode = "lists"
         \/ Resolving /\ UNCHANGED <<db, session>>
         \/ Meanwhile /\ UNCHANGED session /\ proc.mode = "graphql"
  BY AnswersStep DEF AnswersInv
<1>2. UNCHANGED db \/ Changes
  BY <1>1 DEF Elsewhere, Meanwhile
<1>3. RowsThere'
  BY RowsStay DEF AnswersInv
<1>4. SessionsServed'
  BY <1>1 DEF AnswersInv, SessionsServed
<1>5. QueryInv'
  BY <1>1, <1>2, QuerySteps DEF AnswersInv
<1>6. SessionInv'
  <2>1. CASE Answering \/ Elsewhere \/ UNCHANGED <<db, session>>
    BY <2>1, SessionSteps DEF AnswersInv
  <2>2. CASE UNCHANGED session /\ proc.mode = "graphql"
    <3>1. session'.step = "done" /\ session' = session
      BY <2>2 DEF AnswersInv, SessionsServed
    <3>2. SessionOK' /\ ShownOK'
      BY ZenonT(30), <2>2 DEF AnswersInv, SessionInv, SessionOK, ShownOK, Theirs
    <3>3. CountedOK'
      BY <3>1 DEF AnswersInv, SessionInv, CountedOK
    <3> QED BY <3>2, <3>3 DEF SessionInv
  <2> QED BY <1>1, <2>1, <2>2
<1> QED BY <1>3, <1>4, <1>5, <1>6 DEF AnswersInv

\* Whatever is asked for and however many rows there are: what a list, a get or
\* a GraphQL query shows is of the tenant and of the user; a page is as long as
\* was counted, unless a row went in between; and what the resolvers of a query
\* share is loaded once, after the sources are known, and complete (List* of
\* the data access objects, the handlers, RequestData).
THEOREM QueriesSafe == SpecProcess => []QueriesInv
<1>1. InitProcess => AnswersInv
  BY AnswersStart
<1>2. RowsThere => MatchesFinite
  BY RowsThereFinite
<1>3. AnswersInv => RowsThere
  BY DEF AnswersInv
<1>4. AnswersInv /\ [NextProcess]_processVars => RowsThere'
  BY RowsStay DEF AnswersInv
<1>5. AnswersInv /\ MatchesFinite /\ MatchesFinite' /\ [NextProcess]_processVars => AnswersInv'
  BY AnswersKeep
<1>6. AnswersInv => QueriesInv
  BY SessionSays, QuerySays DEF AnswersInv, QueriesInv
<1> QED BY <1>1, <1>2, <1>3, <1>4, <1>5, <1>6, PTL DEF SpecProcess

-----------------------------------------------------------------------------
(* The order of a list, and the pages of one.                               *)

\* A set of numbers has a least one.
LEMMA LeastNumber ==
    ASSUME NEW S \in SUBSET Nat, S # {}
    PROVE  \E n \in S : \A k \in S : n <= k
<1> DEFINE T == {1..n : n \in S}
<1>1. T \subseteq FiniteSubsetsOf(Nat) /\ T # {}
  <2>1. \A n \in S : 1..n \subseteq Nat /\ IsFiniteSet(1..n)
    BY FS_Interval
  <2> QED BY <2>1 DEF FiniteSubsetsOf
<1>2. PICK m \in T : \A U \in T : ~(<<U, m>> \in StrictSubsetOrdering(Nat))
  <2> HIDE DEF T
  <2> QED BY <1>1, FS_StrictSubsetOrderingWellFounded, WFMin
<1>3. PICK n \in S : m = 1..n
  BY <1>2
<1>4. ASSUME NEW k \in S, k < n PROVE FALSE
  <2>1. 1..k \subseteq 1..n /\ n \in 1..n /\ n \notin 1..k /\ 1..n \subseteq Nat
    BY <1>4, SMT
  <2>2. <<1..k, m>> \in StrictSubsetOrdering(Nat)
    BY <2>1, <1>3 DEF StrictSubsetOrdering
  <2> QED BY <2>2, <1>2
<1>5. \A k \in S : n <= k BY <1>4
<1> QED BY <1>5

\* The order of a list of one page after the other.
Order(q) == IF q.handler \in Internal THEN Sorting(q) \o <<"id">> ELSE Sorting(q)

\* It tells all rows apart.
Ordered(q) ==
    \/ q.sort = <<>> \/ "id" \in {q.sort[i] : i \in DOMAIN q.sort}
    \/ q.handler \in Internal

\* Rows that come neither before nor after each other have the same values.
LEMMA SameValues ==
    ASSUME NEW x, NEW y, NEW s, Len(s) \in Nat, NotAfter(x, y, s), NotAfter(y, x, s),
           \A i \in 1..Len(s) : ValueOf(x, s[i]) \in Int /\ ValueOf(y, s[i]) \in Int
    PROVE  \A i \in 1..Len(s) : ValueOf(x, s[i]) = ValueOf(y, s[i])
<1> DEFINE Bad == {i \in 1..Len(s) : ValueOf(x, s[i]) # ValueOf(y, s[i])}
<1> SUFFICES ASSUME Bad # {} PROVE FALSE
  OBVIOUS
<1>1. PICK k \in Bad : \A i \in Bad : k <= i
  <2>1. Bad \in SUBSET Nat OBVIOUS
  <2> HIDE DEF Bad
  <2> QED BY <2>1, LeastNumber
<1>2. k \in 1..Len(s) /\ ValueOf(x, s[k]) # ValueOf(y, s[k]) BY <1>1
<1>3. \A j \in 1..(k - 1) : ValueOf(x, s[j]) = ValueOf(y, s[j])
  <2> SUFFICES ASSUME NEW j \in 1..(k - 1) PROVE j \notin Bad
    BY <1>2
  <2>1. ~(k <= j) BY <1>2
  <2> HIDE DEF Bad
  <2> QED BY <1>1, <2>1
<1>4. ValueOf(x, s[k]) <= ValueOf(y, s[k]) BY <1>2, <1>3 DEF NotAfter
<1>5. ValueOf(y, s[k]) <= ValueOf(x, s[k]) BY <1>2, <1>3 DEF NotAfter
<1>6. ValueOf(x, s[k]) \in Int /\ ValueOf(y, s[k]) \in Int BY <1>2
<1> QED BY <1>2, <1>4, <1>5, <1>6

\* The order a list is asked for in holds the id, and only columns it allows.
LEMMA OrderFacts ==
    ASSUME NEW q, q.handler \in PagedLists, q.handler \in Handlers, q.sort \in Seq(STRING),
           Ordered(q)
    PROVE  /\ Conditions(q).sort = Order(q)
           /\ Len(Order(q)) \in Nat
           /\ \E i \in 1..Len(Order(q)) : Order(q)[i] = "id"
           /\ ~Refused(q) => \A i \in 1..Len(Order(q)) :
                Order(q)[i] \in {"id", "name", "type_id", "source_id"}
<1>1. /\ Listing(q).paging \in {"asked", "ordered"}
      /\ Listing(q).paging = "ordered" <=> q.handler \in Internal
  BY PagingFacts
<1>2. Conditions(q).sort = Order(q)
  <2> DEFINE l == Listing(q)
             f == {Parsed(g) : g \in q.filters}
             c == [[filters |-> f, sort |-> Sorting(q)] EXCEPT
                     !.filters = @ \cup l.more,
                     !.sort = IF l.paging = "ordered" THEN @ \o <<"id">> ELSE @]
  <2>1. Conditions(q) = c BY <1>1 DEF Conditions, SortAndFilter
  <2>2. c.sort = IF l.paging = "ordered" THEN Sorting(q) \o <<"id">> ELSE Sorting(q)
    <3> HIDE DEF l, f
    <3> QED OBVIOUS
  <2> QED BY <1>1, <2>1, <2>2 DEF Order
<1> DEFINE S == STRING \cup {"id"}
<1>0. <<"id">> \in Seq(S) /\ q.sort \in Seq(S)
  <2>1. \A T, e : e \in T => <<e>> \in Seq(T) OBVIOUS
  <2>2. \A T, U, t : T \subseteq U /\ t \in Seq(T) => t \in Seq(U) OBVIOUS
  <2> QED BY <2>1, <2>2, Zenon
<1> HIDE DEF S
<1>3. Sorting(q) \in Seq(S) /\ Len(Sorting(q)) \in Nat
  <2>1. Sorting(q) \in Seq(S) BY <1>0, Zenon DEF Sorting
  <2> QED BY <2>1
<1>4. Order(q) \in Seq(S) /\ Len(Order(q)) \in Nat
  <2>1. \A T : \A t, u \in Seq(T) : t \o u \in Seq(T) OBVIOUS
  <2>2. Sorting(q) \o <<"id">> \in Seq(S) BY <1>0, <1>3, <2>1, Zenon
  <2>3. Order(q) \in Seq(S) BY <1>3, <2>2, Zenon DEF Order
  <2> QED BY <2>3
<1>5. \E i \in 1..Len(Order(q)) : Order(q)[i] = "id"
  <2>1. CASE q.handler \in Internal
    <3> DEFINE n == Len(Sorting(q))
               t == Sorting(q) \o <<"id">>
    <3>1. Len(t) = n + 1 /\ t[n + 1] = "id" BY <1>3
    <3>2. n + 1 \in 1..Len(t) BY <1>3, <3>1
    <3> QED BY <2>1, <3>1, <3>2 DEF Order
  <2>2. CASE q.handler \notin Internal /\ q.sort = <<>>
    <3>1. Order(q) = <<"id">> BY <2>2 DEF Order, Sorting
    <3>2. Len(<<"id">>) = 1 /\ <<"id">>[1] = "id" OBVIOUS
    <3> QED BY <3>1, <3>2
  <2>3. CASE q.handler \notin Internal /\ q.sort # <<>>
    <3>1. Order(q) = q.sort /\ DOMAIN q.sort = 1..Len(q.sort) BY <2>3 DEF Order, Sorting
    <3>2. "id" \in {q.sort[i] : i \in DOMAIN q.sort} BY <2>3 DEF Ordered
    <3> QED BY <3>1, <3>2
  <2> QED BY <2>1, <2>2, <2>3
<1>6. ASSUME ~Refused(q), NEW i \in 1..Len(Order(q))
      PROVE  Order(q)[i] \in {"id", "name", "type_id", "source_id"}
  <2>1. DOMAIN Order(q) = 1..Len(Order(q)) BY <1>4
  <2>2. ~BadSort(Listing(q).table, Order(q)[i]) BY <1>2, <1>6, <2>1 DEF Refused
  <2> QED BY <2>2 DEF BadSort, Allowed, Columns
<1> QED BY <1>2, <1>4, <1>5, <1>6

\* The rows of a list are of one table.
LEMMA OneTable ==
    ASSUME NEW q, q.handler \in PagedLists
    PROVE  \E t : Listing(q).rows \subseteq In(t)
<1>1. /\ \A t : Visible(t, q) \subseteq In(t)
      /\ \A t : OfTenant(t, q) \subseteq In(t)
  BY DEF Visible, OfTenant, In
<1>2. q.handler \in {"SourceList", "SourceTypeListSource", "ApplicationTypeListSource",
         "RhcConnectionSourcesList"}
      => Listing(q).rows \subseteq In("sources")
  <2>1. SourcesOfConnection(q) \subseteq In("sources") BY DEF SourcesOfConnection
  <2> QED BY <1>1, <2>1, Dispatch, HandledFacts, NarrowingFacts, WithinFacts
     DEF SourceList, SourceTypeListSource, ApplicationTypeListSource, RhcConnectionSourcesList,
         SourcesListed, SourcesOfSourceType, SourcesOfApplicationType
<1>3. q.handler = "InternalSourceList" => Listing(q).rows \subseteq In("sources")
  <2> DEFINE Linked(s)  == OfSource(In("source_rhc_connections"), s.id) # {}
             Checked(s) == \E a \in OfSource(In("applications"), s.id) : a.type # CostType
             listed     == {s \in In("sources") : q.skip => Linked(s) \/ Checked(s)}
  <2>1. InternalSources(q) = All("sources", listed)
    BY Zenon DEF InternalSources
  <2>2. listed \subseteq In("sources")
    OBVIOUS
  <2> HIDE DEF listed
  <2>3. Handled(InternalSources(q), {}, "ordered").rows = InternalSources(q).rows
    BY HandledFacts
  <2> QED BY <2>1, <2>2, <2>3, Dispatch, WithinFacts DEF InternalSourceList
<1>4. q.handler \in {"ApplicationList", "SourceListApplications"}
      => Listing(q).rows \subseteq In("applications")
  BY <1>1, Dispatch, HandledFacts, NarrowingFacts, WithinFacts
     DEF ApplicationList, SourceListApplications, ApplicationsListed, ApplicationsOfSource
<1>5. q.handler \in {"SourceListApplicationTypes", "ApplicationTypeList"}
      => Listing(q).rows \subseteq In("application_types")
  <2>1. Enabled(TypesThroughApplications(In("application_types"), q))
          \subseteq In("application_types")
    BY NarrowingFacts DEF Enabled
  <2> QED BY <2>1, Dispatch, HandledFacts, NarrowingFacts, WithinFacts
     DEF SourceListApplicationTypes, ApplicationTypeList, ApplicationTypesOfSource,
         ApplicationTypesListed
<1>6. q.handler \in {"SourceListEndpoint", "EndpointList"}
      => Listing(q).rows \subseteq In("endpoints")
  BY <1>1, Dispatch, HandledFacts, NarrowingFacts, WithinFacts
     DEF SourceListEndpoint, EndpointList, EndpointsOfSource, EndpointsListed
<1>7. q.handler \in {"EndpointListAuthentications", "AuthenticationList"}
      => Listing(q).rows \subseteq In("authentications")
  <2>1. /\ AuthenticationsOfEndpoint(q).rows \subseteq In("authentications")
        /\ AuthenticationsListed(q).rows \subseteq In("authentications")
    BY <1>1, NarrowingFacts, WithinFacts
       DEF AuthenticationsOfEndpoint, AuthenticationsOf, AuthenticationsListed
  <2> QED BY <2>1, Dispatch, HandledFacts DEF EndpointListAuthentications, AuthenticationList
<1>8. q.handler = "ApplicationAuthenticationList"
      => Listing(q).rows \subseteq In("application_authentications")
  BY <1>1, Dispatch, HandledFacts, NarrowingFacts, WithinFacts
     DEF ApplicationAuthenticationList, AssociationsListed
<1>9. q.handler \in {"SourcesRhcConnectionList", "RhcConnectionList"}
      => Listing(q).rows \subseteq In("rhc_connections")
  <2>1. /\ Connected(q) \subseteq In("rhc_connections")
        /\ ConnectionsOfSource(q) \subseteq In("rhc_connections")
    BY DEF Connected, ConnectionsOfSource
  <2> QED BY <2>1, Dispatch, HandledFacts, WithinFacts
     DEF SourcesRhcConnectionList, RhcConnectionList, ConnectionsListed
<1>10. q.handler \in {"MetaDataList", "ApplicationTypeListMetaData"}
       => Listing(q).rows \subseteq In("meta_data")
  <2>1. /\ MetaDataListed(q).rows \subseteq In("meta_data")
        /\ MetaDataOfType(q).rows \subseteq In("meta_data")
    BY NarrowingFacts, WithinFacts DEF MetaDataListed, MetaDataOfType
  <2> QED BY <2>1, Dispatch, HandledFacts DEF MetaDataList, ApplicationTypeListMetaData
<1>11. q.handler = "SourceTypeList" => Listing(q).rows \subseteq In("source_types")
  BY Dispatch, HandledFacts, WithinFacts DEF SourceTypeList, SourceTypesListed
<1>12. q.handler = "SecretList" => Listing(q).rows \subseteq In("authentications")
  <2>1. SecretsOf(q) \subseteq In("authentications") BY <1>1 DEF SecretsOf
  <2> QED BY <2>1, Dispatch, HandledFacts, WithinFacts DEF SecretList, SecretsListed
<1> QED BY <1>2, <1>3, <1>4, <1>5, <1>6, <1>7, <1>8, <1>9, <1>10, <1>11, <1>12 DEF PagedLists

\* Two rows of an ordered list do not come before each other.
LEMMA OrderStrict ==
    ASSUME NEW q, q.handler \in PagedLists, q.handler \in Handlers, q.sort \in Seq(STRING),
           Ordered(q), db \subseteq AllRows, NEW x \in Matching(q), NEW y \in Matching(q),
           NotAfter(x, y, Order(q)), NotAfter(y, x, Order(q))
    PROVE  x = y
<1> DEFINE s == Order(q)
<1>1. ~Refused(q) BY DEF Matching
<1>2. /\ Len(s) \in Nat /\ \E i \in 1..Len(s) : s[i] = "id"
      /\ \A i \in 1..Len(s) : s[i] \in {"id", "name", "type_id", "source_id"}
  BY <1>1, OrderFacts
<1>3. x \in Listing(q).rows /\ y \in Listing(q).rows /\ x \in AllRows /\ y \in AllRows
  BY MatchingFacts
<1>4. x.table = y.table
  BY <1>3, OneTable DEF In
<1>5. \A z \in {x, y} : z.id \in Int /\ z.name \in Int /\ z.type \in Int /\ z.source \in Int
  BY <1>3, RowsAssumption
<1> HIDE DEF s
<1>6. \A i \in 1..Len(s) : ValueOf(x, s[i]) \in Int /\ ValueOf(y, s[i]) \in Int
  <2> SUFFICES ASSUME NEW i \in 1..Len(s)
               PROVE  ValueOf(x, s[i]) \in Int /\ ValueOf(y, s[i]) \in Int
    OBVIOUS
  <2>1. \A z : \A c \in {"id", "name", "type_id", "source_id"} :
          ValueOf(z, c) \in {z.id, z.name, z.type, z.source}
    BY DEF ValueOf
  <2>2. s[i] \in {"id", "name", "type_id", "source_id"} BY <1>2
  <2> QED BY <1>5, <2>1, <2>2
<1>7. \A i \in 1..Len(s) : ValueOf(x, s[i]) = ValueOf(y, s[i])
  BY <1>2, <1>6, SameValues DEF s
<1>8. x.id = y.id
  <2>1. \A z : ValueOf(z, "id") = z.id BY DEF ValueOf
  <2> QED BY <1>2, <1>7, <2>1
<1> QED BY <1>3, <1>4, <1>8, RowsAssumption

-----------------------------------------------------------------------------
(* A walk through the pages.                                                *)

\* Sizes of unions and differences.
LEMMA Sizes ==
    ASSUME NEW D, IsFiniteSet(D)
    PROVE  /\ \A S \in SUBSET D : IsFiniteSet(S) /\ Cardinality(S) \in Nat
           /\ \A S, T \in SUBSET D : S \subseteq T => Cardinality(S) <= Cardinality(T)
           /\ \A S, T \in SUBSET D : Cardinality(S \cup T) <= Cardinality(S) + Cardinality(T)
           /\ \A S, T \in SUBSET D : S \cap T = {} =>
                Cardinality(S \cup T) = Cardinality(S) + Cardinality(T)
           /\ \A S, T \in SUBSET D :
                Cardinality(S) = Cardinality(S \cap T) + Cardinality(S \ T)
<1>1. \A S \in SUBSET D : IsFiniteSet(S) /\ Cardinality(S) \in Nat
  BY FS_Subset, FS_CardinalityType
<1>2. \A S, T \in SUBSET D : S \subseteq T => Cardinality(S) <= Cardinality(T)
  BY <1>1, FS_Subset
<1>3. \A S, T \in SUBSET D :
        Cardinality(S \cup T) = Cardinality(S) + Cardinality(T) - Cardinality(S \cap T)
  BY <1>1, FS_Union
<1>4. \A S, T \in SUBSET D : Cardinality(S \cap T) \in Nat
  <2>1. \A S, T \in SUBSET D : S \cap T \in SUBSET D OBVIOUS
  <2> QED BY <1>1, <2>1
<1>5. ASSUME NEW S \in SUBSET D, NEW T \in SUBSET D
      PROVE  /\ Cardinality(S \cup T) <= Cardinality(S) + Cardinality(T)
             /\ S \cap T = {} => Cardinality(S \cup T) = Cardinality(S) + Cardinality(T)
  <2> DEFINE s == Cardinality(S)
             t == Cardinality(T)
             u == Cardinality(S \cup T)
             i == Cardinality(S \cap T)
  <2>1. u = s + t - i BY <1>3
  <2>2. s \in Nat /\ t \in Nat /\ i \in Nat BY <1>1, <1>4
  <2>3. S \cap T = {} => i = 0 BY FS_EmptySet
  <2> HIDE DEF s, t, u, i
  <2>4. u <= s + t /\ (i = 0 => u = s + t) BY <2>1, <2>2
  <2>5. S \cap T = {} => u = s + t BY <2>3, <2>4
  <2> QED BY <2>4, <2>5 DEF s, t, u, i
<1>6. \A S, T \in SUBSET D : S \cap T = {} =>
        Cardinality(S \cup T) = Cardinality(S) + Cardinality(T)
  BY <1>5
<1>7. \A S, T \in SUBSET D : Cardinality(S) = Cardinality(S \cap T) + Cardinality(S \ T)
  <2> SUFFICES ASSUME NEW S \in SUBSET D, NEW T \in SUBSET D
               PROVE  Cardinality(S) = Cardinality(S \cap T) + Cardinality(S \ T)
    OBVIOUS
  <2>1. /\ S \cap T \in SUBSET D /\ S \ T \in SUBSET D /\ (S \cap T) \cap (S \ T) = {}
        /\ (S \cap T) \cup (S \ T) = S
    OBVIOUS
  <2>2. Cardinality((S \cap T) \cup (S \ T)) = Cardinality(S \cap T) + Cardinality(S \ T)
    BY <1>6, <2>1, Zenon
  <2> QED BY <2>1, <2>2, Zenon
<1> QED BY <1>1, <1>2, <1>5, <1>6, <1>7

\* The rows of a set come before all others of a list.
First(part, rows, s) == \A x \in part, y \in rows \ part : NotAfter(x, y, s)

\* No two rows come before each other.
Strict(rows, s) == \A x, y \in rows : NotAfter(x, y, s) /\ NotAfter(y, x, s) => x = y

\* Rows that began to match and come before some of those already passed; and
\* rows that were passed once, and are still to come, or again.
Early(passed, rows, s) == {x \in rows \ passed : \E y \in passed : NotAfter(x, y, s)}

Behind(passed, rows, seen, s) == (seen \cap (rows \ passed)) \ Early(passed, rows, s)

(* A page begins where the last one ended. If it skips a row that was not   *)
(* seen, then as many of those that were passed have gone.                  *)
LEMMA SkippedFacts ==
    ASSUME NEW D, IsFiniteSet(D), NEW passed \in SUBSET D, NEW rows \in SUBSET D,
           NEW unseen \in SUBSET rows, NEW before \in SUBSET rows, NEW s, NEW left \in Nat,
           Strict(rows, s), First(before, rows, s),
           \A x \in unseen \ passed, y \in passed : NotAfter(y, x, s),
           Cardinality(before) <= Cardinality(passed),
           Cardinality(unseen \cap passed) + Cardinality(passed \ rows) <= left
    PROVE  Cardinality(unseen \cap before) <= left
<1>0. /\ unseen \in SUBSET D /\ before \in SUBSET D /\ unseen \cap before \in SUBSET D
      /\ unseen \cap passed \in SUBSET D /\ passed \ rows \in SUBSET D
      /\ before \ passed \in SUBSET D /\ before \cap passed \in SUBSET D
      /\ passed \cap rows \in SUBSET D
  OBVIOUS
<1>1. /\ Cardinality(unseen \cap before) \in Nat /\ Cardinality(unseen \cap passed) \in Nat
      /\ Cardinality(passed \ rows) \in Nat /\ Cardinality(before \ passed) \in Nat
      /\ Cardinality(before \cap passed) \in Nat /\ Cardinality(passed \cap rows) \in Nat
  BY <1>0, Sizes
<1>2. CASE unseen \cap before \subseteq passed
  <2>1. unseen \cap before \subseteq unseen \cap passed BY <1>2
  <2>2. Cardinality(unseen \cap before) <= Cardinality(unseen \cap passed)
    BY <1>0, <2>1, Sizes
  <2> QED BY <1>1, <2>2
<1>3. CASE ~(unseen \cap before \subseteq passed)
  <2>1. PICK x \in unseen \cap before : x \notin passed BY <1>3
  <2>2. passed \cap rows \subseteq before
    <3> SUFFICES ASSUME NEW y \in passed \cap rows, y \notin before PROVE FALSE
      OBVIOUS
    <3>1. NotAfter(x, y, s) BY <2>1 DEF First
    <3>2. NotAfter(y, x, s) BY <2>1
    <3> QED BY <2>1, <3>1, <3>2 DEF Strict
  <2>3. before \cap passed = passed \cap rows BY <2>2
  <2>4. /\ Cardinality(before) = Cardinality(before \cap passed) + Cardinality(before \ passed)
        /\ Cardinality(passed) = Cardinality(passed \cap rows) + Cardinality(passed \ rows)
    <3>1. /\ before \in SUBSET D /\ passed \in SUBSET D /\ rows \in SUBSET D
          /\ \A S, T \in SUBSET D :
               Cardinality(S) = Cardinality(S \cap T) + Cardinality(S \ T)
      BY <1>0, Sizes, Zenon
    <3> QED BY <3>1, Zenon
  <2>5. Cardinality(before \ passed) <= Cardinality(passed \ rows)
    <3> DEFINE b == Cardinality(before)
               p == Cardinality(passed)
               i == Cardinality(before \cap passed)
               d == Cardinality(before \ passed)
               g == Cardinality(passed \ rows)
    <3>1. b <= p /\ b = i + d /\ p = i + g BY <2>3, <2>4
    <3>2. i \in Nat /\ d \in Nat /\ g \in Nat BY <1>1
    <3> HIDE DEF b, p, i, d, g
    <3>3. d <= g BY <3>1, <3>2
    <3> QED BY <3>3 DEF d, g
  <2>6. unseen \cap before \subseteq (unseen \cap passed) \cup (before \ passed) OBVIOUS
  <2>7. (unseen \cap passed) \cup (before \ passed) \in SUBSET D BY <1>0
  <2>8. Cardinality(unseen \cap before) <=
          Cardinality((unseen \cap passed) \cup (before \ passed))
    BY <1>0, <2>6, <2>7, Sizes
  <2>9. Cardinality((unseen \cap passed) \cup (before \ passed)) <=
          Cardinality(unseen \cap passed) + Cardinality(before \ passed)
    BY <1>0, Sizes
  <2>10. Cardinality((unseen \cap passed) \cup (before \ passed)) \in Nat
    BY <2>7, Sizes
  <2> QED BY <1>1, <2>5, <2>8, <2>9, <2>10
<1> QED BY <1>2, <1>3

(* If it holds rows that were seen, or they are still to come, then as many *)
(* have come before those that were passed.                                 *)
LEMMA RepeatedFacts ==
    ASSUME NEW D, IsFiniteSet(D), NEW passed \in SUBSET D, NEW rows \in SUBSET D,
           NEW seen \in SUBSET D, NEW twice \in SUBSET D, NEW before \in SUBSET rows, NEW s,
           NEW came \in Nat, First(before, rows, s),
           Cardinality(before) = Cardinality(passed) \/ before = rows,
           Cardinality(twice \cup Behind(passed, rows, seen, s))
             + Cardinality(Early(passed, rows, s)) <= came
    PROVE  Cardinality(twice \cup (seen \cap (rows \ before))) <= came
<1> DEFINE early == Early(passed, rows, s)
           behind == Behind(passed, rows, seen, s)
           again == (passed \cap rows) \ before
<1>0. /\ early \in SUBSET D /\ behind \in SUBSET D /\ again \in SUBSET D
      /\ before \in SUBSET D /\ before \ passed \in SUBSET D /\ passed \ before \in SUBSET D
      /\ early \ before \in SUBSET D /\ early \cap before \in SUBSET D
      /\ before \cap passed \in SUBSET D /\ passed \cap before \in SUBSET D
  BY DEF Early, Behind
<1>1. before \cap passed = passed \cap before OBVIOUS
<1>2. /\ Cardinality(early) \in Nat /\ Cardinality(again) \in Nat
      /\ Cardinality(before \ passed) \in Nat /\ Cardinality(passed \ before) \in Nat
      /\ Cardinality(early \ before) \in Nat /\ Cardinality(early \cap before) \in Nat
      /\ Cardinality(before \cap passed) \in Nat
  <2> HIDE DEF early, again
  <2> QED BY <1>0, Sizes
<1>3. Cardinality(again) <= Cardinality(early \cap before)
  <2>1. CASE again = {}
    <3>1. Cardinality(again) = 0 BY <2>1, FS_EmptySet
    <3> HIDE DEF again, early
    <3> QED BY <1>2, <3>1
  <2>2. CASE again # {}
    <3>1. PICK y \in again : TRUE BY <2>2
    <3>2. before \ passed \subseteq early \cap before
      <4> SUFFICES ASSUME NEW z \in before \ passed PROVE z \in early
        OBVIOUS
      <4>1. NotAfter(z, y, s) BY <3>1 DEF First
      <4> QED BY <3>1, <4>1 DEF Early
    <3>3. Cardinality(before) = Cardinality(passed) BY <3>1
    <3>4. /\ Cardinality(before) = Cardinality(before \cap passed) + Cardinality(before \ passed)
          /\ Cardinality(passed) = Cardinality(passed \cap before) + Cardinality(passed \ before)
      <4>1. /\ before \in SUBSET D /\ passed \in SUBSET D
            /\ \A S, T \in SUBSET D :
                 Cardinality(S) = Cardinality(S \cap T) + Cardinality(S \ T)
        BY <1>0, Sizes, Zenon
      <4> QED BY <4>1, Zenon
    <3>5. Cardinality(before \ passed) = Cardinality(passed \ before)
      <4> DEFINE b == Cardinality(before)
                 p == Cardinality(passed)
                 i == Cardinality(before \cap passed)
                 d == Cardinality(before \ passed)
                 g == Cardinality(passed \ before)
      <4>1. b = p /\ b = i + d BY <3>3, <3>4
      <4>2. p = i + g BY <1>1, <3>4
      <4>3. i \in Nat /\ d \in Nat /\ g \in Nat BY <1>2
      <4>4. b \in Nat /\ p \in Nat BY <4>1, <4>2, <4>3
      <4>5. \A c, j, k, l \in Nat : c = j + k /\ c = j + l => k = l
        OBVIOUS
      <4> HIDE DEF b, p, i, d, g
      <4>6. d = g BY <4>1, <4>2, <4>3, <4>4, <4>5, Zenon
      <4> QED BY <4>6 DEF d, g
    <3>6. again \subseteq passed \ before OBVIOUS
    <3>7. /\ Cardinality(again) <= Cardinality(passed \ before)
          /\ Cardinality(before \ passed) <= Cardinality(early \cap before)
      <4> HIDE DEF again, early
      <4> QED BY <1>0, <3>2, <3>6, Sizes
    <3> HIDE DEF again, early
    <3> QED BY <1>2, <3>5, <3>7
  <2> QED BY <2>1, <2>2
<1>4. twice \cup (seen \cap (rows \ before)) \subseteq
        ((twice \cup behind) \cup again) \cup (early \ before)
  BY DEF Behind
<1> HIDE DEF early, behind, again
<1> DEFINE a == twice \cup behind
           b == a \cup again
           c == b \cup (early \ before)
           t == twice \cup (seen \cap (rows \ before))
<1>5. a \in SUBSET D /\ b \in SUBSET D /\ c \in SUBSET D /\ t \in SUBSET D BY <1>0
<1>6. t \subseteq c BY <1>4
<1> HIDE DEF t
<1>7. /\ Cardinality(b) <= Cardinality(a) + Cardinality(again)
      /\ Cardinality(c) <= Cardinality(b) + Cardinality(early \ before)
  BY <1>0, <1>5, Sizes
<1>8. Cardinality(early) = Cardinality(early \cap before) + Cardinality(early \ before)
  BY <1>0, Sizes
<1>9. Cardinality(a) + Cardinality(early) <= came BY DEF early, behind
<1> HIDE DEF a, b, c
<1>10. Cardinality(t) <= Cardinality(c) BY <1>5, <1>6, Sizes
<1>11. Cardinality(a) \in Nat /\ Cardinality(b) \in Nat /\ Cardinality(c) \in Nat
       /\ Cardinality(t) \in Nat
  BY <1>5, Sizes
<1>12. Cardinality(t) <= came BY <1>2, <1>3, <1>7, <1>8, <1>9, <1>10, <1>11
<1> QED BY <1>12 DEF t

\* Where a page begins and ends.
PageAfter(before, page, rows, s, limit, offset) ==
    /\ page \in SUBSET rows /\ before \cap page = {}
    /\ First(before, rows, s) /\ First(before \cup page, rows, s)
    /\ Cardinality(before) <= offset
    /\ Cardinality(before) = offset \/ before = rows
    /\ Cardinality(page) \in Nat /\ Cardinality(page) <= limit
    /\ Cardinality(page) = limit => Cardinality(before \cup page) = offset + limit
    /\ Cardinality(page) < limit => rows \subseteq before \cup page

LEMMA PageFacts ==
    ASSUME NEW rows, IsFiniteSet(rows), NEW s, NEW limit \in Nat, limit # 0, NEW offset \in Nat,
           NEW page \in Pages(rows, s, limit, offset)
    PROVE  \E before \in SUBSET rows : PageAfter(before, page, rows, s, limit, offset)
<1> DEFINE n    == Cardinality(rows)
           skip == IF offset < n THEN offset ELSE n
           size == IF skip + limit < n THEN limit ELSE n - skip
<1>1. page \in SUBSET rows /\ Cardinality(page) = size
  BY DEF Pages
<1>2. PICK before \in SUBSET (rows \ page) :
        /\ Cardinality(before) = skip
        /\ First(before, rows, s) /\ First(before \cup page, rows, s)
  BY Zenon DEF Pages, First
<1>3. before \in SUBSET rows /\ before \cap page = {} /\ before \cup page \in SUBSET rows
  BY <1>1
<1> DEFINE b == Cardinality(before)
           p == Cardinality(page)
           u == Cardinality(before \cup page)
<1>4. n \in Nat /\ b \in Nat /\ p \in Nat /\ u \in Nat /\ u = b + p
  <2>1. \A S \in SUBSET rows : Cardinality(S) \in Nat BY Sizes
  <2>2. \A S, T \in SUBSET rows : S \cap T = {} =>
          Cardinality(S \cup T) = Cardinality(S) + Cardinality(T)
    BY Sizes
  <2>3. rows \in SUBSET rows OBVIOUS
  <2> QED BY <1>1, <1>3, <2>1, <2>2, <2>3, Zenon
<1>5. \A S \in SUBSET rows : Cardinality(S) = n => S = rows
  BY FS_Subset
<1>6. b = skip /\ p = size BY <1>1, <1>2
<1>7. /\ b <= offset /\ (b = offset \/ b = n) /\ p <= limit
      /\ p = limit => u = offset + limit
      /\ p < limit => u = n
  <2> HIDE DEF n, b, p, u
  <2> QED BY <1>4, <1>6
<1>8. b = offset \/ before = rows BY <1>3, <1>5, <1>7
<1>9. p < limit => rows \subseteq before \cup page BY <1>3, <1>5, <1>7
<1> QED BY <1>1, <1>2, <1>3, <1>4, <1>7, <1>8, <1>9 DEF PageAfter

(* A client that has followed the pages past the rows of a set. Of those it *)
(* has never seen, none that is left comes before them, and at most as many *)
(* were among them as have gone; and what it has seen or may see again, at  *)
(* most as many as have come.                                               *)
Walked(passed, rows, always, seen, twice, left, came, s) ==
    /\ passed \in SUBSET AllRows /\ always \in SUBSET rows
    /\ seen \in SUBSET AllRows /\ twice \in SUBSET AllRows
    /\ \A x \in (always \ seen) \ passed, y \in passed : NotAfter(y, x, s)
    /\ Cardinality((always \ seen) \cap passed) + Cardinality(passed \ rows) <= left
    /\ Cardinality(twice \cup Behind(passed, rows, seen, s))
         + Cardinality(Early(passed, rows, s)) <= came

\* Rows come and go.
LEMMA WalkedChanges ==
    ASSUME NEW rows \in SUBSET AllRows, NEW after \in SUBSET AllRows, NEW passed,
           NEW always, NEW seen, NEW twice, NEW s, NEW left \in Nat, NEW came \in Nat,
           Walked(passed, rows, always, seen, twice, left, came, s)
    PROVE  Walked(passed, after, always \cap after, seen, twice,
                  left + Cardinality(rows \ after), came + Cardinality(after \ rows), s)
<1>0. IsFiniteSet(AllRows) BY RowsAssumption
<1>1. /\ passed \in SUBSET AllRows /\ always \in SUBSET rows
      /\ seen \in SUBSET AllRows /\ twice \in SUBSET AllRows
  BY DEF Walked
<1>2. \A x \in ((always \cap after) \ seen) \ passed, y \in passed : NotAfter(y, x, s)
  BY DEF Walked
<1>3. /\ \A S \in SUBSET AllRows : Cardinality(S) \in Nat
      /\ \A S, T \in SUBSET AllRows : S \subseteq T => Cardinality(S) <= Cardinality(T)
      /\ \A S, T \in SUBSET AllRows :
           Cardinality(S \cup T) <= Cardinality(S) + Cardinality(T)
      /\ \A S, T \in SUBSET AllRows :
           Cardinality(S) = Cardinality(S \cap T) + Cardinality(S \ T)
  <2> QED BY <1>0, Sizes
<1>4. Cardinality(((always \cap after) \ seen) \cap passed) + Cardinality(passed \ after)
        <= left + Cardinality(rows \ after)
  <2> DEFINE A == (always \ seen) \cap passed
             B == ((always \cap after) \ seen) \cap passed
             C == passed \ rows
             E == passed \ after
             G == rows \ after
  <2>1. /\ A \in SUBSET AllRows /\ B \in SUBSET AllRows /\ C \in SUBSET AllRows
        /\ E \in SUBSET AllRows /\ G \in SUBSET AllRows /\ C \cup G \in SUBSET AllRows
        /\ B \subseteq A /\ E \subseteq C \cup G
    BY <1>1
  <2>2. Cardinality(A) + Cardinality(C) <= left BY DEF Walked
  <2> HIDE DEF A, B, C, E, G
  <2>3. /\ Cardinality(B) <= Cardinality(A) /\ Cardinality(E) <= Cardinality(C \cup G)
        /\ Cardinality(C \cup G) <= Cardinality(C) + Cardinality(G)
    BY <1>3, <2>1
  <2>4. /\ Cardinality(A) \in Nat /\ Cardinality(B) \in Nat /\ Cardinality(C) \in Nat
        /\ Cardinality(E) \in Nat /\ Cardinality(G) \in Nat /\ Cardinality(C \cup G) \in Nat
    BY <1>3, <2>1
  <2>5. Cardinality(B) + Cardinality(E) <= left + Cardinality(G) BY <2>2, <2>3, <2>4
  <2> QED BY <2>5 DEF B, E, G
<1>5. Cardinality(twice \cup Behind(passed, after, seen, s))
        + Cardinality(Early(passed, after, s)) <= came + Cardinality(after \ rows)
  <2> DEFINE P  == {x \in AllRows \ passed : \E y \in passed : NotAfter(x, y, s)}
             A  == twice \cup Behind(passed, rows, seen, s)
             B  == twice \cup Behind(passed, after, seen, s)
             C  == Early(passed, rows, s)
             E  == Early(passed, after, s)
             G  == after \ rows
             G1 == G \cap P
             G2 == G \ P
  <2>1. /\ A \in SUBSET AllRows /\ B \in SUBSET AllRows /\ C \in SUBSET AllRows
        /\ E \in SUBSET AllRows /\ G \in SUBSET AllRows /\ P \in SUBSET AllRows
        /\ C \cup G1 \in SUBSET AllRows /\ A \cup G2 \in SUBSET AllRows
        /\ G1 \in SUBSET AllRows /\ G2 \in SUBSET AllRows
    BY <1>1 DEF Behind, Early
  <2>2. E \subseteq C \cup G1 BY <1>1 DEF Early
  <2>3. B \subseteq A \cup G2 BY <1>1 DEF Early, Behind
  <2>4. Cardinality(A) + Cardinality(C) <= came BY DEF Walked
  <2> HIDE DEF A, B, C, E, G, P
  <2>5. Cardinality(G) = Cardinality(G1) + Cardinality(G2)
    BY <1>3, <2>1
  <2> HIDE DEF G1, G2
  <2>6. /\ Cardinality(E) <= Cardinality(C \cup G1)
        /\ Cardinality(C \cup G1) <= Cardinality(C) + Cardinality(G1)
        /\ Cardinality(B) <= Cardinality(A \cup G2)
        /\ Cardinality(A \cup G2) <= Cardinality(A) + Cardinality(G2)
    BY <1>3, <2>1, <2>2, <2>3
  <2>7. /\ Cardinality(A) \in Nat /\ Cardinality(B) \in Nat /\ Cardinality(C) \in Nat
        /\ Cardinality(E) \in Nat /\ Cardinality(G) \in Nat /\ Cardinality(C \cup G1) \in Nat
        /\ Cardinality(A \cup G2) \in Nat /\ Cardinality(G1) \in Nat /\ Cardinality(G2) \in Nat
    BY <1>3, <2>1
  <2>8. Cardinality(B) + Cardinality(E) <= came + Cardinality(G)
    BY <2>4, <2>5, <2>6, <2>7
  <2> QED BY <2>8 DEF B, E, G
<1>6. always \cap after \in SUBSET after OBVIOUS
<1> QED BY <1>1, <1>2, <1>4, <1>5, <1>6 DEF Walked

\* A page is answered.
LEMMA WalkedPage ==
    ASSUME NEW rows \in SUBSET AllRows, NEW passed, NEW always, NEW seen, NEW twice, NEW s,
           NEW left \in Nat, NEW came \in Nat,
           Walked(passed, rows, always, seen, twice, left, came, s), Strict(rows, s),
           NEW before \in SUBSET rows, NEW page \in SUBSET rows, before \cap page = {},
           First(before, rows, s), First(before \cup page, rows, s),
           Cardinality(before) <= Cardinality(passed),
           Cardinality(before) = Cardinality(passed) \/ before = rows
    PROVE  Walked(before \cup page, rows, always, seen \cup page, twice \cup (seen \cap page),
                  left, came, s)
<1>0. IsFiniteSet(AllRows) BY RowsAssumption
<1> DEFINE unseen == always \ seen
           all    == before \cup page
           seen1  == seen \cup page
           twice1 == twice \cup (seen \cap page)
<1>1. /\ passed \in SUBSET AllRows /\ always \in SUBSET rows /\ unseen \in SUBSET rows
      /\ seen \in SUBSET AllRows /\ twice \in SUBSET AllRows
      /\ all \in SUBSET AllRows /\ seen1 \in SUBSET AllRows /\ twice1 \in SUBSET AllRows
  BY DEF Walked
<1>2. \A x \in (always \ seen1) \ all, y \in all : NotAfter(y, x, s)
  BY <1>1 DEF First
<1>3. Cardinality((always \ seen1) \cap all) + Cardinality(all \ rows) <= left
  <2>1. Cardinality(unseen \cap before) <= left
    <3>1. /\ \A x \in unseen \ passed, y \in passed : NotAfter(y, x, s)
          /\ Cardinality(unseen \cap passed) + Cardinality(passed \ rows) <= left
      BY DEF Walked
    <3> HIDE DEF unseen
    <3> QED BY <1>0, <1>1, <3>1, SkippedFacts
  <2>2. (always \ seen1) \cap all = unseen \cap before OBVIOUS
  <2>3. all \ rows = {} OBVIOUS
  <2>4. Cardinality(all \ rows) = 0 BY <2>3, FS_EmptySet
  <2>5. Cardinality(unseen \cap before) \in Nat BY <1>0, <1>1, Sizes
  <2> DEFINE c == Cardinality(unseen \cap before)
  <2>6. c + 0 <= left
    <3> HIDE DEF c
    <3> QED BY <2>1, <2>5 DEF c
  <2> QED BY <2>2, <2>4, <2>6
<1>4. Cardinality(twice1 \cup Behind(all, rows, seen1, s)) + Cardinality(Early(all, rows, s))
        <= came
  <2>1. Early(all, rows, s) = {}
    <3> SUFFICES ASSUME NEW x \in rows \ all, NEW y \in all, NotAfter(x, y, s) PROVE FALSE
      BY DEF Early
    <3>1. NotAfter(y, x, s) BY DEF First
    <3> QED BY <3>1 DEF Strict
  <2>2. twice1 \cup Behind(all, rows, seen1, s) = twice \cup (seen \cap (rows \ before))
    BY <2>1 DEF Behind
  <2>3. Cardinality(twice \cup (seen \cap (rows \ before))) <= came
    <3>1. Cardinality(twice \cup Behind(passed, rows, seen, s))
            + Cardinality(Early(passed, rows, s)) <= came
      BY DEF Walked
    <3> QED BY <1>0, <1>1, <3>1, RepeatedFacts
  <2>4. Cardinality(Early(all, rows, s)) = 0 BY <2>1, FS_EmptySet
  <2>5. twice \cup (seen \cap (rows \ before)) \in SUBSET AllRows BY <1>1
  <2>6. Cardinality(twice \cup (seen \cap (rows \ before))) \in Nat BY <1>0, <2>5, Sizes
  <2> DEFINE c == Cardinality(twice \cup (seen \cap (rows \ before)))
  <2>7. c + 0 <= came
    <3> HIDE DEF c
    <3> QED BY <2>3, <2>6 DEF c
  <2> QED BY <2>2, <2>4, <2>7
<1> QED BY <1>1, <1>2, <1>3, <1>4 DEF Walked

\* All but the page.
Alike(r, q) ==
    /\ r.handler = q.handler /\ r.tenant = q.tenant /\ r.user = q.user /\ r.id = q.id
    /\ r.filters = q.filters /\ r.sort = q.sort /\ r.cert = q.cert /\ r.skip = q.skip

\* Which rows match does not depend on the page.
LEMMA AnyPage ==
    ASSUME NEW q, NEW r, Alike(r, q)
    PROVE  Matching(r) = Matching(q) /\ Order(r) = Order(q) /\ (Ordered(r) <=> Ordered(q))
<1>0. /\ r.handler = q.handler /\ r.tenant = q.tenant /\ r.user = q.user /\ r.id = q.id
      /\ r.filters = q.filters /\ r.sort = q.sort /\ r.cert = q.cert /\ r.skip = q.skip
  BY DEF Alike
<1>1. /\ \A t : Visible(t, r) = Visible(t, q)
      /\ \A t : OfTenant(t, r) = OfTenant(t, q)
  BY <1>0 DEF Visible, OfTenant
<1>2. /\ \A rows : TypesThroughApplications(rows, r) = TypesThroughApplications(rows, q)
      /\ \A rows : SourcesThroughApplications(rows, r) = SourcesThroughApplications(rows, q)
  BY <1>0, <1>1 DEF TypesThroughApplications, SourcesThroughApplications
<1>3. /\ \A t : PrimaryExists(t, r) = PrimaryExists(t, q)
      /\ \A t : Exists(t, r) = Exists(t, q)
      /\ \A t, rows : One(t, rows, r) = One(t, rows, q)
  <2>1. \A t : PrimaryExists(t, r) = PrimaryExists(t, q)
    BY <1>0, <1>1 DEF PrimaryExists
  <2>2. \A t : Exists(t, r) = Exists(t, q)
    BY <1>0, <1>1 DEF Exists
  <2>3. \A t, rows : One(t, rows, r) = One(t, rows, q)
    BY <1>0 DEF One
  <2> QED BY <2>1, <2>2, <2>3
<1>4. SourcesOfConnection(r) = SourcesOfConnection(q)
  BY <1>0, <1>1 DEF SourcesOfConnection
<1>5. Connected(r) = Connected(q) /\ ConnectionsOfSource(r) = ConnectionsOfSource(q)
  BY <1>0, <1>1 DEF Connected, ConnectionsOfSource
<1>6. SecretsOf(r) = SecretsOf(q)
  BY <1>1 DEF SecretsOf
<1>7. InternalSources(r) = InternalSources(q)
  BY <1>0, Zenon DEF InternalSources
<1>8. AuthenticationOfAssociation(r) = AuthenticationOfAssociation(q)
  <2> DEFINE Named(rows, links) == {x \in rows : \E l \in links : x.id = l.of[2]}
  <2>1. \A k \in {q, r} : AuthenticationOfAssociation(k) =
          LET named == Named(Visible("authentications", k),
                             WithId(Visible("application_authentications", k), k.id))
          IN  Within(named # {}, "authentications", named)
    BY Zenon DEF AuthenticationOfAssociation
  <2> HIDE DEF Named
  <2> QED BY <1>0, <1>1, <2>1
<1>9. \A n, t : AuthenticationsOf(n, t, r) = AuthenticationsOf(n, t, q)
  <2> DEFINE Of(rows, n, id) == {x \in rows : x.of = <<n, id>>}
  <2>1. \A k, n, t : AuthenticationsOf(n, t, k) =
          Within(Exists(t, k), "authentications", Of(Visible("authentications", k), n, k.id))
    BY Zenon DEF AuthenticationsOf
  <2> HIDE DEF Of
  <2> QED BY <1>0, <1>1, <1>3, <2>1
<1>10. /\ SourcesListed(r) = SourcesListed(q)
       /\ SourcesOfSourceType(r) = SourcesOfSourceType(q)
       /\ SourcesOfApplicationType(r) = SourcesOfApplicationType(q)
       /\ SourceById(r) = SourceById(q)
       /\ ApplicationsListed(r) = ApplicationsListed(q)
       /\ ApplicationsOfSource(r) = ApplicationsOfSource(q)
       /\ ApplicationById(r) = ApplicationById(q)
       /\ ApplicationTypesListed(r) = ApplicationTypesListed(q)
       /\ ApplicationTypesOfSource(r) = ApplicationTypesOfSource(q)
       /\ ApplicationTypeById(r) = ApplicationTypeById(q)
       /\ EndpointsListed(r) = EndpointsListed(q)
       /\ EndpointsOfSource(r) = EndpointsOfSource(q)
       /\ EndpointById(r) = EndpointById(q)
  BY <1>0, <1>1, <1>2, <1>3, Zenon DEF SourcesListed, SourcesOfSourceType,
     SourcesOfApplicationType, SourceById, ApplicationsListed, ApplicationsOfSource,
     ApplicationById, ApplicationTypesListed, ApplicationTypesOfSource, ApplicationTypeById,
     EndpointsListed, EndpointsOfSource, EndpointById
<1>11. /\ AuthenticationsListed(r) = AuthenticationsListed(q)
       /\ AuthenticationById(r) = AuthenticationById(q)
       /\ AuthenticationsOfSource(r) = AuthenticationsOfSource(q)
       /\ AuthenticationsOfApplication(r) = AuthenticationsOfApplication(q)
       /\ AuthenticationsOfEndpoint(r) = AuthenticationsOfEndpoint(q)
       /\ AssociationsListed(r) = AssociationsListed(q)
       /\ AssociationById(r) = AssociationById(q)
       /\ ConnectionsListed(r) = ConnectionsListed(q)
       /\ ConnectionById(r) = ConnectionById(q)
       /\ MetaDataListed(r) = MetaDataListed(q)
       /\ MetaDataOfType(r) = MetaDataOfType(q)
       /\ MetaDataById(r) = MetaDataById(q)
       /\ SourceTypesListed(r) = SourceTypesListed(q)
       /\ SourceTypeById(r) = SourceTypeById(q)
       /\ SecretsListed(r) = SecretsListed(q)
       /\ SecretById(r) = SecretById(q)
  BY <1>0, <1>1, <1>3, <1>5, <1>6, <1>9, Zenon DEF AuthenticationsListed, AuthenticationById,
     AuthenticationsOfSource, AuthenticationsOfApplication, AuthenticationsOfEndpoint,
     AssociationsListed, AssociationById, ConnectionsListed, ConnectionById, MetaDataListed,
     MetaDataOfType, MetaDataById, SourceTypesListed, SourceTypeById, SecretsListed, SecretById
<1>12. Listing(r) = Listing(q)
  BY <1>0, <1>4, <1>5, <1>7, <1>8, <1>10, <1>11, Zenon DEF Listing, SourceList, SourceGet,
     SourceListAuthentications, SourceTypeListSource, ApplicationTypeListSource,
     SourcesRhcConnectionList, InternalSourceList, InternalAuthenticationGet,
     ApplicationList, ApplicationGet, ApplicationListAuthentications,
     SourceListApplications, SourceListApplicationTypes, ApplicationTypeList,
     ApplicationTypeGet, SourceListEndpoint, EndpointList, EndpointGet,
     EndpointListAuthentications, AuthenticationList, AuthenticationGet,
     ApplicationAuthenticationList, ApplicationAuthenticationGet,
     ApplicationAuthenticationListAuthentications, RhcConnectionList,
     RhcConnectionGetById, RhcConnectionSourcesList, MetaDataList,
     ApplicationTypeListMetaData, MetaDataGet, SourceTypeList, SourceTypeGet,
     SecretList, SecretGet, InternalSecretGet
<1>13. Sorting(r) = Sorting(q) BY <1>0 DEF Sorting
<1>14. Conditions(r) = Conditions(q)
  BY <1>0, <1>12, <1>13, Zenon DEF Conditions, SortAndFilter
<1>15. Refused(r) = Refused(q)
  BY <1>12, <1>14, Zenon DEF Refused
<1>16. Matching(r) = Matching(q)
  BY <1>12, <1>14, <1>15, Zenon DEF Matching
<1>17. Order(r) = Order(q) /\ (Ordered(r) <=> Ordered(q))
  BY <1>0, <1>13, Zenon DEF Order, Ordered
<1> QED BY <1>16, <1>17

-----------------------------------------------------------------------------
(* The pages of a session.                                                  *)

\* What a list of pages matches is strictly ordered.
LEMMA MatchingStrict ==
    ASSUME NEW q, q.handler \in PagedLists, q.handler \in Handlers, q.sort \in Seq(STRING),
           Ordered(q), RowsThere
    PROVE  Matching(q) \in SUBSET AllRows /\ Strict(Matching(q), Order(q))
BY MatchingFacts, OrderStrict DEF RowsThere, Strict

TallyOK ==
    /\ session.q.sort \in Seq(STRING) /\ session.left \in Nat /\ session.came \in Nat
    /\ session.step \in {"primary", "count", "select", "answered"}
         /\ session.q.handler \in PagedLists
       => session.q.limit >= 1 /\ session.q.offset >= 0

\* A client that follows a list from its start, in an order.
Tracked ==
    session.from = 0 /\ Ordered(session.q) /\ session.q.handler \in PagedLists

\* The next page begins after the rows it has passed; a short page is the end.
PassedBy(passed, s) ==
    /\ s.step # "answered" => Cardinality(passed) = s.q.offset
    /\ s.step = "answered" =>
         /\ Cardinality(s.page) \in Nat /\ Cardinality(s.page) <= s.q.limit
         /\ Cardinality(s.page) = s.q.limit => Cardinality(passed) = s.q.offset + s.q.limit
         /\ Cardinality(s.page) < s.q.limit => s.always \ s.seen \subseteq passed

WalkedBy(passed, rows, s) ==
    Walked(passed, rows, s.always, s.seen, s.twice, s.left, s.came, Order(s.q))

Counts(s) ==
    /\ Cardinality(s.always \ s.seen) <= s.left
    /\ Cardinality(s.twice) <= s.came

OnTheWay ==
    \E passed \in SUBSET AllRows :
       WalkedBy(passed, Matching(session.q), session) /\ PassedBy(passed, session)

PageInv ==
    /\ TallyOK
    /\ Tracked =>
         /\ session.step # "done" => OnTheWay
         /\ session.step = "done" /\ session.status = "200" => Counts(session)

\* The invariant is strong enough.
LEMMA PagesSay == SessionInv /\ PageInv => PagesComplete
<1> SUFFICES ASSUME SessionInv, PageInv, session.step = "done", session.status = "200",
                    session.from = 0, Listing(session.q).paging \in {"asked", "ordered"},
                    Ordered(session.q)
             PROVE  Counts(session)
  BY DEF PagesComplete, Ordered, Counts
<1>1. session.q.handler \in PagedLists
  BY PagingFacts DEF SessionInv, SessionOK
<1> QED BY <1>1 DEF PageInv, Tracked

\* What a step leaves alone.
SameClient ==
    /\ session'.q = session.q /\ session'.from = session.from
    /\ session'.always = session.always /\ session'.seen = session.seen
    /\ session'.twice = session.twice /\ session'.left = session.left
    /\ session'.came = session.came /\ session'.page = session.page

\* A step without rows.
LEMMA QuietKeeps ==
    ASSUME SessionInv, PageInv, UNCHANGED db, SameClient,
           \/ session'.step = session.step /\ session'.status = session.status
           \/ session'.step = "done" /\ session'.status # "200"
           \/ /\ session.step \notin {"answered", "done"}
              /\ session'.step \in {"primary", "count", "select"}
              /\ session.q.handler \in PagedLists =>
                   session.q.limit >= 1 /\ session.q.offset >= 0
    PROVE  PageInv'
<1> PICK q \in {session.q} : TRUE
  OBVIOUS
<1>1. Matching(q)' = Matching(q)
  BY SameRows
<1>2. session.q = q /\ session'.q = q BY DEF SameClient
<1>3. Matching(session.q)' = Matching(session.q) BY <1>1, <1>2
<1>4. TallyOK' BY DEF PageInv, TallyOK, SameClient
<1>5. Tracked' <=> Tracked BY <1>2, Zenon DEF Tracked, SameClient
<1>6. CASE session'.step = session.step /\ session'.status = session.status
  <2>1. \A passed : /\ WalkedBy(passed, Matching(session.q)', session')
                         <=> WalkedBy(passed, Matching(session.q), session)
                    /\ PassedBy(passed, session') <=> PassedBy(passed, session)
    BY <1>3, <1>6 DEF WalkedBy, PassedBy, SameClient
  <2>2. OnTheWay' <=> OnTheWay BY <2>1, Zenon DEF OnTheWay
  <2>3. Counts(session') <=> Counts(session) BY DEF Counts, SameClient
  <2>4. Counts(session)' <=> Counts(session') BY DEF Counts
  <2> QED BY <1>4, <1>5, <1>6, <2>2, <2>3, <2>4 DEF PageInv
<1>7. CASE session'.step = "done" /\ session'.status # "200"
  BY <1>4, <1>7 DEF PageInv
<1>8. CASE session.step \notin {"answered", "done"}
             /\ session'.step \in {"primary", "count", "select"}
  <2>1. \A passed : /\ WalkedBy(passed, Matching(session.q)', session')
                         <=> WalkedBy(passed, Matching(session.q), session)
                    /\ PassedBy(passed, session') <=> PassedBy(passed, session)
    BY <1>3, <1>8 DEF WalkedBy, PassedBy, SameClient
  <2>2. OnTheWay' <=> OnTheWay BY <2>1, Zenon DEF OnTheWay
  <2> QED BY <1>4, <1>5, <1>8, <2>2 DEF PageInv
<1> QED BY <1>6, <1>7, <1>8

\* A response without rows; then one lemma for each step of a session.
LEMMA EndQuiet ==
    ASSUME SessionInv, NEW status, End(status)
    PROVE  SameClient /\ session'.step = "done" /\ session'.status = status
BY DEF SessionInv, SessionOK, End, SameClient

LEMMA ParsePages == ASSUME SessionInv, PageInv, Parse PROVE PageInv'
<1>1. session.q.handler \in PagedLists <=> Listing(session.q).paging \in {"asked", "ordered"}
  BY PagingFacts DEF SessionInv, SessionOK
<1>2. CASE End("400")
  BY <1>2, EndQuiet, QuietKeeps DEF Parse
<1>3. CASE session' = [session EXCEPT !.step = "primary"]
             /\ ~(session.q.handler \in PagedLists /\ BadPage(session.q))
  <2>1. SameClient /\ session'.step = "primary"
    BY <1>3 DEF SessionInv, SessionOK, SameClient
  <2>2. session.q.handler \in PagedLists => session.q.limit >= 1 /\ session.q.offset >= 0
    <3> SUFFICES ASSUME session.q.handler \in PagedLists
                 PROVE  session.q.limit >= 1 /\ session.q.offset >= 0
      OBVIOUS
    <3>1. ~(session.q.limit < 1 \/ session.q.offset < 0) BY <1>3 DEF BadPage
    <3>2. session.q.limit \in Int /\ session.q.offset \in Int BY DEF SessionInv, SessionOK
    <3> QED BY <3>1, <3>2
  <2> QED BY <2>1, <2>2, QuietKeeps DEF Parse
<1> QED BY <1>1, <1>2, <1>3, Zenon DEF Parse

LEMMA FindPrimaryPages == ASSUME SessionInv, PageInv, FindPrimary PROVE PageInv'
<1>1. session.q.handler \in PagedLists <=> Listing(session.q).paging \in {"asked", "ordered"}
  BY PagingFacts DEF SessionInv, SessionOK
<1>2. session.step = "primary" /\ UNCHANGED db
  BY DEF FindPrimary
<1>3. CASE \E status \in {"400", "404", "500"} : End(status)
  BY <1>2, <1>3, EndQuiet, QuietKeeps
<1>4. CASE session' = [session EXCEPT !.step = "count"]
  <2>1. SameClient /\ session'.step = "count"
    BY <1>4 DEF SessionInv, SessionOK, SameClient
  <2>2. session.q.handler \in PagedLists => session.q.limit >= 1 /\ session.q.offset >= 0
    BY <1>2 DEF PageInv, TallyOK
  <2> QED BY <1>2, <2>1, <2>2, QuietKeeps
<1>5. CASE Listing(session.q).paging = "single"
             /\ session' = [session EXCEPT !.step = "done", !.status = "200",
                              !.page = Listing(session.q).rows, !.seen = Listing(session.q).rows]
  <2>1. session'.q = session.q /\ session'.left = session.left /\ session'.came = session.came
        /\ session'.step = "done"
    BY <1>5 DEF SessionInv, SessionOK
  <2>2. session.q.handler \notin PagedLists BY <1>1, <1>5
  <2> QED BY <2>1, <2>2 DEF PageInv, TallyOK, Tracked
<1>6. RefusedStatus(session.q) \in {"400", "500"} BY Zenon DEF RefusedStatus
<1> QED BY <1>3, <1>4, <1>5, <1>6, Zenon DEF FindPrimary

LEMMA CountPages == ASSUME SessionInv, PageInv, Count PROVE PageInv'
<1>1. SameClient /\ session'.step = "select"
  BY DEF Count, SessionInv, SessionOK, SameClient
<1>2. session.q.handler \in PagedLists => session.q.limit >= 1 /\ session.q.offset >= 0
  BY DEF Count, PageInv, TallyOK
<1> QED BY <1>1, <1>2, QuietKeeps DEF Count

LEMMA SelectFixedPages == ASSUME SessionInv, PageInv, SelectFixed PROVE PageInv'
<1>1. session.q.handler \notin PagedLists
  BY PagingFacts DEF SessionInv, SessionOK, SelectFixed
<1>2. session'.q = session.q /\ session'.left = session.left /\ session'.came = session.came
  BY DEF SelectFixed, End, Deliver, SessionInv, SessionOK
<1> QED BY <1>1, <1>2 DEF PageInv, TallyOK, Tracked

LEMMA SelectPages == ASSUME SessionInv, PageInv, RowsThere, Select PROVE PageInv'
<1> PICK q \in {session.q} : TRUE
  OBVIOUS
<1>1. /\ q = session.q /\ q.handler \in Handlers /\ q.handler \in PagedLists
      /\ q.limit \in Nat \ {0} /\ q.offset \in Nat /\ session.step = "select"
      /\ q.sort \in Seq(STRING) /\ UNCHANGED db
  <2>1. q = session.q OBVIOUS
  <2>2. q.handler \in Handlers /\ q.limit \in Int /\ q.offset \in Int
    BY <2>1 DEF SessionInv, SessionOK
  <2>3. session.step = "select" /\ Listing(q).paging \in {"asked", "ordered"} /\ UNCHANGED db
    BY <2>1, Zenon DEF Select
  <2>4. q.handler \in PagedLists BY <2>2, <2>3, PagingFacts
  <2>5. q.limit >= 1 /\ q.offset >= 0 /\ q.sort \in Seq(STRING)
    BY <2>1, <2>3, <2>4 DEF PageInv, TallyOK
  <2> QED BY <2>1, <2>2, <2>3, <2>4, <2>5
<1> DEFINE rows == Matching(q)
<1>2. PICK page \in Pages(rows, Conditions(q).sort, q.limit, q.offset) : Deliver(page)
  BY <1>1, Zenon DEF Select
<1>3. /\ session'.q = q /\ session'.from = session.from /\ session'.step = "answered"
      /\ session'.page = page /\ session'.always = session.always
      /\ session'.seen = session.seen \cup page
      /\ session'.twice = session.twice \cup (session.seen \cap page)
      /\ session'.left = session.left /\ session'.came = session.came
  BY <1>1, <1>2 DEF Deliver, SessionInv, SessionOK
<1>4. TallyOK'
  <2>1. q.limit >= 1 /\ q.offset >= 0 BY <1>1
  <2> QED BY <1>1, <1>3, <2>1 DEF PageInv, TallyOK
<1>5. Tracked' <=> Tracked BY <1>1, <1>3 DEF Tracked
<1>6. ASSUME Tracked PROVE OnTheWay'
  <2>1. PICK passed \in SUBSET AllRows :
          WalkedBy(passed, Matching(session.q), session) /\ PassedBy(passed, session)
    BY <1>1, <1>6 DEF PageInv, OnTheWay
  <2>2. rows \in SUBSET AllRows /\ Strict(rows, Order(q)) /\ IsFiniteSet(rows)
    <3>1. Ordered(q) BY <1>1, <1>6 DEF Tracked
    <3> QED BY <1>1, <3>1, MatchingStrict, RowsAssumption, FS_Subset
  <2>3. Conditions(q).sort = Order(q)
    BY <1>1, <1>6, OrderFacts DEF Tracked
  <2>4. Walked(passed, rows, session.always, session.seen, session.twice, session.left,
               session.came, Order(q))
    BY <1>1, <2>1 DEF WalkedBy
  <2>5. Cardinality(passed) = q.offset
    BY <1>1, <2>1 DEF PassedBy
  <2>6. session.left \in Nat /\ session.came \in Nat BY DEF PageInv, TallyOK
  <2> HIDE DEF rows
  <2>7. PICK before \in SUBSET rows :
          PageAfter(before, page, rows, Order(q), q.limit, q.offset)
    <3>1. page \in Pages(rows, Order(q), q.limit, q.offset) BY <1>2, <2>3 DEF rows
    <3>2. q.limit \in Nat /\ q.limit # 0 /\ q.offset \in Nat BY <1>1
    <3> QED BY <2>2, <3>1, <3>2, PageFacts, Zenon
  <2>8. Walked(before \cup page, rows, session.always, session.seen \cup page,
               session.twice \cup (session.seen \cap page), session.left, session.came,
               Order(q))
    <3>1. Cardinality(before) <= Cardinality(passed) BY <2>5, <2>7 DEF PageAfter
    <3>2. Cardinality(before) = Cardinality(passed) \/ before = rows
      BY <2>5, <2>7 DEF PageAfter
    <3>3. /\ page \in SUBSET rows /\ before \cap page = {}
          /\ First(before, rows, Order(q)) /\ First(before \cup page, rows, Order(q))
      BY <2>7 DEF PageAfter
    <3> QED BY <2>2, <2>4, <2>6, <2>7, <3>1, <3>2, <3>3, WalkedPage
  <2>9. WalkedBy(before \cup page, rows, session')
    BY <1>3, <2>8 DEF WalkedBy
  <2>10. session'.always \ session'.seen \subseteq rows
    BY <1>3, <2>4 DEF Walked
  <2>11. PassedBy(before \cup page, session')
    BY <1>3, <2>7, <2>10 DEF PassedBy, PageAfter
  <2>12. before \cup page \in SUBSET AllRows BY <2>2, <2>7 DEF PageAfter
  <2>13. Matching(q)' = rows BY <1>1, SameRows DEF rows
  <2>14. Matching(session.q)' = rows BY <1>3, <2>13
  <2> QED BY <2>9, <2>11, <2>12, <2>14, Zenon DEF OnTheWay
<1> QED BY <1>3, <1>4, <1>5, <1>6 DEF PageInv

LEMMA NextPagePages == ASSUME SessionInv, PageInv, NextPage PROVE PageInv'
<1> PICK q \in {session.q} : TRUE
  OBVIOUS
<1> DEFINE s == [session EXCEPT !.step = "parse"]
<1> PICK r \in {[s.q EXCEPT !.offset = session.q.offset + session.q.limit]} : TRUE
  OBVIOUS
<1>1. /\ session' = [s EXCEPT !.q = r] /\ session.step = "answered" /\ UNCHANGED db
      /\ Cardinality(session.page) = session.q.limit
  BY Zenon DEF NextPage
<1>2. /\ DOMAIN s = DOMAIN session /\ s.q = session.q /\ s.step = "parse"
      /\ s.from = session.from
      /\ s.always = session.always /\ s.seen = session.seen /\ s.twice = session.twice
      /\ s.left = session.left /\ s.came = session.came
  BY DEF SessionInv, SessionOK
<1>3. Alike(r, q) /\ r.offset = q.offset + q.limit /\ r.handler = q.handler /\ r.sort = q.sort
  <2>1. r = [s.q EXCEPT !.offset = session.q.offset + session.q.limit] OBVIOUS
  <2> HIDE DEF s
  <2> QED BY <1>2, <2>1 DEF Alike, SessionInv, SessionOK
<1> HIDE DEF s
<1>4. /\ session'.q = r /\ session'.step = "parse" /\ session'.from = session.from
      /\ session'.always = session.always /\ session'.seen = session.seen
      /\ session'.twice = session.twice
      /\ session'.left = session.left /\ session'.came = session.came
  BY <1>1, <1>2 DEF SessionInv, SessionOK
<1>5. TallyOK' BY <1>3, <1>4 DEF PageInv, TallyOK
<1>6. Order(r) = Order(q) /\ (Ordered(r) <=> Ordered(q)) /\ Matching(r) = Matching(q)
  BY <1>3, AnyPage
<1>7. Tracked' <=> Tracked
  <2>1. q = session.q OBVIOUS
  <2>2. Tracked' <=> session'.from = 0 /\ Ordered(r) /\ r.handler \in PagedLists
    BY <1>4, Zenon DEF Tracked
  <2> QED BY <1>3, <1>4, <1>6, <2>1, <2>2 DEF Tracked
<1>8. Matching(session.q)' = Matching(session.q)
  <2>1. Matching(r)' = Matching(r) BY <1>1, SameRows
  <2>2. Matching(session.q)' = Matching(r)' BY <1>4
  <2> QED BY <1>6, <2>1, <2>2
<1>9. ASSUME Tracked PROVE OnTheWay'
  <2>1. PICK passed \in SUBSET AllRows :
          WalkedBy(passed, Matching(session.q), session) /\ PassedBy(passed, session)
    BY <1>1, <1>9 DEF PageInv, OnTheWay
  <2>2. WalkedBy(passed, Matching(session.q)', session')
    BY <1>4, <1>6, <1>8, <2>1 DEF WalkedBy
  <2>3. PassedBy(passed, session')
    BY <1>1, <1>3, <1>4, <2>1 DEF PassedBy
  <2> QED BY <2>2, <2>3, Zenon DEF OnTheWay
<1> QED BY <1>4, <1>5, <1>7, <1>9 DEF PageInv

LEMMA LastPagePages == ASSUME SessionInv, PageInv, RowsThere, LastPage PROVE PageInv'
<1>1. /\ session.step = "answered" /\ UNCHANGED db /\ End(session.status)
      /\ Listing(session.q).paging = "fixed" \/ Cardinality(session.page) < session.q.limit
  BY DEF LastPage
<1>2. SameClient /\ session'.step = "done" BY <1>1, EndQuiet
<1>3. TallyOK' BY <1>2 DEF PageInv, TallyOK, SameClient
<1>4. Tracked' <=> Tracked BY <1>2, Zenon DEF Tracked, SameClient
<1>5. ASSUME Tracked PROVE Counts(session)
  <2>1. PICK passed \in SUBSET AllRows :
          WalkedBy(passed, Matching(session.q), session) /\ PassedBy(passed, session)
    BY <1>1, <1>5 DEF PageInv, OnTheWay
  <2> DEFINE rows   == Matching(session.q)
             unseen == session.always \ session.seen
             behind == Behind(passed, rows, session.seen, Order(session.q))
             early  == Early(passed, rows, Order(session.q))
  <2>2. Cardinality(session.page) < session.q.limit
    BY <1>1, <1>5, PagingFacts DEF Tracked, SessionInv, SessionOK
  <2>3. unseen \subseteq passed
    BY <1>1, <2>1, <2>2 DEF PassedBy
  <2>4. /\ Cardinality(unseen \cap passed) + Cardinality(passed \ rows) <= session.left
        /\ Cardinality(session.twice \cup behind) + Cardinality(early) <= session.came
        /\ session.twice \in SUBSET AllRows /\ behind \in SUBSET AllRows
        /\ early \in SUBSET AllRows
    <3>1. /\ Cardinality(unseen \cap passed) + Cardinality(passed \ rows) <= session.left
          /\ Cardinality(session.twice \cup behind) + Cardinality(early) <= session.came
          /\ session.twice \in SUBSET AllRows /\ session.seen \in SUBSET AllRows
      BY <2>1 DEF WalkedBy, Walked
    <3>2. rows \in SUBSET AllRows
      BY MatchingFacts DEF RowsThere, SessionInv, SessionOK
    <3> HIDE DEF rows
    <3> QED BY <3>1, <3>2 DEF Behind, Early
  <2>5. unseen \cap passed = unseen BY <2>3
  <2>6. /\ \A S \in SUBSET AllRows : Cardinality(S) \in Nat
        /\ \A S, T \in SUBSET AllRows : S \subseteq T => Cardinality(S) <= Cardinality(T)
    BY RowsAssumption, Sizes
  <2>7. /\ unseen \in SUBSET AllRows /\ passed \ rows \in SUBSET AllRows
        /\ session.twice \cup behind \in SUBSET AllRows
        /\ session.twice \subseteq session.twice \cup behind
    <3> HIDE DEF unseen, rows, behind
    <3> QED BY <2>1, <2>3, <2>4
  <2>8. session.left \in Nat /\ session.came \in Nat BY DEF PageInv, TallyOK
  <2> DEFINE u == Cardinality(unseen)
             g == Cardinality(passed \ rows)
             t == Cardinality(session.twice)
             w == Cardinality(session.twice \cup behind)
             e == Cardinality(early)
  <2>9. /\ u \in Nat /\ g \in Nat /\ t \in Nat /\ w \in Nat /\ e \in Nat
        /\ t <= w
    <3> HIDE DEF unseen, rows, behind, early
    <3> QED BY <2>4, <2>6, <2>7
  <2>10. u + g <= session.left /\ w + e <= session.came
    <3> HIDE DEF unseen, rows, behind, early
    <3> QED BY <2>4, <2>5
  <2>11. u <= session.left /\ t <= session.came
    <3> HIDE DEF u, g, t, w, e
    <3> QED BY <2>8, <2>9, <2>10
  <2> QED BY <2>11 DEF Counts
<1> QED BY <1>2, <1>3, <1>4, <1>5 DEF PageInv, Counts, SameClient

\* Whatever matches is one of the rows there may be.
MatchesThere == \A q : q.handler \in Handlers => Matching(q) \in SUBSET AllRows

LEMMA RowsThereMatch == RowsThere => MatchesThere
BY MatchingFacts DEF RowsThere, MatchesThere

\* Other requests insert and delete.
LEMMA ElsewherePages ==
    ASSUME SessionInv, PageInv, MatchesThere, MatchesThere', Elsewhere
    PROVE  PageInv'
<1>1. PICK q \in {session.q} :
        session' = [session EXCEPT !.always = @ \cap Matching(q)',
                                   !.left = @ + Cardinality(Matching(q) \ Matching(q)'),
                                   !.came = @ + Cardinality(Matching(q)' \ Matching(q)),
                                   !.shrunk = @ \/ Matching(q) \ Matching(q)' # {}]
  BY Zenon DEF Elsewhere
<1>2. /\ q = session.q /\ session'.q = q /\ session'.from = session.from
      /\ session'.step = session.step /\ session'.page = session.page
      /\ session'.seen = session.seen /\ session'.twice = session.twice
      /\ session'.always = session.always \cap Matching(q)'
      /\ session'.left = session.left + Cardinality(Matching(q) \ Matching(q)')
      /\ session'.came = session.came + Cardinality(Matching(q)' \ Matching(q))
  BY <1>1 DEF SessionInv, SessionOK
<1>3. session.step # "done" BY DEF Elsewhere
<1>4. q.handler \in Handlers BY <1>2 DEF SessionInv, SessionOK
<1>5. Matching(q) \in SUBSET AllRows /\ Matching(q)' \in SUBSET AllRows
  BY <1>4 DEF MatchesThere
<1> DEFINE gone == Cardinality(Matching(q) \ Matching(q)')
           new  == Cardinality(Matching(q)' \ Matching(q))
<1>6. gone \in Nat /\ new \in Nat
  <2>1. \A S \in SUBSET AllRows : Cardinality(S) \in Nat BY RowsAssumption, Sizes
  <2>2. /\ Matching(q) \ Matching(q)' \in SUBSET AllRows
        /\ Matching(q)' \ Matching(q) \in SUBSET AllRows
    BY <1>5
  <2> QED BY <2>1, <2>2
<1>7. session.left \in Nat /\ session.came \in Nat BY DEF PageInv, TallyOK
<1>8. TallyOK'
  <2>1. session'.left \in Nat /\ session'.came \in Nat
    <3>1. session'.left = session.left + gone /\ session'.came = session.came + new
      BY <1>2
    <3> HIDE DEF gone, new
    <3> QED BY <1>6, <1>7, <3>1
  <2> QED BY <1>2, <2>1 DEF PageInv, TallyOK
<1>9. Tracked' <=> Tracked BY <1>2, Zenon DEF Tracked
<1>10. ASSUME Tracked PROVE OnTheWay'
  <2>1. PICK passed \in SUBSET AllRows :
          WalkedBy(passed, Matching(session.q), session) /\ PassedBy(passed, session)
    BY <1>3, <1>10 DEF PageInv, OnTheWay
  <2>2. Walked(passed, Matching(q), session.always, session.seen, session.twice,
               session.left, session.came, Order(q))
    BY <1>2, <2>1 DEF WalkedBy
  <2>3. Walked(passed, Matching(q)', session.always \cap Matching(q)', session.seen,
               session.twice, session.left + gone, session.came + new, Order(q))
    BY <1>5, <1>7, <2>2, WalkedChanges
  <2>4. WalkedBy(passed, Matching(q)', session')
    BY <1>2, <2>3, Zenon DEF WalkedBy
  <2>5. PassedBy(passed, session')
    BY <1>2, <2>1 DEF PassedBy
  <2>6. Matching(session.q)' = Matching(q)' BY <1>2
  <2> QED BY <2>4, <2>5, <2>6, Zenon DEF OnTheWay
<1> QED BY <1>2, <1>3, <1>8, <1>9, <1>10 DEF PageInv

\* Every step of a session keeps the invariant of its pages.
LEMMA PageSteps ==
    ASSUME SessionInv, PageInv, RowsThere, MatchesThere, MatchesThere',
           Answering \/ Elsewhere \/ UNCHANGED <<db, session>>
    PROVE  PageInv'
<1>1. CASE UNCHANGED <<db, session>>
  <2>1. SameClient /\ session'.step = session.step /\ session'.status = session.status
    BY <1>1 DEF SameClient
  <2> QED BY <1>1, <2>1, QuietKeeps
<1> QED BY <1>1, ParsePages, FindPrimaryPages, CountPages, SelectPages, SelectFixedPages,
        NextPagePages, LastPagePages, ElsewherePages DEF Answering

\* A client begins with the rows there are, and none of them passed.
LEMMA PagesStart ==
    ASSUME RowsThere, NEW q \in Requests,
           session = Session(q) \/ session = [Session(q) EXCEPT !.step = "done"]
    PROVE  PageInv
<1>1. /\ session.q = q /\ session.from = q.offset /\ session.step \in {"parse", "done"}
      /\ session.status = "" /\ session.seen = {} /\ session.twice = {}
      /\ session.always = Matching(q) /\ session.left = 0 /\ session.came = 0
  <2>1. CASE session = Session(q)
    BY <2>1 DEF Session
  <2>2. CASE session = [Session(q) EXCEPT !.step = "done"]
    <3> DEFINE S == Session(q)
    <3>1. /\ DOMAIN S = {"q", "step", "from", "status", "count", "page", "seen", "twice",
                          "always", "left", "came", "shrunk"}
          /\ S.q = q /\ S.from = q.offset /\ S.status = ""
          /\ S.seen = {} /\ S.twice = {} /\ S.always = Matching(q) /\ S.left = 0
          /\ S.came = 0
      BY DEF Session
    <3>2. session = [S EXCEPT !.step = "done"] BY <2>2
    <3> HIDE DEF S
    <3> QED BY <3>1, <3>2
  <2> QED BY <2>1, <2>2
<1>2. q.handler \in Handlers /\ q.sort \in Seq(STRING) BY RequestsAssumption
<1>3. TallyOK
  <2>1. session.left \in Nat /\ session.came \in Nat
    <3>1. \A n : n = 0 => n \in Nat OBVIOUS
    <3> QED BY <1>1, <3>1, Zenon
  <2>2. session.q.sort \in Seq(STRING) BY <1>1, <1>2
  <2>3. session.step \notin {"primary", "count", "select", "answered"} BY <1>1
  <2> QED BY <2>1, <2>2, <2>3 DEF TallyOK
<1>4. ASSUME Tracked PROVE OnTheWay
  <2>1. Matching(q) \in SUBSET AllRows BY <1>2, MatchingFacts DEF RowsThere
  <2>2. Early({}, Matching(q), Order(q)) = {} BY DEF Early
  <2>3. Behind({}, Matching(q), {}, Order(q)) = {} BY DEF Behind
  <2>4. Cardinality({}) = 0 BY FS_EmptySet
  <2>5. Walked({}, Matching(q), Matching(q), {}, {}, 0, 0, Order(q))
    <3>1. /\ {} \cup Behind({}, Matching(q), {}, Order(q)) = {}
          /\ (Matching(q) \ {}) \cap {} = {} /\ {} \ Matching(q) = {}
      BY <2>3
    <3> QED BY <2>1, <2>2, <2>4, <3>1 DEF Walked
  <2>6. WalkedBy({}, Matching(session.q), session)
    BY <1>1, <2>5, Zenon DEF WalkedBy
  <2>7. PassedBy({}, session)
    BY <1>1, <1>4, <2>4 DEF PassedBy, Tracked
  <2> QED BY <2>6, <2>7 DEF OnTheWay
<1> QED BY <1>1, <1>3, <1>4 DEF PageInv

\* Whatever kind of process starts.
LEMMA PagesBegin == InitProcess => PageInv
<1> SUFFICES ASSUME InitProcess PROVE PageInv
  OBVIOUS
<1>1. PICK mode \in Modes :
        IF mode = "lists" THEN \E q \in Requests : session = Session(q)
        ELSE \E q \in {CHOOSE q \in Requests : TRUE} :
               session = [Session(q) EXCEPT !.step = "done"]
  BY Zenon DEF InitProcess
<1>2. (CHOOSE q \in Requests : TRUE) \in Requests
  BY RequestsAssumption
<1>3. \E q \in Requests : session = Session(q) \/ session = [Session(q) EXCEPT !.step = "done"]
  BY <1>1, <1>2, Zenon
<1>4. RowsThere BY AnswersStart DEF AnswersInv
<1> QED BY <1>3, <1>4, PagesStart

\* Whatever the process does; of a session that is over nothing changes.
LEMMA PagesKeep ==
    ASSUME AnswersInv, PageInv, MatchesThere, MatchesThere', [NextProcess]_processVars
    PROVE  PageInv'
<1>1. \/ Answering \/ Elsewhere \/ UNCHANGED <<db, session>>
      \/ UNCHANGED session /\ session.step = "done"
  BY AnswersStep DEF AnswersInv, SessionsServed
<1>2. CASE Answering \/ Elsewhere \/ UNCHANGED <<db, session>>
  BY <1>2, PageSteps DEF AnswersInv
<1>3. CASE UNCHANGED session /\ session.step = "done"
  <2>1. TallyOK' BY <1>3 DEF PageInv, TallyOK
  <2>2. Tracked' <=> Tracked BY <1>3, Zenon DEF Tracked
  <2>3. Counts(session)' <=> Counts(session) BY <1>3 DEF Counts
  <2> QED BY <1>3, <2>1, <2>2, <2>3 DEF PageInv
<1> QED BY <1>1, <1>2, <1>3

\* Whatever rows there are, however many come and go, however long the pages and
\* in whatever order with an id in it: a client that follows links.last to the
\* end has missed at most as many of the rows that were there all the time as
\* have gone, and seen at most as many twice as have come (parseSorting,
\* getLimitAndOffset, CollectionResponse, List* of the data access objects).
THEOREM PagesSafe == SpecProcess => []PagesComplete
<1>1. InitProcess => AnswersInv /\ PageInv
  BY AnswersStart, PagesBegin
<1>2. RowsThere => MatchesFinite /\ MatchesThere
  BY RowsThereFinite, RowsThereMatch
<1>3. AnswersInv => RowsThere
  BY DEF AnswersInv
<1>4. AnswersInv /\ [NextProcess]_processVars => RowsThere'
  BY RowsStay DEF AnswersInv
<1>5. AnswersInv /\ MatchesFinite /\ MatchesFinite' /\ [NextProcess]_processVars => AnswersInv'
  BY AnswersKeep
<1>6. AnswersInv /\ PageInv /\ MatchesThere /\ MatchesThere' /\ [NextProcess]_processVars
        => PageInv'
  BY PagesKeep
<1>7. AnswersInv /\ PageInv => PagesComplete
  BY PagesSay DEF AnswersInv
<1> QED BY <1>1, <1>2, <1>3, <1>4, <1>5, <1>6, <1>7, PTL DEF SpecProcess
=============================================================================
