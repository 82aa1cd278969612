------------------------- MODULE SuperkeyDestroyProofs -------------------------
(***************************************************************************)
(* The proof that the asynchronous deletion asks the superkey worker for   *)
(* the cloud resources of every settled application before the rows go,    *)
(* for any number of sources, applications, requests and goroutines,       *)
(* provided a page holds all the applications of a source: but for the     *)
(* applications that an error the code swallows has bypassed, of which     *)
(* there are none while nothing fails. What fails for one application      *)
(* never reaches another.                                                  *)
(***************************************************************************)
EXTENDS SuperkeyDestroy, FiniteSetTheorems, TLAPS

(* What the code takes for granted: the first page of applications (100)   *)
(* holds them all.                                                         *)
OnePage ==
    \A s \in Sources : IsFiniteSet(AppsOf(s)) /\ Cardinality(AppsOf(s)) <= ListLimit

(* A job that destroys x is queued or running.                             *)
Pending(x) ==
    \/ \E i \in 1..Len(queue) : queue[i] = AsyncDestroyJob(x)
    \/ \E w \in Workers : run[w] # Idle /\ run[w].job = AsyncDestroyJob(x)

LEMMA PendingMeans ==
    NoDestroyWithoutRequest <=>
        \A a \in Guarded : cloud[a] = "up" => ~Pending(a) /\ ~Pending(SourceOf[a])
BY DEF NoDestroyWithoutRequest, Pending

-----------------------------------------------------------------------------
(* The records of the jobs and of the goroutines that run them.            *)

LEMMA JobFacts ==
    /\ \A x \in Rows : SuperkeyDestroyJob(x) \in Jobs /\ AsyncDestroyJob(x) \in Jobs
    /\ \A x : SuperkeyDestroyJob(x).kind = "superkey" /\ AsyncDestroyJob(x).kind = "destroy"
    /\ \A x : AsyncDestroyJob(x).id = x
    /\ \A j \in Jobs : j.id \in Rows /\ (j.kind = "destroy" => j = AsyncDestroyJob(j.id))
BY DEF Jobs, SuperkeyDestroyJob, AsyncDestroyJob

LEMMA IdleFacts ==
    /\ Idle.phase = "idle"
    /\ \A r \in Running : r.phase \in {"start", "apps"} /\ r # Idle
BY DEF Idle, Running

LEMMA RunningFacts ==
    ASSUME TypeOK, NEW w \in Workers, run[w].phase \in {"start", "apps"}
    PROVE  /\ run[w] \in Running /\ run[w] # Idle
           /\ run[w].job \in Jobs /\ run[w].job.id \in Rows
           /\ run[w].todo \subseteq Apps /\ run[w].failed \in BOOLEAN
<1>1. run[w] \in Running
  BY IdleFacts DEF TypeOK
<1> QED BY <1>1, IdleFacts, JobFacts DEF Running

(* RPUSH adds one job; BLPOP takes the first.                              *)
LEMMA EnqueueFacts ==
    ASSUME TypeOK, NEW j \in Jobs, queue' \in {queue, Append(queue, j)}
    PROVE  /\ queue' \in Seq(Jobs)
           /\ \A i \in 1..Len(queue') : \/ queue'[i] = j
                                        \/ i \in 1..Len(queue) /\ queue'[i] = queue[i]
<1>1. CASE queue' = Append(queue, j)
  BY <1>1 DEF TypeOK
<1>2. CASE queue' = queue
  BY <1>2 DEF TypeOK
<1> QED BY <1>1, <1>2

LEMMA DequeueFacts ==
    ASSUME TypeOK, queue # <<>>
    PROVE  /\ Head(queue) \in Jobs /\ Head(queue) = queue[1] /\ 1 \in 1..Len(queue)
           /\ Tail(queue) \in Seq(Jobs)
           /\ \A i \in 1..Len(Tail(queue)) :
                 i + 1 \in 1..Len(queue) /\ Tail(queue)[i] = queue[i + 1]
BY DEF TypeOK

LEMMA EnqueuePending ==
    ASSUME TypeOK, NEW j \in Jobs, queue' \in {queue, Append(queue, j)}, NEW x, Pending(x)',
           \A w \in Workers : run'[w] = Idle \/ (run[w] # Idle /\ run'[w].job = run[w].job)
    PROVE  Pending(x) \/ j = AsyncDestroyJob(x)
BY EnqueueFacts DEF Pending, AsyncDestroyJob

(* When no job is added, none starts to wait.                              *)
LEMMA SamePending ==
    ASSUME queue' = queue, NEW x, Pending(x)',
           \A w \in Workers : run'[w] = Idle \/ (run[w] # Idle /\ run'[w].job = run[w].job)
    PROVE  Pending(x)
BY DEF Pending, AsyncDestroyJob

-----------------------------------------------------------------------------
(* The invariant but for what only the flags of a failure say.             *)
CoreInv ==
    /\ TypeOK /\ AskedBeforeDeleted /\ NoDestroyWithoutRequest
    /\ KeysOutliveSources /\ JobsAsk
    /\ Prompt => JobsWait

LEMMA InitCore == Init => CoreInv
<1> SUFFICES ASSUME Init PROVE CoreInv
  OBVIOUS
<1> USE DEF Guarded
<1>1. TypeOK
  BY SuperkeyAssumption DEF Init, TypeOK, CloudStates, Rows
<1>2. AskedBeforeDeleted /\ KeysOutliveSources
  BY SuperkeyAssumption DEF Init, AskedBeforeDeleted, KeysOutliveSources, Settled, Rows
<1>3. NoDestroyWithoutRequest
  BY DEF Init, NoDestroyWithoutRequest
<1>4. JobsAsk /\ JobsWait
  BY IdleFacts DEF Init, JobsAsk, Asks, JobsWait, Settled, Starts
<1> QED BY <1>1, <1>2, <1>3, <1>4 DEF CoreInv

(* The requests and the jobs that leave rows and clouds alone.             *)
LEMMA DeleteKeeps ==
    ASSUME CoreInv, NEW x \in Rows, Delete(x)
    PROVE  CoreInv'
<1> USE DEF CoreInv, Guarded
<1>1. /\ Enqueue(SuperkeyDestroyJob(x)) /\ SuperkeyDestroyJob(x) \in Jobs
      /\ UNCHANGED <<live, keys, cloud, run, bypassed>>
  BY JobFacts DEF Delete
<1>2. TypeOK'
  BY <1>1, EnqueueFacts, SuperkeyAssumption DEF Delete, Enqueue, TypeOK
<1>3. \A y : Pending(y)' => Pending(y)
  BY <1>1, EnqueuePending, JobFacts DEF Enqueue
<1>4. NoDestroyWithoutRequest'
  BY <1>1, <1>3, PendingMeans DEF NoDestroyWithoutRequest, Pending
<1> QED BY <1>1, <1>2, <1>4 DEF AskedBeforeDeleted, KeysOutliveSources, JobsAsk, Asks, JobsWait, Starts

LEMMA PopKeeps ==
    ASSUME CoreInv, NEW w \in Workers, Pop(w)
    PROVE  CoreInv'
<1> USE DEF CoreInv, Guarded
<1> DEFINE new == [phase |-> "start", job |-> Head(queue), failed |-> FALSE,
                   todo |-> IF Head(queue).kind = "destroy"
                              THEN {a \in Apps : cloud[a] = "asked"} ELSE {}]
<1>1. /\ run' = [run EXCEPT ![w] = new] /\ queue' = Tail(queue) /\ queue # <<>>
      /\ UNCHANGED <<live, keys, cloud, requests, accepted, bypassed>>
  BY DEF Pop
<1>2. new \in Running
  BY <1>1, DequeueFacts DEF Running
<1>3. /\ new.phase = "start" /\ new.job = Head(queue)
      /\ new.job.kind = "destroy" => new.todo = {a \in Apps : cloud[a] = "asked"}
  OBVIOUS
<1> HIDE DEF new
<1>4. TypeOK'
  BY <1>1, <1>2, DequeueFacts DEF TypeOK
<1>5. run'[w] = new /\ \A v \in Workers \ {w} : run'[v] = run[v]
  BY <1>1 DEF TypeOK
<1>6. ASSUME NEW y, Pending(y)'
      PROVE  Pending(y)
  BY <1>1, <1>3, <1>5, <1>6, DequeueFacts DEF Pending, AsyncDestroyJob
<1>7. NoDestroyWithoutRequest'
  BY <1>1, <1>6, PendingMeans DEF NoDestroyWithoutRequest, Pending
<1>8. JobsAsk'
  BY <1>1, <1>3, <1>5 DEF JobsAsk, Asks
<1>9. Prompt => JobsWait'
  BY <1>1, <1>3, <1>5 DEF JobsWait, Starts, Settled
<1> QED BY <1>1, <1>4, <1>7, <1>8, <1>9 DEF AskedBeforeDeleted, KeysOutliveSources

(* A deletion that asks nobody bypasses every application that goes.       *)
LEMMA DirectlyKeeps ==
    ASSUME CoreInv, NEW x \in Rows, DeleteDirectly(x)
    PROVE  CoreInv'
<1> USE DEF CoreInv, Guarded
<1>1. /\ live' = live \ ({x} \cup AppsOf(x))
      /\ bypassed' = bypassed \cup (Apps \cap ({x} \cup AppsOf(x)))
      /\ UNCHANGED <<keys, cloud, queue, run, accepted>>
  BY DEF DeleteDirectly
<1>2. TypeOK'
  BY <1>1, SuperkeyAssumption DEF DeleteDirectly, TypeOK
<1>3. AskedBeforeDeleted'
  BY <1>1 DEF AskedBeforeDeleted, Settled
<1>4. NoDestroyWithoutRequest'
  BY <1>1 DEF NoDestroyWithoutRequest
<1>5. KeysOutliveSources'
  <2>1. ASSUME NEW a \in live' \cap Apps
        PROVE  SourceOf[a] \in live'
    <3>1. SourceOf[a] \in live /\ SourceOf[a] # x
      BY <1>1, <2>1 DEF KeysOutliveSources, AppsOf
    <3>2. SourceOf[a] \notin AppsOf(x)
      BY <2>1, SuperkeyAssumption DEF AppsOf
    <3> QED BY <1>1, <3>1, <3>2
  <2> QED BY <1>1, <2>1 DEF KeysOutliveSources
<1>6. JobsAsk'
  BY <1>1 DEF JobsAsk, Asks
<1>7. ASSUME Prompt
      PROVE  JobsWait'
  <2>1. ASSUME NEW a \in Settled \ bypassed', cloud[a] = "asked"
        PROVE  SourceOf[a] \in live'
    <3>1. SourceOf[a] \in live /\ SourceOf[a] # x
      BY <1>1, <1>7, <2>1 DEF JobsWait, AppsOf, Settled
    <3>2. SourceOf[a] \notin AppsOf(x)
      BY SuperkeyAssumption DEF AppsOf, Settled
    <3> QED BY <1>1, <3>1, <3>2
  <2> QED BY <1>1, <1>7, <2>1 DEF JobsWait, Starts
<1> QED BY <1>2, <1>3, <1>4, <1>5, <1>6, <1>7

LEMMA AbortKeeps ==
    ASSUME CoreInv, NEW w \in Workers, Abort(w)
    PROVE  CoreInv'
<1> USE DEF CoreInv, Guarded
<1>1. /\ run'[w] = Idle /\ \A v \in Workers \ {w} : run'[v] = run[v]
      /\ UNCHANGED <<live, keys, cloud, queue, requests, accepted, bypassed>>
  BY DEF Abort, TypeOK
<1>2. TypeOK'
  BY DEF Abort, TypeOK
<1>3. NoDestroyWithoutRequest'
  BY <1>1 DEF NoDestroyWithoutRequest
<1>4. JobsAsk' /\ (Prompt => JobsWait')
  BY <1>1, IdleFacts DEF JobsAsk, Asks, JobsWait, Starts
<1> QED BY <1>1, <1>2, <1>3, <1>4 DEF AskedBeforeDeleted, KeysOutliveSources

(* The page holds every application that is there, so every settled one    *)
(* that was not asked for.                                                 *)
LEMMA ListKeeps ==
    ASSUME OnePage, CoreInv, NEW w \in Workers, ListApplications(w)
    PROVE  CoreInv'
<1> USE DEF CoreInv, Guarded
<1> DEFINE x    == run[w].job.id
           here == {a \in AppsOf(x) : Loadable(a)}
<1>1. /\ run[w].phase = "start" /\ run[w].job.kind = "superkey"
      /\ UNCHANGED <<live, keys, cloud, queue, requests, accepted, bypassed>>
  BY DEF ListApplications, Starts
<1>2. run[w] \in Running /\ x \in Rows
  BY <1>1, RunningFacts
<1>3. PICK page \in (IF x \in Apps THEN {{x}} ELSE SUBSET here) :
         /\ x \in Sources => \/ page = here /\ Cardinality(here) <= ListLimit
                             \/ Cardinality(page) = ListLimit
         /\ run' = [run EXCEPT ![w].phase = "apps", ![w].todo = page]
  BY DEF ListApplications
<1>4. x \in Sources => page = here
  <2> SUFFICES ASSUME x \in Sources, Cardinality(page) = ListLimit
               PROVE  page = here
    BY <1>3
  <2>1. page \subseteq here /\ here \subseteq AppsOf(x)
    BY <1>3, SuperkeyAssumption
  <2>2. IsFiniteSet(AppsOf(x)) /\ Cardinality(AppsOf(x)) <= ListLimit
    BY DEF OnePage
  <2>3. page = AppsOf(x)
    <3>1. page \subseteq AppsOf(x)
      BY <2>1
    <3>2. Cardinality(page) <= Cardinality(AppsOf(x)) /\ Cardinality(AppsOf(x)) \in Nat
      BY <2>2, <3>1, FS_Subset, FS_CardinalityType
    <3>3. Cardinality(page) = Cardinality(AppsOf(x))
      BY <2>2, <3>2, SuperkeyAssumption
    <3> QED BY <2>2, <3>1, <3>3, FS_Subset
  <2> QED BY <2>1, <2>3
<1>5. page \subseteq Apps
  BY <1>2, <1>3, <1>4, SuperkeyAssumption DEF AppsOf, Rows
<1>6. /\ run'[w] = [run[w] EXCEPT !.phase = "apps", !.todo = page]
      /\ run' = [run EXCEPT ![w] = run'[w]]
      /\ \A v \in Workers \ {w} : run'[v] = run[v]
  BY <1>3 DEF TypeOK
<1>7. /\ run'[w] \in Running /\ run'[w].phase = "apps" /\ run'[w].job = run[w].job
      /\ run'[w].todo = page
  BY <1>2, <1>5, <1>6 DEF Running
<1>8. TypeOK'
  BY <1>1, <1>6, <1>7 DEF TypeOK
<1>9. \A y : Pending(y)' => Pending(y)
  BY <1>1, <1>2, <1>6, <1>7, IdleFacts, SamePending
<1>10. NoDestroyWithoutRequest'
  BY <1>1, <1>9, PendingMeans DEF NoDestroyWithoutRequest, Pending
<1>11. JobsAsk'
  <2>1. ASSUME NEW a \in Guarded, SourceOf[a] = x, cloud[a] = "up"
        PROVE  a \in page
    <3>1. x \in Sources /\ a \in AppsOf(x) /\ a \in live /\ a \notin UserOwned
      BY <2>1, SuperkeyAssumption DEF Settled, AppsOf, AskedBeforeDeleted
    <3> QED BY <1>4, <3>1 DEF Loadable
  <2>2. Asks(w)'
    BY <1>1, <1>7, <2>1 DEF Asks
  <2>3. \A v \in Workers \ {w} : Asks(v)'
    BY <1>1, <1>6 DEF Asks, JobsAsk
  <2> QED BY <1>1, <2>2, <2>3 DEF Asks, JobsAsk
<1>12. Prompt => JobsWait'
  <2>1. \A v \in Workers : Starts(v, "destroy")' => Starts(v, "destroy") /\ run'[v] = run[v]
    BY <1>6, <1>7 DEF Starts
  <2>2. ASSUME JobsWait PROVE JobsWait'
    BY <1>1, <2>1, <2>2 DEF JobsWait
  <2> QED BY <2>2
<1> QED BY <1>1, <1>8, <1>10, <1>11, <1>12 DEF AskedBeforeDeleted, KeysOutliveSources

-----------------------------------------------------------------------------
(* A job asks for an application: the source it belongs to is there, so    *)
(* its credential is, and from then on the application is not "up".        *)
LEMMA SendKeeps ==
    ASSUME CoreInv, NEW w \in Workers, NEW a \in Apps, SendForApplication(w, a)
    PROVE  CoreInv'
<1> USE DEF CoreInv, Guarded
<1>1. /\ run[w].phase = "apps" /\ a \in run[w].todo
      /\ UNCHANGED <<live, keys, requests, accepted>>
  BY DEF SendForApplication
<1>2. run[w] \in Running
  BY <1>1, RunningFacts
<1>3. CASE /\ run' = [run EXCEPT ![w].todo = @ \ {a}, ![w].failed = TRUE]
           /\ UNCHANGED <<cloud, queue, bypassed>>
  <2>1. /\ run'[w] = [run[w] EXCEPT !.todo = @ \ {a}, !.failed = TRUE]
        /\ run' = [run EXCEPT ![w] = run'[w]]
        /\ \A v \in Workers \ {w} : run'[v] = run[v]
    BY <1>3 DEF TypeOK
  <2>2. /\ run'[w] \in Running /\ run'[w].phase = "apps" /\ run'[w].job = run[w].job
        /\ run'[w].failed = TRUE
    BY <1>1, <1>2, <2>1 DEF Running
  <2>3. TypeOK'
    BY <1>1, <1>3, <2>1, <2>2 DEF TypeOK
  <2>4. \A y : Pending(y)' => Pending(y)
    BY <1>2, <1>3, <2>1, <2>2, IdleFacts, SamePending
  <2>5. NoDestroyWithoutRequest'
    <3>1. ASSUME NEW b \in Guarded', cloud'[b] = "up"
          PROVE  ~Pending(b)' /\ ~Pending(SourceOf[b])'
      <4>1. b \in Guarded /\ cloud[b] = "up"
        BY <1>3, <3>1
      <4> QED BY <2>4, <4>1, PendingMeans
    <3> QED BY <3>1 DEF NoDestroyWithoutRequest, Pending
  <2>6. JobsAsk'
    <3>1. Asks(w)'
      BY <1>1, <1>3, <2>2 DEF JobsAsk, Asks
    <3>2. \A v \in Workers \ {w} : Asks(v)'
      BY <1>3, <2>1 DEF Asks, JobsAsk
    <3> QED BY <1>3, <3>1, <3>2 DEF Asks, JobsAsk
  <2>7. ASSUME Prompt
        PROVE  JobsWait'
    <3>1. \A v \in Workers : Starts(v, "destroy")' => Starts(v, "destroy") /\ run'[v] = run[v]
      BY <2>1, <2>2 DEF Starts
    <3> QED BY <1>1, <1>3, <2>7, <3>1 DEF JobsWait
  <2> QED BY <1>1, <1>3, <2>3, <2>5, <2>6, <2>7 DEF AskedBeforeDeleted, KeysOutliveSources
<1>4. CASE /\ Loadable(a)
           /\ cloud' = IF cloud[a] = "up" /\ SourceOf[a] \in keys
                         THEN [cloud EXCEPT ![a] = "asked"] ELSE cloud
           /\ Enqueue(AsyncDestroyJob(a))
           /\ run' = [run EXCEPT ![w].todo = @ \ {a}]
           /\ UNCHANGED bypassed
  <2>1. /\ run'[w] = [run[w] EXCEPT !.todo = @ \ {a}]
        /\ run' = [run EXCEPT ![w] = run'[w]]
        /\ \A v \in Workers \ {w} : run'[v] = run[v]
    BY <1>4 DEF TypeOK
  <2>2. /\ run'[w] \in Running /\ run'[w].phase = "apps" /\ run'[w].job = run[w].job
        /\ run'[w].failed = run[w].failed /\ run'[w].todo = run[w].todo \ {a}
    BY <1>1, <1>2, <2>1 DEF Running
  <2>3. AsyncDestroyJob(a) \in Jobs
    BY JobFacts DEF Rows
  <2>4. SourceOf[a] \in live /\ SourceOf[a] \in Sources /\ SourceOf[a] \in keys
    BY <1>4, SuperkeyAssumption DEF Loadable, KeysOutliveSources
  <2>5. /\ cloud' \in [Apps -> CloudStates]
        /\ cloud'[a] # "up"
        /\ \A b \in Apps \ {a} : cloud'[b] = cloud[b]
        /\ cloud'[a] = "asked" \/ cloud'[a] = cloud[a]
        /\ cloud'[a] = "asked" => cloud[a] \in {"asked", "up"}
    BY <1>4, <2>4 DEF TypeOK, CloudStates
  <2>6. TypeOK'
    BY <1>1, <2>1, <2>2, <2>3, <2>5, <1>4, EnqueueFacts DEF Enqueue, TypeOK
  <2>7. \A y : Pending(y)' => Pending(y) \/ y = a
    BY <1>2, <1>4, <2>1, <2>2, <2>3, IdleFacts, JobFacts, EnqueuePending DEF Enqueue
  <2>8. NoDestroyWithoutRequest'
    <3>1. ASSUME NEW b \in Guarded, cloud'[b] = "up"
          PROVE  ~Pending(b)' /\ ~Pending(SourceOf[b])'
      <4>1. b \in Apps /\ b # a /\ cloud[b] = "up"
        BY <2>5, <3>1 DEF Settled
      <4>2. SourceOf[b] # a
        BY <4>1, SuperkeyAssumption
      <4> QED BY <2>7, <3>1, <4>1, <4>2, PendingMeans
    <3> QED BY <1>4, <3>1 DEF NoDestroyWithoutRequest, Pending
  <2>9. AskedBeforeDeleted' /\ KeysOutliveSources'
    BY <1>1, <1>4, <2>5 DEF AskedBeforeDeleted, KeysOutliveSources, Settled
  <2>10. JobsAsk'
    <3>1. \A b \in Settled : cloud'[b] \notin {"absent", "creating"}
      BY <2>5 DEF JobsAsk, Asks, Settled
    <3>2. \A b \in Guarded : cloud'[b] = "up" => b # a /\ cloud[b] = "up"
      BY <2>5 DEF Settled
    <3>3. Asks(w)'
      BY <1>1, <1>4, <2>2, <3>2 DEF Asks, JobsAsk
    <3>4. \A v \in Workers \ {w} : Asks(v)'
      BY <1>4, <2>1, <3>2 DEF Asks, JobsAsk
    <3> QED BY <3>1, <3>3, <3>4 DEF Asks, JobsAsk
  <2>11. ASSUME Prompt
         PROVE  JobsWait'
    <3>1. ASSUME NEW b \in Guarded, cloud'[b] = "asked"
          PROVE  SourceOf[b] \in live
      BY <2>4, <2>5, <2>11, <3>1 DEF JobsWait, Settled
    <3>2. ASSUME NEW b \in Guarded, cloud'[b] = "asked", NEW v \in Workers,
                 Starts(v, "destroy")', run'[v].job.id = SourceOf[b]
          PROVE  b \in run'[v].todo
      <4>1. run'[v] = run[v] /\ Starts(v, "destroy")
        BY <2>1, <2>2, <3>2 DEF Starts
      <4>2. CASE cloud[b] = "asked"
        BY <2>11, <3>2, <4>1, <4>2 DEF JobsWait
      <4>3. CASE cloud[b] # "asked"
        <5>1. b = a /\ cloud[b] = "up"
          BY <2>5, <3>2, <4>3 DEF Settled
        <5>2. run[v] # Idle /\ run[v].job = AsyncDestroyJob(SourceOf[b])
          BY <3>2, <4>1, RunningFacts, JobFacts DEF Starts
        <5> QED BY <3>2, <5>1, <5>2 DEF NoDestroyWithoutRequest
      <4> QED BY <4>2, <4>3
    <3> QED BY <1>1, <1>4, <3>1, <3>2 DEF JobsWait
  <2> QED BY <2>6, <2>8, <2>9, <2>10, <2>11
<1>5. CASE /\ Loadable(a)
           /\ bypassed' = bypassed \cup {a}
           /\ queue' \in {queue, Append(queue, AsyncDestroyJob(a))}
           /\ run' = [run EXCEPT ![w].todo = @ \ {a}]
           /\ UNCHANGED cloud
  <2>1. /\ run'[w] = [run[w] EXCEPT !.todo = @ \ {a}]
        /\ run' = [run EXCEPT ![w] = run'[w]]
        /\ \A v \in Workers \ {w} : run'[v] = run[v]
    BY <1>5 DEF TypeOK
  <2>2. /\ run'[w] \in Running /\ run'[w].phase = "apps" /\ run'[w].job = run[w].job
        /\ run'[w].failed = run[w].failed /\ run'[w].todo = run[w].todo \ {a}
    BY <1>1, <1>2, <2>1 DEF Running
  <2>3. AsyncDestroyJob(a) \in Jobs
    BY JobFacts DEF Rows
  <2>4. TypeOK'
    <3>1. queue' \in Seq(Jobs)
      BY <1>5, <2>3 DEF TypeOK
    <3> QED BY <1>1, <1>5, <2>1, <2>2, <3>1 DEF TypeOK
  <2>5. \A y : Pending(y)' => Pending(y) \/ y = a
    BY <1>2, <1>5, <2>1, <2>2, <2>3, IdleFacts, JobFacts, EnqueuePending
  <2>6. NoDestroyWithoutRequest'
    <3>1. ASSUME NEW b \in Guarded', cloud'[b] = "up"
          PROVE  ~Pending(b)' /\ ~Pending(SourceOf[b])'
      <4>1. b \in Apps /\ b \in Guarded /\ b # a /\ cloud[b] = "up"
        BY <1>5, <3>1 DEF Settled
      <4>2. SourceOf[b] # a
        BY <4>1, SuperkeyAssumption
      <4> QED BY <2>5, <4>1, <4>2, PendingMeans
    <3> QED BY <3>1 DEF NoDestroyWithoutRequest, Pending
  <2>7. JobsAsk'
    <3>1. Asks(w)'
      BY <1>1, <1>5, <2>2 DEF Asks, JobsAsk
    <3>2. \A v \in Workers \ {w} : Asks(v)'
      BY <1>5, <2>1 DEF Asks, JobsAsk
    <3> QED BY <1>5, <3>1, <3>2 DEF Asks, JobsAsk
  <2>8. ASSUME Prompt
        PROVE  JobsWait'
    <3>1. \A v \in Workers : Starts(v, "destroy")' => Starts(v, "destroy") /\ run'[v] = run[v]
      BY <2>1, <2>2 DEF Starts
    <3> QED BY <1>1, <1>5, <2>8, <3>1 DEF JobsWait
  <2> QED BY <1>1, <1>5, <2>4, <2>6, <2>7, <2>8 DEF AskedBeforeDeleted, KeysOutliveSources
<1> QED BY <1>3, <1>4, <1>5 DEF SendForApplication

(* The destruction of a source is enqueued only by a job that has nothing  *)
(* left to ask for.                                                        *)
LEMMA EndKeeps ==
    ASSUME CoreInv, NEW w \in Workers, EndSuperkeyJob(w)
    PROVE  CoreInv'
<1> USE DEF CoreInv, Guarded
<1> DEFINE x == run[w].job.id
<1>1. /\ run[w].phase = "apps" /\ run[w].todo = {}
      /\ run'[w] = Idle /\ \A v \in Workers \ {w} : run'[v] = run[v]
      /\ UNCHANGED <<live, keys, cloud, requests, accepted, bypassed>>
  BY DEF EndSuperkeyJob, TypeOK
<1>2. x \in Rows /\ AsyncDestroyJob(x) \in Jobs
  BY <1>1, RunningFacts, JobFacts
<1>3. JobsAsk' /\ (Prompt => JobsWait')
  BY <1>1, IdleFacts DEF JobsAsk, Asks, JobsWait, Starts
<1>4. CASE x \in Sources /\ ~run[w].failed
  <2>1. Enqueue(AsyncDestroyJob(x))
    BY <1>4 DEF EndSuperkeyJob
  <2>2. TypeOK'
    BY <1>1, <1>2, <2>1, EnqueueFacts DEF EndSuperkeyJob, Enqueue, TypeOK
  <2>3. \A y : Pending(y)' => Pending(y) \/ y = x
    BY <1>1, <1>2, <2>1, EnqueuePending, JobFacts DEF Enqueue
  <2>4. ASSUME NEW a \in Guarded, cloud'[a] = "up"
        PROVE  ~Pending(a)' /\ ~Pending(SourceOf[a])'
    <3>1. SourceOf[a] # x
      BY <1>1, <1>4, <2>4 DEF JobsAsk, Asks
    <3>2. a # x
      BY <1>4, SuperkeyAssumption DEF Settled
    <3> QED BY <1>1, <2>3, <2>4, <3>1, <3>2, PendingMeans
  <2>5. NoDestroyWithoutRequest'
    BY <1>1, <2>4 DEF NoDestroyWithoutRequest, Pending
  <2> QED BY <1>1, <1>3, <2>2, <2>5 DEF AskedBeforeDeleted, KeysOutliveSources
<1>5. CASE ~(x \in Sources /\ ~run[w].failed)
  <2>1. queue' = queue
    BY <1>5 DEF EndSuperkeyJob
  <2>2. TypeOK'
    BY <1>1, <2>1 DEF EndSuperkeyJob, TypeOK
  <2>3. NoDestroyWithoutRequest'
    BY <1>1, <2>1 DEF NoDestroyWithoutRequest
  <2> QED BY <1>1, <1>3, <2>2, <2>3 DEF AskedBeforeDeleted, KeysOutliveSources
<1> QED BY <1>4, <1>5

(* The rows go: those of applications that were asked for, and of a source *)
(* whose applications were torn down.                                      *)
LEMMA RunDestroyKeeps ==
    ASSUME CoreInv, NEW w \in Workers, RunDestroy(w)
    PROVE  CoreInv'
<1> USE DEF CoreInv, Guarded
<1> DEFINE x == run[w].job.id
<1>1. /\ run[w].phase = "start" /\ run[w].job.kind = "destroy"
      /\ live' = live \ ({x} \cup AppsOf(x))
      /\ Prompt => \A a \in run[w].todo : cloud[a] # "asked"
      /\ run'[w] = Idle /\ \A v \in Workers \ {w} : run'[v] = run[v]
      /\ UNCHANGED <<keys, cloud, queue, requests, accepted, bypassed>>
  BY DEF RunDestroy, Starts, TypeOK
<1>2. x \in Rows /\ run[w] # Idle /\ run[w].job = AsyncDestroyJob(x)
  BY <1>1, RunningFacts, JobFacts
<1>3. TypeOK'
  BY <1>1 DEF RunDestroy, TypeOK
<1>4. AskedBeforeDeleted'
  <2> SUFFICES ASSUME NEW a \in Guarded, a \notin live', cloud[a] = "up"
               PROVE  FALSE
    BY <1>1 DEF AskedBeforeDeleted
  <2>1. a \in live
    BY DEF AskedBeforeDeleted
  <2>2. x = a \/ x = SourceOf[a]
    BY <1>1, <2>1 DEF AppsOf
  <2> QED BY <1>2, <2>2 DEF NoDestroyWithoutRequest
<1>5. KeysOutliveSources'
  <2>1. ASSUME NEW a \in live' \cap Apps
        PROVE  SourceOf[a] \in live'
    <3>1. SourceOf[a] \in live /\ SourceOf[a] # x
      BY <1>1, <2>1 DEF KeysOutliveSources, AppsOf
    <3>2. SourceOf[a] \notin AppsOf(x)
      BY <2>1, SuperkeyAssumption DEF AppsOf
    <3> QED BY <1>1, <3>1, <3>2
  <2> QED BY <1>1, <2>1 DEF KeysOutliveSources
<1>6. NoDestroyWithoutRequest'
  BY <1>1 DEF NoDestroyWithoutRequest
<1>7. JobsAsk'
  BY <1>1, IdleFacts DEF JobsAsk, Asks
<1>8. ASSUME Prompt
      PROVE  JobsWait'
  <2>1. ASSUME NEW a \in Guarded, cloud[a] = "asked"
        PROVE  SourceOf[a] \in live'
    <3>1. SourceOf[a] \in live /\ (x = SourceOf[a] => a \in run[w].todo)
      BY <1>1, <1>8, <2>1 DEF JobsWait, Starts
    <3>2. SourceOf[a] # x
      BY <1>1, <1>8, <2>1, <3>1
    <3>3. SourceOf[a] \notin AppsOf(x)
      BY SuperkeyAssumption DEF AppsOf, Settled
    <3> QED BY <1>1, <3>1, <3>2, <3>3
  <2> QED BY <1>1, <1>8, <2>1, IdleFacts DEF JobsWait, Starts
<1> QED BY <1>3, <1>4, <1>5, <1>6, <1>7, <1>8

-----------------------------------------------------------------------------
(* What runs next to the jobs.                                             *)
LEMMA OthersKeep ==
    ASSUME CoreInv,
           \/ \E s \in Sources : DeleteKey(s)
           \/ \E a \in Apps : CreateApplication(a) \/ Provision(a) \/ TearDown(a)
           \/ UNCHANGED vars
    PROVE  CoreInv'
<1> USE DEF CoreInv, Guarded
<1>1. ASSUME NEW s \in Sources, DeleteKey(s)
      PROVE  CoreInv'
  BY <1>1 DEF DeleteKey, TypeOK, AskedBeforeDeleted, NoDestroyWithoutRequest,
     KeysOutliveSources, JobsAsk, Asks, JobsWait, Starts
<1>2. ASSUME NEW a \in Apps, CreateApplication(a) \/ Provision(a) \/ TearDown(a)
      PROVE  CoreInv'
  <2>1. /\ UNCHANGED <<keys, queue, run, requests, accepted, bypassed>>
        /\ live \subseteq live' /\ live' \subseteq live \cup {a}
        /\ a \in live' => SourceOf[a] \in live
        /\ cloud' \in [Apps -> CloudStates]
        /\ \A b \in Apps \ {a} : cloud'[b] = cloud[b]
        /\ a \in Settled => cloud'[a] \in {"torn", "leaked"}
    BY <1>2 DEF CreateApplication, Provision, TearDown, TypeOK, CloudStates, JobsAsk, Asks,
       KeysOutliveSources
  <2>2. TypeOK' /\ AskedBeforeDeleted' /\ KeysOutliveSources'
    BY <2>1, SuperkeyAssumption DEF TypeOK, AskedBeforeDeleted, KeysOutliveSources,
       Settled, Rows
  <2>3. NoDestroyWithoutRequest'
    BY <2>1 DEF NoDestroyWithoutRequest, Settled
  <2>4. JobsAsk' /\ (Prompt => JobsWait')
    BY <2>1 DEF JobsAsk, Asks, JobsWait, Starts, Settled
  <2> QED BY <2>2, <2>3, <2>4
<1>3. CASE UNCHANGED vars
  BY <1>3 DEF vars, TypeOK, AskedBeforeDeleted, NoDestroyWithoutRequest,
     KeysOutliveSources, JobsAsk, Asks, JobsWait, Starts
<1> QED BY <1>1, <1>2, <1>3

(* What is bypassed was bypassed by a failure.                             *)
LEMMA BypassedStep ==
    ASSUME BypassedByFailure, [Next]_vars
    PROVE  BypassedByFailure'
<1>1. UNCHANGED bypassed \/ clean' = FALSE
  BY DEF Next, JobStep, Resting, vars, Delete, DeleteDirectly, Pop, Abort, ListApplications,
     SendForApplication, EndSuperkeyJob, RunDestroy, DeleteKey, CreateApplication, Provision,
     TearDown
<1>2. clean' => clean
  BY DEF Next, JobStep, Resting, vars, Delete, DeleteDirectly, Pop, Abort, ListApplications,
     SendForApplication, EndSuperkeyJob, RunDestroy, DeleteKey, CreateApplication, Provision,
     TearDown, Enqueue
<1> QED BY <1>1, <1>2 DEF BypassedByFailure

LEMMA InvParts == SuperkeyInv <=> CoreInv /\ BypassedByFailure
BY DEF SuperkeyInv, CoreInv

LEMMA InitInv == Init => SuperkeyInv
BY InitCore, InvParts DEF Init, BypassedByFailure

LEMMA StepInv ==
    ASSUME OnePage, SuperkeyInv, [Next]_vars
    PROVE  SuperkeyInv'
<1>1. CoreInv /\ BypassedByFailure
  BY InvParts
<1>2. CoreInv'
  BY <1>1, DeleteKeeps, DirectlyKeeps, PopKeeps, AbortKeeps, ListKeeps, SendKeeps, EndKeeps,
     RunDestroyKeeps, OthersKeep DEF Next, JobStep, Resting
<1>3. BypassedByFailure'
  BY <1>1, BypassedStep
<1> QED BY <1>2, <1>3 DEF SuperkeyInv, CoreInv

(* The rows of a settled application never go before the superkey worker   *)
(* was asked for its cloud resources, and nothing that was not asked for   *)
(* waits to be destroyed: lost jobs, failed requests, repeated and         *)
(* overlapping deletions and any number of goroutines included. The        *)
(* exceptions are known one by one: an application is bypassed when the    *)
(* lookup of its credential fails in a job, or IsSuperkey in a handler.    *)
THEOREM SuperkeySafe ==
    ASSUME OnePage
    PROVE  Spec => []SuperkeyInv
<1>1. SuperkeyInv /\ [Next]_vars => SuperkeyInv'
  BY StepInv
<1> QED BY InitInv, <1>1, PTL DEF Spec

(* When the superkey worker answers within the 15 seconds a destroy job    *)
(* sleeps, no settled application that was not bypassed leaks: the         *)
(* credential of its source is still there to tear it down with, whatever  *)
(* happened to the other applications of the source.                       *)
THEOREM NoLeak ==
    ASSUME OnePage, Prompt
    PROVE  Spec => []NothingLeaks
<1>1. Init => NothingLeaks
  BY DEF Init, NothingLeaks, Settled, Guarded
<1>2. ASSUME SuperkeyInv, NothingLeaks, [Next]_vars
      PROVE  NothingLeaks'
  <2>1. ASSUME NEW a \in Apps, TearDown(a)
        PROVE  NothingLeaks'
    <3>1. a \in Guarded => SourceOf[a] \in keys
      BY <1>2, <2>1, SuperkeyAssumption
         DEF SuperkeyInv, JobsWait, KeysOutliveSources, TearDown, Settled, Guarded
    <3> QED BY <1>2, <2>1, <3>1 DEF TearDown, NothingLeaks, Settled, Guarded, SuperkeyInv, TypeOK
  <2>2. ASSUME NEW a \in Apps, Provision(a) \/ CreateApplication(a)
        PROVE  NothingLeaks'
    <3>1. a \notin Settled
      BY <1>2, <2>2 DEF Provision, CreateApplication, SuperkeyInv, JobsAsk, Asks
    <3> QED BY <1>2, <2>2, <3>1
         DEF Provision, CreateApplication, NothingLeaks, Settled, Guarded, SuperkeyInv, TypeOK
  <2>3. ASSUME NEW w \in Workers, NEW a \in Apps, SendForApplication(w, a)
        PROVE  NothingLeaks'
    BY <1>2, <2>3 DEF SendForApplication, NothingLeaks, Settled, Guarded, SuperkeyInv, TypeOK
  <2>4. CASE UNCHANGED cloud /\ bypassed \subseteq bypassed'
    BY <1>2, <2>4 DEF NothingLeaks, Guarded
  <2> QED BY <1>2, <2>1, <2>2, <2>3, <2>4 DEF Next, JobStep, Resting, vars, Delete, Pop,
         ListApplications, EndSuperkeyJob, RunDestroy, Abort, DeleteKey, DeleteDirectly, Guarded
<1> QED BY <1>1, <1>2, SuperkeySafe, PTL DEF Spec

-----------------------------------------------------------------------------
(* Refinement. Jobs implement the contract of DeletionContract with as     *)
(* rows the sources and the applications, and as credentials the superkey  *)
(* credentials of the sources: RunDestroy and DeleteDirectly are its       *)
(* RemoveRows, DeleteKey its Purge, CreateApplication its InsertRow. What  *)
(* is queued, asked for and                                                *)
(* torn down is not seen from outside, nor is any event, which DeleteCascade *)
(* raises. Nothing here depends on pages, on Prompt or on what fails.      *)
KeyOf(s) == <<"key", s>>

KeysOf(S) == {KeyOf(s) : s \in S}

ParentsOf == [x \in Rows |-> IF x \in Apps THEN {SourceOf[x]} ELSE {}]

\* An application whose cloud resources are "absent" was never created.
Born == Sources \cup {a \in Apps : cloud[a] # "absent"} \cup KeysOf(Sources)

Contract == INSTANCE DeletionContract WITH
                Auths <- KeysOf(Sources), Parents <- ParentsOf,
                Owner <- [k \in KeysOf(Sources) |-> k[2]],
                auths <- KeysOf(keys), born <- Born, announced <- {}

\* A credential is not a row.
KeysApart == Rows \cap KeysOf(Sources) = {}

(* What the mapping needs to know of a state, jobs left aside.             *)
RowsOK ==
    /\ live \subseteq Rows
    /\ keys \subseteq Sources
    /\ cloud \in [Apps -> CloudStates]
    /\ KeysOutliveSources

LEMMA KeyFacts ==
    /\ \A s : KeyOf(s)[2] = s
    /\ \A k \in KeysOf(Sources) : k[2] \in Sources /\ k = KeyOf(k[2])
    /\ \A S : \A s \in Sources : KeyOf(s) \in KeysOf(S) <=> s \in S
BY DEF KeyOf, KeysOf

LEMMA InitRows == Init => RowsOK
BY InitInv DEF SuperkeyInv, TypeOK, RowsOK

LEMMA InitContract == Init => Contract!Init
<1> SUFFICES ASSUME Init PROVE Contract!Init
  OBVIOUS
<1>1. {a \in Apps : cloud[a] # "absent"} = Apps \ Absent
  BY SuperkeyAssumption DEF Init
<1>2. Born = live \cup KeysOf(keys)
  BY <1>1, SuperkeyAssumption DEF Init, Born, Rows
<1> QED BY <1>2 DEF Init, Contract!Init, KeysOf

(* A source takes its applications with it, by a job or at once.           *)
LEMMA RemoveContract ==
    ASSUME RowsOK, NEW x, live' = live \ ({x} \cup AppsOf(x)), UNCHANGED <<keys, cloud>>
    PROVE  Contract!RemoveRows /\ RowsOK'
<1>1. ASSUME NEW a \in live' \cap Apps
      PROVE  SourceOf[a] \in live' /\ SourceOf[a] \in Sources
  <2>1. SourceOf[a] \in live /\ SourceOf[a] # x /\ SourceOf[a] \in Sources
    BY <1>1, SuperkeyAssumption DEF RowsOK, KeysOutliveSources, AppsOf
  <2>2. SourceOf[a] \notin AppsOf(x)
    BY <2>1, SuperkeyAssumption DEF AppsOf
  <2> QED BY <2>1, <2>2
<1>2. RowsOK'
  BY <1>1 DEF RowsOK, KeysOutliveSources
<1>3. \A y \in live' : ParentsOf[y] \subseteq live' \cup KeysOf(keys)
  BY <1>1 DEF ParentsOf, RowsOK
<1>4. UNCHANGED <<KeysOf(keys), Born>>
  BY DEF KeysOf, Born
<1> QED BY <1>2, <1>3, <1>4 DEF Contract!RemoveRows

LEMMA PurgeContract ==
    ASSUME KeysApart, RowsOK, NEW s \in Sources, DeleteKey(s)
    PROVE  Contract!Purge /\ RowsOK'
<1>1. s \in keys /\ s \notin live /\ keys' = keys \ {s} /\ UNCHANGED <<live, cloud>>
  BY DEF DeleteKey
<1>2. RowsOK'
  BY <1>1 DEF RowsOK, KeysOutliveSources
<1>3. KeysOf(keys') \subseteq KeysOf(keys) /\ KeysOf(keys) \ KeysOf(keys') = {KeyOf(s)}
  BY <1>1 DEF KeysOf, KeyOf
<1>4. KeyOf(s) \in KeysOf(Sources) /\ KeyOf(s)[2] = s
  BY KeyFacts
<1>5. \A y \in live : ParentsOf[y] \cap {KeyOf(s)} = {}
  BY <1>4, SuperkeyAssumption DEF ParentsOf, RowsOK, KeysApart, Rows
<1>6. UNCHANGED Born
  BY <1>1 DEF Born
<1> QED BY <1>1, <1>2, <1>3, <1>4, <1>5, <1>6 DEF Contract!Purge

LEMMA InsertContract ==
    ASSUME KeysApart, RowsOK, NEW a \in Apps, CreateApplication(a)
    PROVE  Contract!InsertRow(a) /\ RowsOK'
<1>1. /\ cloud[a] = "absent" /\ SourceOf[a] \in live /\ live' = live \cup {a}
      /\ cloud' = [cloud EXCEPT ![a] = "creating"] /\ UNCHANGED keys
  BY DEF CreateApplication
<1>2. a \in Rows \ Born
  BY <1>1, SuperkeyAssumption DEF Born, KeysApart, Rows
<1>3. /\ cloud'[a] = "creating" /\ cloud' \in [Apps -> CloudStates]
      /\ \A b \in Apps \ {a} : cloud'[b] = cloud[b]
  BY <1>1 DEF RowsOK, CloudStates
<1>4. Born' = Born \cup {a}
  BY <1>3 DEF Born
<1>5. ParentsOf[a] \subseteq live
  BY <1>1 DEF ParentsOf, Rows
<1>6. RowsOK'
  BY <1>1, <1>2, <1>3, SuperkeyAssumption DEF RowsOK, KeysOutliveSources, Rows
<1>7. UNCHANGED KeysOf(keys)
  BY <1>1 DEF KeysOf
<1> QED BY <1>1, <1>2, <1>4, <1>5, <1>6, <1>7 DEF Contract!InsertRow

(* The superkey worker and the requests to it: clouds only.                *)
LEMMA CloudContract ==
    ASSUME RowsOK, UNCHANGED <<live, keys>>, cloud' \in [Apps -> CloudStates],
           \A a \in Apps : cloud'[a] = "absent" <=> cloud[a] = "absent"
    PROVE  UNCHANGED Contract!vars /\ RowsOK'
BY DEF RowsOK, KeysOutliveSources, Contract!vars, Born, KeysOf

LEMMA StepContract ==
    ASSUME KeysApart, RowsOK, [Next]_vars
    PROVE  [Contract!Next]_(Contract!vars) /\ RowsOK'
<1>1. ASSUME NEW w \in Workers, RunDestroy(w)
      PROVE  Contract!Next /\ RowsOK'
  BY <1>1, RemoveContract DEF Contract!Next, RunDestroy
<1>2. ASSUME NEW s \in Sources, DeleteKey(s)
      PROVE  Contract!Next /\ RowsOK'
  BY <1>2, PurgeContract DEF Contract!Next
<1>3. ASSUME NEW a \in Apps, CreateApplication(a)
      PROVE  Contract!Next /\ RowsOK'
  <2>1. a \in Rows
    BY DEF Rows
  <2> QED BY <1>3, <2>1, InsertContract DEF Contract!Next
<1>4. ASSUME NEW a \in Apps,
             Provision(a) \/ TearDown(a) \/ \E w \in Workers : SendForApplication(w, a)
      PROVE  UNCHANGED Contract!vars /\ RowsOK'
  <2>1. UNCHANGED <<live, keys>>
    BY <1>4 DEF Provision, TearDown, SendForApplication
  <2>2. /\ cloud' \in [Apps -> CloudStates]
        /\ \A b \in Apps : cloud'[b] = "absent" <=> cloud[b] = "absent"
    BY <1>4 DEF Provision, TearDown, SendForApplication, RowsOK, CloudStates
  <2> QED BY <2>1, <2>2, CloudContract
<1>5. ASSUME NEW x \in Rows, DeleteDirectly(x)
      PROVE  Contract!Next /\ RowsOK'
  BY <1>5, RemoveContract DEF Contract!Next, DeleteDirectly
<1>6. ASSUME UNCHANGED <<live, keys, cloud>>
      PROVE  UNCHANGED Contract!vars /\ RowsOK'
  BY <1>6 DEF Contract!vars, Born, KeysOf, RowsOK, KeysOutliveSources
<1> QED BY <1>1, <1>2, <1>3, <1>4, <1>5, <1>6 DEF Next, JobStep, Resting, vars, Delete, Pop,
       Abort, ListApplications, EndSuperkeyJob

(* The asynchronous deletion implements the contract that DeleteCascade    *)
(* implements, whatever jobs are lost, fail, repeat or overlap and however *)
(* many applications a source has: a source goes together with all of its  *)
(* applications, those created meanwhile included; the superkey credential *)
(* goes only after its source; and what is deleted does not come back.     *)
THEOREM SuperkeyImplementsContract ==
    ASSUME KeysApart
    PROVE  Spec => Contract!Spec
<1>1. RowsOK /\ [Next]_vars => RowsOK' /\ [Contract!Next]_(Contract!vars)
  BY StepContract
<1> QED BY InitRows, InitContract, <1>1, PTL DEF Spec, Contract!Spec
=============================================================================
