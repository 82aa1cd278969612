-------------------------- MODULE BulkCreateProofs --------------------------
(***************************************************************************)
(* Rows and secrets belong together, for any number of credentials, bulk   *)
(* requests and other requests, whatever fails and overlaps.               *)
(*                                                                         *)
(* The argument: a credential yet to be created is nobody else's           *)
(* (UnbornOK), so nobody changes what a creation wrote to the store before *)
(* it inserts the row; what a request found when it looked is what is      *)
(* there when it writes, as far as a row needs its secret (StoreOK); and   *)
(* while nothing has failed, wherever a row and the store do not match, a  *)
(* request is at work on it that makes them match (MatchOK).               *)
(*                                                                         *)
(* And of BulkAssembly, for every body: the authentications of a bulk      *)
(* request are there, each with its resource, although others delete       *)
(* resources while it is served (MadeOK); and its output has, from each    *)
(* step on, what that step gives it (RequestOK): rows that are those asked *)
(* for, under their sources, and authentications linked to them; so that   *)
(* the commit gives a status that is right and the messages have an order, *)
(* in which they are sent (ToldOK).                                        *)
(*                                                                         *)
(* What FlattenSeq and Ascending return is shown without induction over    *)
(* data, which needs an operator as a parameter: by a set that holds a     *)
(* number with its successor (InductionUpTo), and by the least             *)
(* counterexample (AscendingFacts).                                        *)
(***************************************************************************)
EXTENDS BulkCreate, BulkAssembly, FiniteSetTheorems, SequenceTheorems, WellFoundedInduction,
        TLAPS

-----------------------------------------------------------------------------

(* What the invariants rest on.                                            *)
Inner ==
    TypeOK /\ RequestsOK /\ UnbornOK /\ StoreOK /\ Alone /\ (clean => MatchOK)

Moves(r, p, o) == pc' = [pc EXCEPT ![r] = p] /\ op' = [op EXCEPT ![r] = o]

\* They give the invariant: what is being repaired has a request at work on it.
LEMMA InnerGivesInv == ASSUME Inner PROVE SecretsInv
<1> USE DEF Inner
<1>1. \A r \in Singles : op[r].id # Nil => r \in Active
  <2> SUFFICES ASSUME NEW r \in Singles, op[r].id # Nil PROVE r \in Active
    OBVIOUS
  <2>1. SingleOK(r) BY DEF RequestsOK
  <2> QED BY <2>1 DEF SingleOK, Active, None, Singles
<1>2. Nil \notin Auths BY BulkAssumption, CredentialsAssumption
<1>3. \A a \in Auths : Undeleted(a) \/ Leftover(a) \/ Rewritten(a) => AboutNow(a)
  <2> SUFFICES ASSUME NEW a \in Auths, Undeleted(a) \/ Leftover(a) \/ Rewritten(a)
               PROVE  AboutNow(a)
    OBVIOUS
  <2>1. PICK r \in Clients : op[r].id = a /\ pc[r] \notin {"idle", "done"}
    BY DEF Undeleted, Leftover, Rewritten, Singles
  <2> QED BY <2>1 DEF AboutNow, Active
<1>4. rows \subseteq Auths BY DEF TypeOK
<1>5. RowHasSecret
  <2> SUFFICES ASSUME NEW a \in rows \cap arn, a \in Secrets => clean /\ ~AboutNow(a)
               PROVE  store[a] # Nil
    BY DEF RowHasSecret
  <2>1. CASE a \notin Secrets BY <2>1 DEF StoreOK, RowOK
  <2>2. CASE a \in Secrets
    <3>1. MatchOK BY <2>2, Zenon
    <3> QED BY <3>1, <2>2, <1>3, <1>4 DEF MatchOK, Matches
  <2> QED BY <2>1, <2>2
<1>6. NoSecretLeft
  <2> SUFFICES ASSUME clean PROVE \A a \in Auths \ rows : store[a] # Nil => AboutNow(a)
    BY DEF NoSecretLeft
  <2>1. MatchOK BY Zenon
  <2> QED BY <2>1, <1>3 DEF MatchOK, Matches
<1>7. PasswordKept
  <2> SUFFICES ASSUME clean
               PROVE  \A a \in (rows \cap arn) \ shared : ~AboutNow(a) => store[a] = wanted[a]
    BY DEF PasswordKept
  <2>1. MatchOK BY Zenon
  <2> QED BY <2>1, <1>3, <1>4 DEF MatchOK, Matches
<1>8. CommittedIsComplete
  <2> SUFFICES ASSUME NEW b \in committed PROVE AuthsOf[b] \ Single \subseteq rows
    BY DEF CommittedIsComplete
  <2>1. BulkOK(b) BY DEF RequestsOK, TypeOK
  <2> QED BY <2>1 DEF BulkOK
<1> QED BY <1>5, <1>6, <1>7, <1>8, Zenon DEF SecretsInv

\* They hold at first: a row has its password in the store, and nothing runs.
LEMMA InitInner == ASSUME Init PROVE Inner
<1> USE BulkAssumption, CredentialsAssumption DEF Init, InitCredentials
<1>1. TypeOK
  <2>1. store \in [Auths -> Passwords \cup {Nil}] OBVIOUS
  <2>2. \A r \in Clients : op[r].id = Nil BY DEF None
  <2> QED BY <2>1, <2>2 DEF TypeOK
<1>2. /\ \A r \in Clients : pc[r] = "idle" /\ op[r] = None
      /\ \A r \in Clients : op[r].id = Nil
  BY DEF None
<1>3. RequestsOK
  <2>1. pc \in [Clients -> Places] /\ op \in [Clients -> Ops] BY DEF Places, Ops, None
  <2>2. \A r \in Singles : SingleOK(r) BY <1>2 DEF SingleOK, Singles
  <2>3. \A b \in Bulks : BulkOK(b) BY <1>2 DEF BulkOK, Inserting
  <2> QED BY <2>1, <2>2, <2>3 DEF RequestsOK
<1>4. UnbornOK
  BY <1>2 DEF UnbornOK, Unborn, Creating, Singles
<1>5. StoreOK
  <2>1. \A r \in Clients : FoundOK(r) BY <1>2 DEF FoundOK, Editing, Deleting
  <2> QED BY <2>1 DEF StoreOK, RowOK
<1>6. Alone BY <1>2 DEF Alone, Singles
<1>7. MatchOK
  <2>1. \A a \in Auths : a \in rows \cap arn => store[a] # Nil OBVIOUS
  <2>2. \A a \in Auths : a \notin rows => store[a] = Nil OBVIOUS
  <2>3. rows \subseteq Auths /\ wanted = store OBVIOUS
  <2> HIDE BulkAssumption, CredentialsAssumption DEF Init, InitCredentials
  <2>4. \A r \in Singles : pc[r] = "idle" BY <1>2 DEF Singles
  <2> QED BY <2>1, <2>2, <2>3, <2>4 DEF MatchOK, Matches
<1> QED BY <1>1, <1>3, <1>4, <1>5, <1>6, <1>7, Zenon DEF Inner
-----------------------------------------------------------------------------
\* A step of one request leaves the others where they are.
LEMMA RequestsFrame ==
    ASSUME RequestsOK, NEW r \in Clients, NEW p \in Places, NEW o \in Ops, Moves(r, p, o),
           used \subseteq used', rows \ Single \subseteq rows',
           \A b \in Bulks \ {r} : left'[b] = left[b] /\ (b \in committed' => b \in committed),
           r \in Singles => SingleOK(r)', r \in Bulks => BulkOK(r)'
    PROVE  RequestsOK'
<1>1. /\ pc' \in [Clients -> Places] /\ op' \in [Clients -> Ops]
      /\ \A q \in Clients \ {r} : pc'[q] = pc[q] /\ op'[q] = op[q]
  BY DEF Moves, RequestsOK
<1>2. ASSUME NEW q \in Singles PROVE SingleOK(q)'
  <2>1. CASE q # r
    <3>1. SingleOK(q) /\ pc'[q] = pc[q] /\ op'[q] = op[q]
      BY <1>1, <2>1 DEF RequestsOK, Singles
    <3> QED BY <3>1 DEF SingleOK, Creating, Editing, Deleting
  <2> QED BY <2>1
<1>3. ASSUME NEW b \in Bulks PROVE BulkOK(b)'
  <2>0. b \in Clients BY BulkAssumption
  <2>1. CASE b # r
    <3>1. /\ BulkOK(b) /\ pc'[b] = pc[b] /\ op'[b] = op[b] /\ left'[b] = left[b]
          /\ b \in committed' => b \in committed
      BY <1>1, <2>0, <2>1 DEF RequestsOK
    <3> QED BY <3>1 DEF BulkOK, Inserting
  <2> QED BY <2>1
<1> QED BY <1>1, <1>2, <1>3 DEF RequestsOK

\* What moves one request, inserts nothing and starts no creation.
LEMMA UnbornFrame ==
    ASSUME RequestsOK, UnbornOK, NEW r \in Clients, NEW p, NEW o, Moves(r, p, o),
           rows' \cup arn' \subseteq rows \cup arn,
           \A b \in Bulks : left'[b] \subseteq left[b],
           r \in Singles =>
             /\ p \in {"secret", "insert", "undo"} => Creating(r) /\ o.id = op[r].id
             /\ p \in {"get", "pluck", "update", "write", "row", "remove"} =>
                  o.id = op[r].id /\ (Editing(r) \/ Deleting(r) \/ o.id \in rows)
    PROVE  UnbornOK'
<1>1. \A q \in Clients : /\ q # r => pc'[q] = pc[q] /\ op'[q] = op[q]
                         /\ q = r => pc'[q] = p /\ op'[q] = o
  BY DEF Moves, RequestsOK
<1>2. \A q \in Singles : Creating(q)' => Creating(q) /\ op'[q].id = op[q].id
  BY <1>1 DEF Creating, Singles
<1>3. \A q \in Singles : (Editing(q) \/ Deleting(q))' =>
          /\ op'[q].id = op[q].id
          /\ Editing(q) \/ Deleting(q) \/ op[q].id \in rows
  BY <1>1 DEF Editing, Deleting, Singles
<1>4. \A a \in Auths : Unborn(a)' => Unborn(a) BY <1>2 DEF Unborn
<1>5. ASSUME NEW a \in Auths, Unborn(a)'
      PROVE  /\ a \notin rows' \cup arn'
             /\ \A q \in Singles : op'[q].id = a => ~(Editing(q) \/ Deleting(q))'
  <2>1. a \notin rows \cup arn /\ \A q \in Singles : op[q].id = a => ~Editing(q) /\ ~Deleting(q)
    BY <1>4, <1>5 DEF UnbornOK
  <2> QED BY <2>1, <1>3
<1>6. \A q1, q2 \in Singles :
        Creating(q1)' /\ Creating(q2)' /\ op'[q1].id = op'[q2].id => q1 = q2
  BY <1>2 DEF UnbornOK
<1> QED BY <1>5, <1>6 DEF UnbornOK

\* And what begins no request leaves no two of them about one credential.
LEMMA AloneFrame ==
    ASSUME RequestsOK, Alone, NEW r \in Clients, NEW p, NEW o, Moves(r, p, o),
           r \in Singles => o.id \in {op[r].id, Nil}, shared' = shared
    PROVE  Alone'
<1>1. \A q \in Singles : op'[q].id \in {op[q].id, Nil}
  BY DEF Moves, RequestsOK, Singles
<1> QED BY <1>1 DEF Alone

\* A step that leaves rows and store alone, of a request that has found nothing new.
LEMMA StoreFrame ==
    ASSUME RequestsOK, StoreOK, NEW r \in Clients, NEW p, NEW o, Moves(r, p, o),
           UNCHANGED <<rows, arn, store>>, FoundOK(r)'
    PROVE  StoreOK'
<1>1. ASSUME NEW q \in Clients PROVE FoundOK(q)'
  <2>1. CASE q # r
    <3>1. FoundOK(q) /\ pc'[q] = pc[q] /\ op'[q] = op[q]
      BY <2>1 DEF StoreOK, Moves, RequestsOK
    <3> QED BY <3>1 DEF FoundOK, Editing, Deleting
  <2> QED BY <2>1
<1> QED BY <1>1 DEF StoreOK, RowOK

\* A request that leaves the store alone also leaves what it has to repair.
LEMMA MatchFrame ==
    ASSUME TypeOK, RequestsOK, MatchOK, NEW r \in Clients, NEW p, NEW o, Moves(r, p, o),
           UNCHANGED <<rows, arn, store, wanted>>, shared \subseteq shared',
           pc[r] \notin {"row", "remove", "undo", "bulk undo"},
           pc[r] \in {"insert", "bulk insert"} => p \in {"undo", "bulk undo"} /\ o.id = op[r].id,
           p \in {"pluck", "update"} =>
             o.id = op[r].id /\ (o.id \in (rows \cap arn) \ shared => o.pw = wanted[o.id]),
           pc[r] \in {"pluck", "update"} =>
             p \in {"pluck", "update"} \/ op[r].id \notin (rows \cap arn) \ shared
    PROVE  MatchOK'
<1>0. rows \subseteq Auths BY DEF TypeOK
<1>1. \A q \in Clients : /\ q # r => pc'[q] = pc[q] /\ op'[q] = op[q]
                         /\ q = r => pc'[q] = p /\ op'[q] = o
  BY DEF Moves, RequestsOK
<1>2. \A a : Undeleted(a) => Undeleted(a)' BY <1>1 DEF Undeleted, Singles
<1>3. ASSUME NEW a, Leftover(a) PROVE Leftover(a)'
  <2>1. PICK q \in Clients :
          /\ op[q].id = a
          /\ \/ pc[q] \in {"insert", "undo", "bulk insert", "bulk undo"}
             \/ pc[q] = "remove" /\ a \notin Secrets
    BY <1>3 DEF Leftover
  <2>2. /\ op'[q].id = a
        /\ \/ pc'[q] \in {"insert", "undo", "bulk insert", "bulk undo"}
           \/ pc'[q] = "remove" /\ a \notin Secrets
    BY <1>1, <2>1
  <2> QED BY <2>2 DEF Leftover
<1>4. \A a \in (rows \cap arn) \ shared : Rewritten(a) => Rewritten(a)'
  <2> SUFFICES ASSUME NEW a \in (rows \cap arn) \ shared, NEW q \in Singles, op[q].id = a,
                      pc[q] \in {"pluck", "update"} \/ (pc[q] = "row" /\ a \in Secrets)
               PROVE  Rewritten(a)'
    BY DEF Rewritten
  <2> QED BY <1>1 DEF Rewritten, Singles
<1>5. \A a \in (rows \cap arn) \ shared : \A q \in Singles :
        pc'[q] \in {"pluck", "update"} /\ op'[q].id = a => op'[q].pw = wanted[a]
  <2> SUFFICES ASSUME NEW a \in (rows \cap arn) \ shared, NEW q \in Singles,
                      pc'[q] \in {"pluck", "update"}, op'[q].id = a
               PROVE  op'[q].pw = wanted[a]
    OBVIOUS
  <2>1. CASE q = r BY <1>1, <2>1 DEF Singles
  <2>2. CASE q # r
    <3>1. pc'[q] = pc[q] /\ op'[q] = op[q] BY <1>1, <2>2 DEF Singles
    <3>2. Matches(a) BY <1>0 DEF MatchOK
    <3> QED BY <3>1, <3>2 DEF Matches
  <2> QED BY <2>1, <2>2
<1>6. rows' = rows /\ arn' = arn /\ store' = store /\ wanted' = wanted
  OBVIOUS
<1>7. ASSUME NEW a \in Auths PROVE Matches(a)'
  <2>1. Matches(a) BY DEF MatchOK
  <2>2. a \in rows' \cap arn' /\ store'[a] = Nil => Undeleted(a)'
    BY <1>2, <1>6, <2>1 DEF Matches
  <2>3. a \notin rows' /\ store'[a] # Nil => Leftover(a)'
    BY <1>3, <1>6, <2>1 DEF Matches
  <2>4. a \in (rows' \cap arn') \ shared' =>
          /\ store'[a] = wanted'[a] \/ Rewritten(a)'
          /\ \A q \in Singles :
               pc'[q] \in {"pluck", "update"} /\ op'[q].id = a => op'[q].pw = wanted'[a]
    BY <1>4, <1>5, <1>6, <2>1 DEF Matches
  <2> QED BY <2>2, <2>3, <2>4 DEF Matches
<1> QED BY <1>7 DEF MatchOK
-----------------------------------------------------------------------------
\* What a step of r does to the credential a leaves the others as they were.
LEMMA StoreAt ==
    ASSUME TypeOK, RequestsOK, StoreOK, NEW r \in Clients, NEW p, NEW o,
           Moves(r, p, o), NEW a,
           \A x \in Auths \ {a} : /\ x \in rows' => x \in rows
                                  /\ x \in arn' <=> x \in arn
                                  /\ store'[x] = store[x],
           FoundOK(r)', \A q \in Clients \ {r} : op[q].id = a => FoundOK(q)',
           rows' \subseteq Auths, a \in rows' => RowOK(a)'
    PROVE  StoreOK'
<1>1. ASSUME NEW q \in Clients PROVE FoundOK(q)'
  <2>1. CASE q # r /\ op[q].id # a
    <3>1. FoundOK(q) /\ pc'[q] = pc[q] /\ op'[q] = op[q]
      BY <2>1 DEF StoreOK, Moves, RequestsOK
    <3>2. pc[q] \in {"insert", "bulk insert"} \/ Editing(q) \/ Deleting(q) => op[q].id \in Auths
      <4>1. op[q].id \in Auths \cup {Nil} BY DEF RequestsOK, Ops
      <4>2. CASE q \in Singles
        <5>1. SingleOK(q) BY <4>2 DEF RequestsOK
        <5> QED BY <5>1, BulkAssumption DEF SingleOK, Editing, Deleting
      <4>3. CASE q \in Bulks
        <5>1. BulkOK(q) BY <4>3 DEF RequestsOK
        <5>2. AuthsOf[q] \subseteq Auths BY <4>3, BulkAssumption
        <5>3. /\ Inserting(q) => op[q].id \in AuthsOf[q]
              /\ pc[q] \in InTx \cup {"idle", "done"}
          BY <5>1 DEF BulkOK
        <5> QED BY <5>2, <5>3 DEF Inserting, Editing, Deleting, InTx
      <4> QED BY <4>2, <4>3 DEF Singles
    <3> QED BY <2>1, <3>1, <3>2 DEF FoundOK, Editing, Deleting
  <2> QED BY <2>1
<1>2. ASSUME NEW x \in rows' PROVE RowOK(x)'
  BY <1>2 DEF StoreOK, RowOK
<1> QED BY <1>1, <1>2 DEF StoreOK

\* What matches elsewhere still does.
LEMMA MatchAt ==
    ASSUME RequestsOK, MatchOK, NEW r \in Clients, NEW p, NEW o, Moves(r, p, o), NEW a,
           \A x \in Auths \ {a} : /\ x \in rows' <=> x \in rows
                                  /\ x \in arn' <=> x \in arn
                                  /\ x \in shared => x \in shared'
                                  /\ store'[x] = store[x] /\ wanted'[x] = wanted[x],
           op[r].id # a => pc[r] \in {"idle", "auths"}, o.id \in {a, Nil}, Nil \notin Auths,
           a \in Auths => Matches(a)'
    PROVE  MatchOK'
<1>1. \A q \in Clients : /\ q # r => pc'[q] = pc[q] /\ op'[q] = op[q]
                         /\ q = r => pc'[q] = p /\ op'[q] = o
  BY DEF Moves, RequestsOK
<1>2. ASSUME NEW x \in Auths, x # a PROVE Matches(x)'
  <2>1. Matches(x) BY DEF MatchOK
  <2>2. Undeleted(x) => Undeleted(x)' BY <1>1, <1>2 DEF Undeleted, Singles
  <2>3. Leftover(x) => Leftover(x)'
    <3> SUFFICES ASSUME Leftover(x) PROVE Leftover(x)'
      OBVIOUS
    <3>1. PICK q \in Clients :
            /\ op[q].id = x
            /\ \/ pc[q] \in {"insert", "undo", "bulk insert", "bulk undo"}
               \/ pc[q] = "remove" /\ x \notin Secrets
      BY DEF Leftover
    <3>2. q # r BY <1>2, <3>1
    <3>3. op'[q].id = x /\ pc'[q] = pc[q] BY <1>1, <3>1, <3>2
    <3> QED BY <3>1, <3>3 DEF Leftover
  <2>4. Rewritten(x) => Rewritten(x)' BY <1>1, <1>2 DEF Rewritten, Singles
  <2>5. \A q \in Singles : pc'[q] \in {"pluck", "update"} /\ op'[q].id = x =>
          pc[q] \in {"pluck", "update"} /\ op[q].id = x /\ op'[q].pw = op[q].pw
    BY <1>1, <1>2 DEF Singles
  <2>6. x \in rows' \cap arn' /\ store'[x] = Nil => Undeleted(x)'
    BY <1>2, <2>1, <2>2 DEF Matches
  <2>7. x \notin rows' /\ store'[x] # Nil => Leftover(x)'
    BY <1>2, <2>1, <2>3 DEF Matches
  <2>8. x \in (rows' \cap arn') \ shared' =>
          /\ store'[x] = wanted'[x] \/ Rewritten(x)'
          /\ \A q \in Singles :
               pc'[q] \in {"pluck", "update"} /\ op'[q].id = x => op'[q].pw = wanted'[x]
    BY <1>2, <2>1, <2>4, <2>5 DEF Matches
  <2> QED BY <2>6, <2>7, <2>8 DEF Matches
<1> QED BY <1>2 DEF MatchOK
-----------------------------------------------------------------------------
\* What a request that is neither idle nor answered is about.
LEMMA SingleFacts ==
    ASSUME Inner, NEW r \in Singles, pc[r] \notin {"idle", "done"}
    PROVE  /\ r \in Clients /\ r \notin Bulks /\ SingleOK(r) /\ FoundOK(r)
           /\ op[r] \in Ops /\ op[r].id \in Auths /\ op[r].id \in Single /\ op[r].id # Nil
           /\ op[r].id \in used /\ op[r].pw \in Passwords \cup {Nil}
<1>1. r \in Clients /\ r \notin Bulks BY DEF Singles
<1>2. SingleOK(r) /\ FoundOK(r) /\ op[r] \in Ops /\ op[r].id \in used \cup {Nil}
  BY <1>1 DEF Inner, RequestsOK, StoreOK, TypeOK
<1>3. op[r].id \in Single BY <1>2 DEF SingleOK
<1>4. op[r].id \in Auths /\ Nil \notin Auths
  BY <1>3, BulkAssumption, CredentialsAssumption
<1>5. op[r].pw \in Passwords \cup {Nil} BY <1>2 DEF Ops
<1> QED BY <1>1, <1>2, <1>3, <1>4, <1>5

\* The three ways in which a request moves.
LEMMA GoMoves ==
    ASSUME Inner, NEW r \in Clients, NEW p, Go(r, p) PROVE Moves(r, p, op[r])
BY DEF Go, Moves, Inner, RequestsOK

LEMMA ReplyMoves ==
    ASSUME NEW r, Reply(r) PROVE Moves(r, "done", None) /\ "done" \in Places /\ None \in Ops
BY DEF Reply, Moves, Places, Ops, None

LEMMA Moved ==
    ASSUME Inner, NEW r \in Clients, NEW p, NEW o, Moves(r, p, o)
    PROVE  pc'[r] = p /\ op'[r] = o
BY DEF Moves, Inner, RequestsOK

\* The types and the requests, after a step of a single request.
LEMMA SingleFrame ==
    ASSUME Inner, NEW r \in Singles, NEW p \in Places, NEW o \in Ops,
           Moves(r, p, o), o.id \in {op[r].id, Nil}, UNCHANGED <<used, bulkVars>>,
           rows \ Single \subseteq rows', rows' \subseteq used,
           arn' \subseteq {a \in used : Given[a] # Nil},
           store' \in [Auths -> Passwords \cup {Nil}], wanted' \in [Auths -> Passwords \cup {Nil}],
           clean' \in BOOLEAN, SingleOK(r)'
    PROVE  TypeOK' /\ RequestsOK'
<1>1. r \in Clients /\ r \notin Bulks /\ left' = left /\ committed' = committed /\ used' = used
  BY DEF Singles, bulkVars
<1>2. RequestsOK' BY <1>1, RequestsFrame DEF Inner
<1>3. \A q \in Clients : op'[q].id \in used \cup {Nil}
  BY DEF Moves, Inner, RequestsOK, TypeOK
<1>4. TypeOK' BY <1>1, <1>3 DEF TypeOK, Inner
<1> QED BY <1>2, <1>4

\* A step of a single request that writes nothing.
LEMMA QuietSingle ==
    ASSUME Inner, NEW r \in Singles, NEW p \in Places, NEW o \in Ops,
           Moves(r, p, o), o.id \in {op[r].id, Nil},
           UNCHANGED <<table, store, wanted, shared, bulkVars>>, clean' \in BOOLEAN,
           SingleOK(r)', FoundOK(r)',
           p \in {"secret", "insert", "undo"} => Creating(r) /\ o.id = op[r].id,
           p \in {"get", "pluck", "update", "write", "row", "remove"} =>
             o.id = op[r].id /\ (Editing(r) \/ Deleting(r) \/ o.id \in rows),
           clean' =>
             /\ clean
             /\ pc[r] \notin {"row", "remove", "undo"}
             /\ pc[r] = "insert" => p = "undo" /\ o.id = op[r].id
             /\ p \in {"pluck", "update"} =>
                  o.id = op[r].id /\ (o.id \in (rows \cap arn) \ shared => o.pw = wanted[o.id])
             /\ pc[r] \in {"pluck", "update"} =>
                  p \in {"pluck", "update"} \/ op[r].id \notin (rows \cap arn) \ shared
    PROVE  Inner'
<1>1. r \in Clients /\ r \notin Bulks BY DEF Singles
<1>2. TypeOK /\ RequestsOK /\ UnbornOK /\ StoreOK /\ Alone /\ (clean => MatchOK)
  BY DEF Inner
<1>3. /\ rows' = rows /\ arn' = arn /\ used' = used /\ store' = store /\ wanted' = wanted
      /\ shared' = shared /\ left' = left
  BY DEF table, bulkVars
<1>4. TypeOK' /\ RequestsOK'
  BY <1>2, <1>3, SingleFrame DEF TypeOK
<1>5. UnbornOK' BY <1>1, <1>2, <1>3, UnbornFrame
<1>6. StoreOK' BY <1>1, <1>2, <1>3, StoreFrame
<1>7. Alone' BY <1>1, <1>2, <1>3, AloneFrame
<1>8. ASSUME clean' PROVE MatchOK'
  <2>1. MatchOK BY <1>2, <1>8
  <2>2. SingleOK(r) BY <1>2 DEF RequestsOK
  <2>3. pc[r] \notin {"bulk insert", "bulk undo"}
    BY <2>2 DEF SingleOK, Creating, Editing, Deleting
  <2> QED BY <1>1, <1>2, <1>3, <1>8, <2>1, <2>3, MatchFrame
<1> QED BY <1>4, <1>5, <1>6, <1>7, <1>8, Zenon DEF Inner
-----------------------------------------------------------------------------
\* A request is about to be answered: what it leaves must be in order.
LEMMA QuietReply ==
    ASSUME Inner, NEW r \in Singles, Reply(r),
           UNCHANGED <<table, store, wanted, shared, bulkVars>>, clean' \in BOOLEAN,
           clean' =>
             /\ clean
             /\ pc[r] \notin {"row", "remove", "undo", "insert"}
             /\ pc[r] \in {"pluck", "update"} => op[r].id \notin (rows \cap arn) \ shared
    PROVE  Inner'
<1>1. r \in Clients BY DEF Singles
<1>2. Moves(r, "done", None) /\ "done" \in Places /\ None \in Ops BY ReplyMoves
<1>3. pc'[r] = "done" /\ op'[r] = None BY <1>1, <1>2, Moved
<1>4. SingleOK(r)' BY <1>3 DEF SingleOK
<1>5. FoundOK(r)' BY <1>3 DEF FoundOK, Editing, Deleting
<1>6. None.id = Nil BY DEF None
<1> QED BY <1>2, <1>4, <1>5, <1>6, QuietSingle

\* A failing statement, a crash: the request is given up where it is.
LEMMA FailKeeps ==
    ASSUME Inner, NEW r \in Singles, Fail(r), UNCHANGED bulkVars
    PROVE  Inner'
BY QuietReply DEF Fail

\* The UPDATE that ends an edit: of no column the invariants look at.
LEMMA WriteRowKeeps ==
    ASSUME Inner, NEW r \in Singles, WriteRow(r), UNCHANGED bulkVars
    PROVE  Inner'
<1>1. clean' = clean /\ clean \in BOOLEAN /\ pc[r] = "write"
  BY DEF WriteRow, history, Inner, TypeOK
<1>2. Reply(r) /\ UNCHANGED <<table, store, wanted, shared, bulkVars>>
  BY DEF WriteRow, history
<1> QED BY <1>1, <1>2, QuietReply

\* An edit or a deletion goes on only with a row: nobody is creating it any more.
LEMMA LoadKeeps ==
    ASSUME Inner, NEW r \in Singles, Load(r), UNCHANGED bulkVars
    PROVE  Inner'
<1>1. clean' = clean /\ clean \in BOOLEAN /\ pc[r] = "load"
  BY DEF Load, history, Inner, TypeOK
<1>2. UNCHANGED <<table, store, wanted, shared, bulkVars>> BY DEF Load, history
<1>3. CASE Reply(r) BY <1>1, <1>2, <1>3, QuietReply
<1>4. CASE op[r].id \in rows /\ Go(r, AfterLoad(r))
  <2> DEFINE p == AfterLoad(r)
  <2>1. /\ r \in Clients /\ SingleOK(r) /\ op[r] \in Ops /\ op[r].kind \in {"edit", "delete"}
    BY <1>1, SingleFacts DEF SingleOK, Creating
  <2>2. /\ p = "get" => op[r].kind = "edit" /\ op[r].id \in arn
        /\ p \in {"pluck", "write"} => op[r].kind = "edit" /\ op[r].id \notin arn
        /\ p = "pluck" => op[r].pw # Nil
        /\ p = "remove" => op[r].kind = "delete" /\ op[r].id \in Secrets \cap arn
        /\ p = "row" => op[r].kind = "delete" /\ (op[r].id \in Secrets => op[r].id \notin arn)
        /\ p \in {"get", "pluck", "write", "remove", "row"}
    BY <2>1 DEF AfterLoad, SecretFirst
  <2>3. Moves(r, p, op[r]) BY <1>4, <2>1, GoMoves
  <2>4. pc'[r] = p /\ op'[r] = op[r] BY <2>1, <2>3, Moved
  <2> HIDE DEF p
  <2>5. SingleOK(r)'
    BY <1>1, <2>1, <2>2, <2>4 DEF SingleOK, Creating, Editing, Deleting
  <2>6. FoundOK(r)'
    <3>1. op[r].id \notin arn => store[op[r].id] = Nil
      BY <1>4 DEF Inner, StoreOK, RowOK
    <3>2. arn' = arn /\ store' = store BY <1>2 DEF table
    <3> QED BY <2>2, <2>4, <3>1, <3>2 DEF FoundOK, Editing, Deleting
  <2>7. p \in Places BY <2>2 DEF Places
  <2> QED BY <1>1, <1>2, <1>4, <2>1, <2>2, <2>3, <2>5, <2>6, <2>7, QuietSingle
<1> QED BY <1>3, <1>4 DEF Load

\* Pluck of the ARN: without a row, or with a NULL, the request ends.
LEMMA PluckKeeps ==
    ASSUME Inner, NEW r \in Singles, PluckArn(r), UNCHANGED bulkVars
    PROVE  Inner'
<1>1. clean' = clean /\ clean \in BOOLEAN /\ pc[r] = "pluck"
  BY DEF PluckArn, history, Inner, TypeOK
<1>2. UNCHANGED <<table, store, wanted, shared, bulkVars>> BY DEF PluckArn, history
<1>3. CASE op[r].id \notin rows \cap arn /\ Reply(r) BY <1>1, <1>2, <1>3, QuietReply
<1>4. CASE op[r].id \in rows \cap arn /\ Go(r, "update")
  <2>1. r \in Clients /\ SingleOK(r) /\ op[r] \in Ops /\ op[r].id \in Auths
    BY <1>1, SingleFacts
  <2>2. Moves(r, "update", op[r]) BY <1>4, <2>1, GoMoves
  <2>3. pc'[r] = "update" /\ op'[r] = op[r] BY <2>1, <2>2, Moved
  <2>4. SingleOK(r)' BY <1>1, <2>1, <2>3 DEF SingleOK, Creating, Editing, Deleting
  <2>5. arn' = arn /\ "update" \in Places BY <1>2 DEF table, Places
  <2>6. FoundOK(r)' BY <1>4, <2>3, <2>5 DEF FoundOK, Editing, Deleting
  <2>7. Editing(r) BY <1>1 DEF Editing
  <2>8. ASSUME clean PROVE op[r].id \in (rows \cap arn) \ shared => op[r].pw = wanted[op[r].id]
    <3>1. MatchOK BY <2>8, Zenon DEF Inner
    <3>2. Matches(op[r].id) BY <2>1, <3>1 DEF MatchOK
    <3> QED BY <1>1, <3>2 DEF Matches
  <2> QED BY <1>1, <1>2, <2>1, <2>2, <2>4, <2>5, <2>6, <2>7, <2>8, QuietSingle
<1> QED BY <1>3, <1>4 DEF PluckArn
-----------------------------------------------------------------------------
\* A step that writes: what it does to its credential is all there is to see.
LEMMA ActSingle ==
    ASSUME Inner, NEW r \in Singles, NEW p \in Places, NEW o \in Ops,
           Moves(r, p, o), o.id \in {op[r].id, Nil}, UNCHANGED <<used, shared, bulkVars>>,
           pc[r] \notin {"idle", "done"}, NEW a, a = op[r].id,
           rows' \subseteq used, arn' \subseteq {x \in used : Given[x] # Nil},
           store' \in [Auths -> Passwords \cup {Nil}], wanted' \in [Auths -> Passwords \cup {Nil}],
           \A x \in Auths \ {a} : /\ x \in rows' <=> x \in rows
                                  /\ x \in arn' <=> x \in arn
                                  /\ store'[x] = store[x] /\ wanted'[x] = wanted[x],
           clean' \in BOOLEAN, SingleOK(r)', UnbornOK', FoundOK(r)',
           \A q \in Clients \ {r} : op[q].id = a => FoundOK(q)',
           a \in rows' => RowOK(a)',
           clean' => clean /\ Matches(a)'
    PROVE  Inner'
<1>1. /\ r \in Clients /\ r \notin Bulks /\ a \in Auths /\ a \in Single /\ Nil \notin Auths
  BY SingleFacts, BulkAssumption, CredentialsAssumption
<1>2. TypeOK /\ RequestsOK /\ StoreOK /\ Alone /\ (clean => MatchOK) /\ used \subseteq Auths
  BY DEF Inner, TypeOK
<1>3. used' = used /\ shared' = shared BY DEF bulkVars
<1>4. rows \ Single \subseteq rows'
  <2>1. rows \subseteq Auths BY DEF Inner, TypeOK
  <2> QED BY <1>1, <2>1
<1>5. TypeOK' /\ RequestsOK' BY <1>3, <1>4, SingleFrame
<1>6. Alone' BY <1>1, <1>2, <1>3, AloneFrame
<1>7. StoreOK'
  <2>1. rows' \subseteq Auths BY <1>2
  <2> QED BY <1>1, <1>2, <2>1, StoreAt
<1>8. ASSUME clean' PROVE MatchOK'
  <2>1. MatchOK /\ Matches(a)' BY <1>2, <1>8
  <2> QED BY <1>1, <1>2, <1>3, <2>1, MatchAt
<1> QED BY <1>5, <1>6, <1>7, <1>8, Zenon DEF Inner

\* Nobody but its creator is at work on a credential that is not there yet.
LEMMA CreatorAlone ==
    ASSUME Inner, NEW r \in Singles, Creating(r)
    PROVE  /\ op[r].id \notin rows \cup arn /\ op[r].id \in Auths
           /\ \A q \in Clients \ {r} : op[q].id = op[r].id =>
                pc[q] \in {"idle", "done", "load"} /\ q \in Singles
<1>1. pc[r] \notin {"idle", "done"} BY DEF Creating
<1>2. /\ op[r].id \in Auths /\ op[r].id # Nil /\ op[r].id \notin InBulk
  BY <1>1, SingleFacts DEF SingleOK
<1>3. Unborn(op[r].id) BY DEF Unborn
<1>4. /\ op[r].id \notin rows \cup arn
      /\ \A q \in Singles : op[q].id = op[r].id => ~Editing(q) /\ ~Deleting(q)
      /\ \A q \in Singles : op[q].id = op[r].id /\ Creating(q) => q = r
  BY <1>2, <1>3 DEF Inner, UnbornOK
<1>5. ASSUME NEW q \in Clients \ {r}, op[q].id = op[r].id
      PROVE  pc[q] \in {"idle", "done", "load"} /\ q \in Singles
  <2>1. CASE q \in Singles
    <3>1. SingleOK(q) BY <2>1 DEF Inner, RequestsOK
    <3> QED BY <1>4, <1>5, <2>1, <3>1 DEF SingleOK
  <2>2. CASE q \in Bulks
    <3>1. BulkOK(q) BY <2>2 DEF Inner, RequestsOK
    <3>2. op[q] = None \/ op[q].id \in InBulk BY <2>2, <3>1 DEF BulkOK, InBulk
    <3> QED BY <1>2, <1>5, <3>2 DEF None
  <2> QED BY <2>1, <2>2 DEF Singles
<1> QED BY <1>2, <1>4, <1>5

\* Of such a credential only the creator has found anything.
LEMMA CreatorFound ==
    ASSUME Inner, NEW r \in Singles, Creating(r), NEW p, NEW o, Moves(r, p, o)
    PROVE  \A q \in Clients \ {r} : op[q].id = op[r].id => FoundOK(q)'
<1> SUFFICES ASSUME NEW q \in Clients \ {r}, op[q].id = op[r].id PROVE FoundOK(q)'
  OBVIOUS
<1>1. pc[q] \in {"idle", "done", "load"} BY CreatorAlone
<1>2. pc'[q] = pc[q] BY DEF Moves, Inner, RequestsOK
<1> QED BY <1>1, <1>2 DEF FoundOK, Editing, Deleting

\* CreateSecret: nobody knows of the credential yet.
LEMMA CreateSecretKeeps ==
    ASSUME Inner, NEW r \in Singles, CreateSecret(r), UNCHANGED bulkVars,
           NEW a, a = op[r].id
    PROVE  Inner'
<1>1. clean' = clean /\ clean \in BOOLEAN /\ pc[r] = "secret"
  BY DEF CreateSecret, history, Inner, TypeOK
<1>2. /\ rows' = rows /\ arn' = arn /\ used' = used /\ wanted' = wanted /\ shared' = shared
      /\ UNCHANGED <<used, shared, bulkVars>> /\ UNCHANGED <<table, wanted, shared, bulkVars>>
  BY DEF CreateSecret, history, table
<1>3. CASE store' = store /\ Reply(r)
  BY <1>1, <1>2, <1>3, QuietReply
<1>4. CASE Go(r, "insert") /\ store' = [store EXCEPT ![op[r].id] = op[r].pw]
  <2>1. /\ r \in Clients /\ SingleOK(r) /\ op[r] \in Ops /\ op[r].pw \in Passwords \cup {Nil}
    BY <1>1, SingleFacts
  <2>2. Creating(r) BY <1>1 DEF Creating
  <2>3. /\ op[r].id \in Auths /\ op[r].id \notin rows \cup arn BY <2>2, CreatorAlone
  <2>4. Moves(r, "insert", op[r]) /\ "insert" \in Places BY <1>4, <2>1, GoMoves DEF Places
  <2>5. pc'[r] = "insert" /\ op'[r] = op[r] BY <2>1, <2>4, Moved
  <2>6. SingleOK(r)' BY <1>1, <2>1, <2>5 DEF SingleOK, Creating, Editing, Deleting
  <2>7. /\ TypeOK /\ store' \in [Auths -> Passwords \cup {Nil}] /\ store'[op[r].id] = op[r].pw
        /\ \A x \in Auths \ {op[r].id} : store'[x] = store[x]
    BY <1>4, <2>1, <2>3 DEF Inner, TypeOK
  <2>8. FoundOK(r)' BY <2>5, <2>7 DEF FoundOK, Editing, Deleting
  <2>9. \A q \in Clients \ {r} : op[q].id = op[r].id => FoundOK(q)'
    BY <2>2, <2>4, CreatorFound
  <2>10. UnbornOK'
    <3>1. \A b \in Bulks : left'[b] = left[b] BY DEF bulkVars
    <3> QED BY <1>2, <2>1, <2>2, <2>4, <3>1, UnbornFrame DEF Inner
  <2>11. Matches(a)'
    <3>1. Leftover(a)' BY <2>1, <2>5 DEF Leftover
    <3> QED BY <1>2, <2>3, <2>5, <3>1 DEF Matches
  <2>12. /\ rows' \subseteq used /\ arn' \subseteq {x \in used : Given[x] # Nil}
         /\ wanted' \in [Auths -> Passwords \cup {Nil}]
         /\ op[r].id \notin rows' /\ op[r].id \in {a, Nil}
    BY <1>2, <2>3, <2>7 DEF TypeOK
  <2> QED BY <1>1, <1>2, <2>1, <2>4, <2>6, <2>7, <2>8, <2>9, <2>10, <2>11, <2>12, ActSingle
<1> QED BY <1>3, <1>4 DEF CreateSecret

\* The INSERT: what the creator wrote to the store is still there.
LEMMA InsertRowKeeps ==
    ASSUME Inner, NEW r \in Singles, InsertRow(r), UNCHANGED bulkVars,
           NEW a, a = op[r].id
    PROVE  Inner'
<1>1. clean' = clean /\ clean \in BOOLEAN /\ pc[r] = "insert"
  BY DEF InsertRow, Inner, TypeOK
<1>2. /\ used' = used /\ shared' = shared /\ store' = store
      /\ UNCHANGED <<used, shared, bulkVars>> /\ left' = left
  BY DEF InsertRow, bulkVars
<1>3. /\ r \in Clients /\ r \notin Bulks /\ SingleOK(r) /\ FoundOK(r) /\ op[r] \in Ops
      /\ op[r].pw \in Passwords \cup {Nil} /\ a \in used /\ op[r].pw = Given[a]
      /\ store[a] = op[r].pw /\ a \notin InBulk
  BY <1>1, SingleFacts DEF SingleOK, FoundOK, Creating
<1>4. Creating(r) BY <1>1 DEF Creating
<1>5. /\ a \in Auths /\ a \notin rows \cup arn
      /\ \A q \in Clients \ {r} : op[q].id = a => pc[q] \in {"idle", "done", "load"}
  BY <1>4, CreatorAlone
<1>6. CASE Inserted(a, op[r].pw) /\ Reply(r)
  <2>1. Moves(r, "done", None) /\ "done" \in Places /\ None \in Ops BY <1>6, ReplyMoves
  <2>2. pc'[r] = "done" /\ op'[r] = None BY <1>3, <2>1, Moved
  <2>3. /\ rows' = rows \cup {a} /\ arn' = IF op[r].pw # Nil THEN arn \cup {a} ELSE arn
        /\ wanted' = [wanted EXCEPT ![a] = op[r].pw]
    BY <1>6 DEF Inserted
  <2>4. SingleOK(r)' /\ FoundOK(r)' BY <2>2 DEF SingleOK, FoundOK, Editing, Deleting
  <2>5. \A q \in Clients \ {r} : op[q].id = a => FoundOK(q)'
    BY <1>4, <2>1, CreatorFound
  <2>6. /\ rows' \subseteq used /\ arn' \subseteq {x \in used : Given[x] # Nil}
        /\ store' \in [Auths -> Passwords \cup {Nil}]
          /\ wanted' \in [Auths -> Passwords \cup {Nil}]
        /\ wanted'[a] = op[r].pw
        /\ \A x \in Auths \ {a} : /\ x \in rows' <=> x \in rows
                                  /\ x \in arn' <=> x \in arn
                                  /\ store'[x] = store[x] /\ wanted'[x] = wanted[x]
    BY <1>2, <1>3, <1>5, <2>3 DEF Inner, TypeOK
  <2>7. \A q \in Clients : /\ q # r => pc'[q] = pc[q] /\ op'[q] = op[q]
                           /\ q = r => pc'[q] = "done" /\ op'[q] = None
    BY <2>1 DEF Moves, Inner, RequestsOK
  <2>8. UnbornOK'
    <3>1. \A q \in Singles : Creating(q)' => Creating(q) /\ op'[q].id = op[q].id /\ q # r
      BY <2>7 DEF Creating, Singles
    <3>2. \A q \in Singles : (Editing(q) \/ Deleting(q))' =>
             (Editing(q) \/ Deleting(q)) /\ op'[q].id = op[q].id
      BY <2>7 DEF Editing, Deleting, Singles
    <3>3. ASSUME NEW x \in Auths, Unborn(x)' PROVE Unborn(x) /\ x # a
      <4>1. CASE \E q \in Singles : Creating(q)' /\ op'[q].id = x
        <5>1. PICK q \in Singles : Creating(q) /\ op[q].id = x /\ q # r BY <3>1, <4>1
        <5>2. pc[q] \notin {"idle", "done", "load"} BY <5>1 DEF Creating
        <5> QED BY <1>5, <5>1, <5>2 DEF Unborn, Singles
      <4>2. CASE \E b \in Bulks : x \in left'[b]
        <5>1. PICK b \in Bulks : x \in left[b] BY <1>2, <4>2
        <5>2. BulkOK(b) BY DEF Inner, RequestsOK
        <5>3. x \in InBulk BY <5>1, <5>2 DEF BulkOK, InBulk
        <5> QED BY <1>3, <5>1, <5>3 DEF Unborn
      <4> QED BY <3>3, <4>1, <4>2 DEF Unborn
    <3>4. ASSUME NEW x \in Auths, Unborn(x)'
          PROVE  /\ x \notin rows' \cup arn'
                 /\ \A q \in Singles : op'[q].id = x => ~(Editing(q) \/ Deleting(q))'
      <4>1. x # a /\ x \notin rows \cup arn
            /\ \A q \in Singles : op[q].id = x => ~Editing(q) /\ ~Deleting(q)
        BY <3>3, <3>4 DEF Inner, UnbornOK
      <4> QED BY <2>6, <3>2, <4>1
    <3>5. \A q1, q2 \in Singles :
            Creating(q1)' /\ Creating(q2)' /\ op'[q1].id = op'[q2].id => q1 = q2
      BY <3>1 DEF Inner, UnbornOK
    <3> QED BY <3>4, <3>5 DEF UnbornOK
  <2>9. RowOK(a)' BY <1>2, <1>3, <1>5, <2>3 DEF RowOK
  <2>10. Matches(a)'
    <3>1. \A q \in Singles : op'[q].id = a => pc'[q] \notin {"pluck", "update"}
      BY <1>5, <2>7 DEF Singles
    <3>2. a \in rows' /\ store'[a] = op[r].pw /\ wanted'[a] = op[r].pw
          /\ (a \in arn' => op[r].pw # Nil)
      BY <1>2, <1>3, <1>5, <2>3, <2>6
    <3> QED BY <3>1, <3>2 DEF Matches
  <2>11. None.id \in {op[r].id, Nil} BY DEF None
  <2>12. pc[r] \notin {"idle", "done"} BY <1>1
  <2> QED BY <1>1, <1>2, <2>1, <2>4, <2>5, <2>6, <2>8, <2>9, <2>10, <2>11, <2>12, ActSingle
<1>7. CASE Go(r, "undo") /\ UNCHANGED <<rows, arn, wanted>>
  <2>1. Moves(r, "undo", op[r]) /\ "undo" \in Places BY <1>3, <1>7, GoMoves DEF Places
  <2>2. pc'[r] = "undo" /\ op'[r] = op[r] BY <1>3, <2>1, Moved
  <2>3. SingleOK(r)' BY <1>1, <1>3, <2>2 DEF SingleOK, Creating, Editing, Deleting
  <2>4. FoundOK(r)' BY <2>2 DEF FoundOK, Editing, Deleting
  <2>5. UNCHANGED <<table, store, wanted, shared, bulkVars>> BY <1>2, <1>7 DEF table
  <2> QED BY <1>1, <1>3, <1>4, <2>1, <2>3, <2>4, <2>5, QuietSingle
<1> QED BY <1>6, <1>7 DEF InsertRow

\* The secret of a row that was not inserted is deleted, or something failed.
LEMMA UndoKeeps ==
    ASSUME Inner, NEW r \in Singles, Undo(r), UNCHANGED bulkVars,
           NEW a, a = op[r].id
    PROVE  Inner'
<1>1. pc[r] = "undo" /\ clean \in BOOLEAN /\ Reply(r) BY DEF Undo, Inner, TypeOK
<1>2. /\ rows' = rows /\ arn' = arn /\ used' = used /\ wanted' = wanted /\ shared' = shared
      /\ UNCHANGED <<used, shared, bulkVars>> /\ UNCHANGED <<table, wanted, shared, bulkVars>>
      /\ left' = left
  BY DEF Undo, table, bulkVars
<1>3. r \in Clients /\ op[r].id \in Auths BY <1>1, SingleFacts
<1>4. CASE store' = store /\ clean' = FALSE
  BY <1>1, <1>2, <1>4, QuietReply
<1>5. CASE store' = [store EXCEPT ![a] = Nil] /\ clean' = clean
  <2>1. Creating(r) BY <1>1 DEF Creating
  <2>2. a \notin rows \cup arn BY <2>1, CreatorAlone
  <2>3. Moves(r, "done", None) /\ "done" \in Places /\ None \in Ops BY <1>1, ReplyMoves
  <2>4. pc'[r] = "done" /\ op'[r] = None BY <1>3, <2>3, Moved
  <2>5. SingleOK(r)' /\ FoundOK(r)' BY <2>4 DEF SingleOK, FoundOK, Editing, Deleting
  <2>6. \A q \in Clients \ {r} : op[q].id = a => FoundOK(q)'
    BY <2>1, <2>3, CreatorFound
  <2>7. /\ TypeOK /\ store' \in [Auths -> Passwords \cup {Nil}] /\ store'[a] = Nil
        /\ \A x \in Auths \ {a} : store'[x] = store[x]
    BY <1>3, <1>5 DEF Inner, TypeOK
  <2>8. /\ rows' \subseteq used /\ arn' \subseteq {x \in used : Given[x] # Nil}
        /\ wanted' \in [Auths -> Passwords \cup {Nil}]
    BY <1>2, <2>7 DEF TypeOK
  <2>9. UnbornOK' BY <1>2, <1>3, <2>3, UnbornFrame DEF Inner
  <2>10. Matches(a)' BY <1>2, <2>2, <2>7 DEF Matches
  <2>11. None.id \in {op[r].id, Nil} BY DEF None
  <2>12. pc[r] \notin {"idle", "done"} /\ a \notin rows' BY <1>1, <1>2, <2>2
  <2> QED BY <1>2, <1>5, <1>1, <2>3, <2>5, <2>6, <2>7, <2>8, <2>9, <2>10, <2>11, <2>12, ActSingle
<1> QED BY <1>4, <1>5 DEF Undo
-----------------------------------------------------------------------------
\* What a request has found is no longer being created.
LEMMA FoundIsBorn ==
    ASSUME Inner, NEW r \in Singles, Editing(r) \/ Deleting(r)
    PROVE  /\ r \in Clients /\ op[r].id \in Auths
           /\ \A q \in Clients : op[q].id = op[r].id =>
                pc[q] \notin {"secret", "insert", "undo", "bulk insert", "bulk undo"}
<1>1. /\ r \in Clients /\ op[r].id \in Auths
  BY SingleFacts DEF Editing, Deleting
<1>2. ~Unborn(op[r].id) BY <1>1 DEF Inner, UnbornOK
<1>3. ASSUME NEW q \in Clients, op[q].id = op[r].id
      PROVE  pc[q] \notin {"secret", "insert", "undo", "bulk insert", "bulk undo"}
  <2>1. CASE q \in Singles
    <3>1. SingleOK(q) BY <2>1 DEF Inner, RequestsOK
    <3>2. ~Creating(q) BY <1>2, <1>3, <2>1 DEF Unborn
    <3> QED BY <3>1, <3>2 DEF SingleOK, Creating, Editing, Deleting
  <2>2. CASE q \in Bulks
    <3>1. BulkOK(q) BY <2>2 DEF Inner, RequestsOK
    <3>2. ~Inserting(q) BY <1>2, <1>3, <2>2, <3>1 DEF Unborn, BulkOK
    <3> QED BY <3>1, <3>2 DEF BulkOK, Inserting, InTx
  <2> QED BY <2>1, <2>2 DEF Singles
<1> QED BY <1>1, <1>3

LEMMA LeftoverStays ==
    ASSUME Inner, NEW r \in Clients, NEW p, NEW o, Moves(r, p, o), NEW a, Leftover(a),
           pc[r] \notin {"insert", "undo", "bulk insert", "bulk undo", "remove"}
    PROVE  Leftover(a)'
<1>1. PICK q \in Clients :
        /\ op[q].id = a
        /\ \/ pc[q] \in {"insert", "undo", "bulk insert", "bulk undo"}
           \/ pc[q] = "remove" /\ a \notin Secrets
  BY DEF Leftover
<1>2. op'[q].id = a /\ pc'[q] = pc[q] BY <1>1 DEF Moves, Inner, RequestsOK
<1> QED BY <1>1, <1>2 DEF Leftover

\* The requests after one of them has moved.
LEMMA SingleMoves ==
    ASSUME Inner, NEW r \in Clients, NEW p, NEW o, Moves(r, p, o)
    PROVE  \A q \in Singles : /\ q # r => pc'[q] = pc[q] /\ op'[q] = op[q]
                              /\ q = r => pc'[q] = p /\ op'[q] = o
BY DEF Moves, Inner, RequestsOK, Singles

\* GetSecretValue: an edit goes on when there is a secret.
LEMMA GetSecretKeeps ==
    ASSUME Inner, NEW r \in Singles, GetSecret(r), UNCHANGED bulkVars,
           NEW a, a = op[r].id
    PROVE  Inner'
<1>1. pc[r] = "get" /\ clean' = clean /\ clean \in BOOLEAN BY DEF GetSecret, Inner, TypeOK
<1>2. /\ rows' = rows /\ arn' = arn /\ used' = used /\ store' = store /\ shared' = shared
      /\ UNCHANGED <<used, shared, bulkVars>> /\ left' = left
  BY DEF GetSecret, table, bulkVars
<1>3. /\ r \in Clients /\ SingleOK(r) /\ FoundOK(r) /\ op[r] \in Ops /\ a \in Auths /\ a # Nil
      /\ op[r].pw \in Passwords \cup {Nil} /\ Editing(r)
  BY <1>1, SingleFacts DEF Editing
<1>4. CASE Reply(r) /\ wanted' = wanted
  <2>1. UNCHANGED <<table, store, wanted, shared, bulkVars>> BY <1>2, <1>4 DEF table
  <2> QED BY <1>1, <1>4, <2>1, QuietReply
<1>5. CASE /\ store[a] # Nil
           /\ op' = [op EXCEPT ![r].pw = IF @ = Nil THEN store[a] ELSE @]
           /\ pc' = [pc EXCEPT ![r] = "pluck"]
           /\ wanted' = IF op[r].pw = Nil THEN wanted ELSE [wanted EXCEPT ![a] = op[r].pw]
  <2>1. PICK w : w = IF op[r].pw = Nil THEN store[a] ELSE op[r].pw OBVIOUS
  <2>2. PICK o : o = [op[r] EXCEPT !.pw = w] OBVIOUS
  <2>3. w \in Passwords /\ w # Nil
    <3>1. store[a] \in Passwords \cup {Nil} BY <1>3 DEF Inner, TypeOK
    <3>2. Nil \notin Passwords BY BulkAssumption, CredentialsAssumption
    <3> QED BY <1>3, <1>5, <2>1, <3>1, <3>2
  <2>4. o \in Ops /\ o.id = a /\ o.pw = w /\ o.kind = op[r].kind BY <1>3, <2>2, <2>3 DEF Ops
  <2>5. op' = [op EXCEPT ![r] = o]
    <3>1. [op[r] EXCEPT !.pw = IF op[r].pw = Nil THEN store[a] ELSE op[r].pw] = o
      BY <2>1, <2>2
    <3> QED BY <1>3, <1>5, <3>1 DEF Inner, RequestsOK
  <2>6. Moves(r, "pluck", o) /\ "pluck" \in Places BY <1>5, <2>5 DEF Moves, Places
  <2>7. pc'[r] = "pluck" /\ op'[r] = o BY <1>3, <2>6, Moved
  <2>8. SingleOK(r)'
    BY <1>1, <1>3, <2>3, <2>4, <2>7 DEF SingleOK, Creating, Editing, Deleting
  <2>9. \A q \in Clients \ {r} : op[q].id = a => FoundOK(q)'
    <3> SUFFICES ASSUME NEW q \in Clients \ {r} PROVE FoundOK(q)'
      OBVIOUS
    <3>1. FoundOK(q) /\ pc'[q] = pc[q] /\ op'[q] = op[q]
      BY <2>6 DEF Inner, StoreOK, Moves, RequestsOK
    <3> QED BY <1>2, <3>1 DEF FoundOK, Editing, Deleting
  <2>10. FoundOK(r)' BY <1>2, <1>3, <2>4, <2>7 DEF FoundOK, Editing, Deleting
  <2>11. /\ rows' \subseteq used /\ arn' \subseteq {x \in used : Given[x] # Nil}
         /\ store' \in [Auths -> Passwords \cup {Nil}]
          /\ wanted' \in [Auths -> Passwords \cup {Nil}]
         /\ wanted'[a] = IF op[r].pw = Nil THEN wanted[a] ELSE op[r].pw
         /\ \A x \in Auths \ {a} : wanted'[x] = wanted[x]
    BY <1>2, <1>3, <1>5 DEF Inner, TypeOK
  <2>12. UnbornOK'
    <3>1. o.id = op[r].id BY <2>4
    <3> QED BY <1>2, <1>3, <2>6, <3>1, UnbornFrame DEF Inner
  <2>13. a \in rows' => RowOK(a)' BY <1>2 DEF Inner, StoreOK, RowOK
  <2>14. ASSUME clean PROVE Matches(a)'
    <3>1. Matches(a)
      <4>1. MatchOK BY <2>14, Zenon DEF Inner
      <4> QED BY <1>3, <4>1 DEF MatchOK
    <3>2. Leftover(a) => Leftover(a)' BY <1>1, <1>3, <2>6, LeftoverStays
    <3>3. Rewritten(a)' BY <2>4, <2>7 DEF Rewritten
    <3>4. ASSUME a \in (rows \cap arn) \ shared, NEW q \in Singles, op'[q].id = a
          PROVE  op'[q].pw = wanted'[a]
      <4>1. \A x \in Singles : op[x].id = a => x = r
        BY <1>3, <3>4 DEF Inner, Alone
      <4>2. q = r BY <1>3, <2>6, <3>4, <4>1, SingleMoves
      <4>3. ~Rewritten(a) BY <1>1, <4>1 DEF Rewritten
      <4>4. store[a] = wanted[a] BY <3>1, <3>4, <4>3 DEF Matches
      <4> QED BY <2>1, <2>4, <2>7, <2>11, <4>2, <4>4
    <3> QED BY <1>2, <1>5, <3>1, <3>2, <3>3, <3>4 DEF Matches
  <2>15. pc[r] \notin {"idle", "done"} /\ o.id \in {op[r].id, Nil} BY <1>1, <2>4
  <2> QED BY <1>1, <1>2, <2>4, <2>6, <2>8, <2>9, <2>10, <2>11, <2>12, <2>13, <2>14, <2>15, ActSingle
<1> QED BY <1>4, <1>5 DEF GetSecret

\* UpdateSecret: the last password asked for, unless two requests overlapped.
LEMMA UpdateSecretKeeps ==
    ASSUME Inner, NEW r \in Singles, UpdateSecret(r), UNCHANGED bulkVars,
           NEW a, a = op[r].id
    PROVE  Inner'
<1>1. pc[r] = "update" /\ clean \in BOOLEAN BY DEF UpdateSecret, Inner, TypeOK
<1>2. /\ rows' = rows /\ arn' = arn /\ used' = used /\ wanted' = wanted /\ shared' = shared
      /\ UNCHANGED <<used, shared, bulkVars>> /\ UNCHANGED <<table, wanted, shared, bulkVars>>
      /\ left' = left
  BY DEF UpdateSecret, table, bulkVars
<1>3. /\ r \in Clients /\ SingleOK(r) /\ FoundOK(r) /\ op[r] \in Ops /\ a \in Auths /\ a # Nil
      /\ op[r].pw \in Passwords /\ op[r].pw # Nil /\ Editing(r)
  BY <1>1, SingleFacts DEF Editing, SingleOK
<1>4. CASE /\ store' = store /\ Reply(r) /\ (store[a] = Nil \/ MayFail)
           /\ clean' = (clean /\ store[a] = Nil)
  <2>1. ASSUME clean' PROVE clean /\ store[a] = Nil BY <1>4, <2>1
  <2>2. ASSUME clean, store[a] = Nil PROVE a \notin (rows \cap arn) \ shared
    <3>1. MatchOK BY <2>2, Zenon DEF Inner
    <3>2. Matches(a) BY <1>3, <3>1 DEF MatchOK
    <3> SUFFICES ASSUME a \in (rows \cap arn) \ shared PROVE FALSE
      OBVIOUS
    <3>3. PICK q \in Singles : pc[q] = "row" /\ op[q].id = a
      BY <2>2, <3>2 DEF Matches, Undeleted
    <3>4. q = r BY <1>3, <3>3 DEF Inner, Alone
    <3> QED BY <1>1, <3>3, <3>4
  <2>3. clean' \in BOOLEAN BY <1>4
  <2>4. clean' => clean /\ a \notin (rows \cap arn) \ shared BY <2>1, <2>2, Zenon
  <2>5. clean' => pc[r] \notin {"row", "remove", "undo", "insert"} BY <1>1
  <2> QED BY <1>2, <1>4, <2>3, <2>4, <2>5, QuietReply
<1>5. CASE /\ store[a] # Nil /\ store' = [store EXCEPT ![a] = op[r].pw]
           /\ Go(r, "write") /\ clean' = clean
  <2>1. Moves(r, "write", op[r]) /\ "write" \in Places BY <1>3, <1>5, GoMoves DEF Places
  <2>2. pc'[r] = "write" /\ op'[r] = op[r] BY <1>3, <2>1, Moved
  <2>3. SingleOK(r)' BY <1>1, <1>3, <2>2 DEF SingleOK, Creating, Editing, Deleting
  <2>4. /\ TypeOK /\ store' \in [Auths -> Passwords \cup {Nil}] /\ store'[a] = op[r].pw
        /\ store'[a] # Nil
        /\ \A x \in Auths \ {a} : store'[x] = store[x]
    BY <1>3, <1>5 DEF Inner, TypeOK
  <2>5. /\ rows' \subseteq used /\ arn' \subseteq {x \in used : Given[x] # Nil}
        /\ wanted' \in [Auths -> Passwords \cup {Nil}]
    BY <1>2, <2>4 DEF TypeOK
  <2>6. FoundOK(r)' BY <1>2, <1>3, <1>5, <2>2 DEF FoundOK, Editing, Deleting
  <2>7. ASSUME NEW q \in Clients \ {r}, op[q].id = a PROVE FoundOK(q)'
    <3>1. FoundOK(q) /\ pc'[q] = pc[q] /\ op'[q] = op[q]
      BY <2>1 DEF Inner, StoreOK, Moves, RequestsOK
    <3>2. pc[q] \notin {"insert", "bulk insert"} BY <1>3, <2>7, FoundIsBorn
    <3> QED BY <1>2, <1>5, <2>7, <3>1, <3>2 DEF FoundOK, Editing, Deleting
  <2>8. UnbornOK' BY <1>2, <1>3, <2>1, UnbornFrame DEF Inner
  <2>9. a \in rows' => RowOK(a)' BY <1>2, <1>5, <2>4 DEF Inner, StoreOK, RowOK
  <2>10. ASSUME clean PROVE Matches(a)'
    <3>1. Matches(a)
      <4>1. MatchOK BY <2>10, Zenon DEF Inner
      <4> QED BY <1>3, <4>1 DEF MatchOK
    <3>2. Leftover(a) => Leftover(a)' BY <1>1, <1>3, <2>1, LeftoverStays
    <3>3. ASSUME a \in (rows \cap arn) \ shared, NEW q \in Singles, op'[q].id = a
          PROVE  pc'[q] \notin {"pluck", "update"}
      <4>1. op[q].id = a BY <1>3, <2>1, <3>3, SingleMoves
      <4>2. q = r BY <1>3, <3>3, <4>1 DEF Inner, Alone
      <4> QED BY <2>2, <4>2
    <3>4. a \in (rows \cap arn) \ shared => store'[a] = wanted[a]
      BY <1>1, <2>4, <3>1 DEF Matches
    <3> QED BY <1>2, <1>5, <2>4, <3>1, <3>2, <3>3, <3>4 DEF Matches
  <2>11. pc[r] \notin {"idle", "done"} /\ op[r].id \in {op[r].id, Nil} BY <1>1
  <2> QED BY <1>1, <1>2, <1>3, <1>5, <2>1, <2>3, <2>4, <2>5, <2>6, <2>7, <2>8, <2>9, <2>10, <2>11,
             ActSingle
<1>6. \/ /\ store[a] # Nil /\ store' = [store EXCEPT ![a] = op[r].pw]
         /\ Go(r, "write") /\ clean' = clean
      \/ /\ store' = store /\ Reply(r) /\ (store[a] = Nil \/ MayFail)
         /\ clean' = (clean /\ store[a] = Nil)
  BY Zenon DEF UpdateSecret
<1> QED BY <1>4, <1>5, <1>6, Zenon

\* The row goes: its secret before it, or what is left is about to be removed.
LEMMA DeleteRowKeeps ==
    ASSUME Inner, NEW r \in Singles, DeleteRow(r), UNCHANGED bulkVars,
           NEW a, a = op[r].id
    PROVE  Inner'
<1>1. pc[r] = "row" /\ clean' = clean /\ clean \in BOOLEAN /\ rows' = rows \ {a}
  BY DEF DeleteRow, history, Inner, TypeOK
<1>2. /\ arn' = arn /\ used' = used /\ store' = store /\ wanted' = wanted /\ shared' = shared
      /\ UNCHANGED <<used, shared, bulkVars>> /\ left' = left
  BY DEF DeleteRow, history, bulkVars
<1>3. /\ r \in Clients /\ SingleOK(r) /\ FoundOK(r) /\ op[r] \in Ops /\ a \in Auths
      /\ Deleting(r)
  BY <1>1, SingleFacts DEF Deleting
<1>4. PICK p, o : /\ Moves(r, p, o) /\ p \in Places /\ o \in Ops
                  /\ \/ /\ a \in Secrets \/ a \notin arn
                        /\ p = "done" /\ o = None
                     \/ p = "remove" /\ o = op[r] /\ a \in arn \ Secrets
  <2>1. CASE (a \in Secrets \/ a \notin arn) /\ Reply(r) BY <2>1, ReplyMoves
  <2>2. CASE a \in arn \ Secrets /\ Go(r, "remove")
    <3>1. Moves(r, "remove", op[r]) /\ "remove" \in Places BY <1>3, <2>2, GoMoves DEF Places
    <3> QED BY <1>3, <2>2, <3>1
  <2>3. \/ (a \in Secrets \/ a \notin arn) /\ Reply(r)
        \/ a \in arn /\ a \notin Secrets /\ Go(r, "remove")
    BY DEF DeleteRow, SecretFirst
  <2> QED BY <2>1, <2>2, <2>3
<1>5. pc'[r] = p /\ op'[r] = o /\ (p = "done" => o = None) /\ o.id \in {op[r].id, Nil}
      /\ p \in {"done", "remove"}
  BY <1>3, <1>4, Moved DEF None
<1>6. SingleOK(r)' BY <1>1, <1>3, <1>4, <1>5 DEF SingleOK, Creating, Editing, Deleting
<1>7. FoundOK(r)' BY <1>1, <1>2, <1>4, <1>5 DEF FoundOK, Editing, Deleting
<1>8. ASSUME NEW q \in Clients \ {r}, op[q].id = a PROVE FoundOK(q)'
  <2>1. FoundOK(q) /\ pc'[q] = pc[q] /\ op'[q] = op[q]
    BY <1>4 DEF Inner, StoreOK, Moves, RequestsOK
  <2> QED BY <1>1, <1>2, <2>1 DEF FoundOK, Editing, Deleting
<1>9. UnbornOK'
  <2>1. rows' \cup arn' \subseteq rows \cup arn BY <1>1, <1>2
  <2>2. /\ p \in {"secret", "insert", "undo"} => Creating(r) /\ o.id = op[r].id
        /\ p \in {"get", "pluck", "update", "write", "row", "remove"} =>
             o.id = op[r].id /\ (Editing(r) \/ Deleting(r) \/ o.id \in rows)
    BY <1>3, <1>4
  <2> QED BY <1>2, <1>3, <1>4, <2>1, <2>2, UnbornFrame DEF Inner
<1>10. a \notin rows' /\ a \in Auths BY <1>1, <1>3
<1>11. Matches(a)'
  <2>1. ASSUME store[a] # Nil PROVE Leftover(a)'
    <3>1. p = "remove" /\ a \notin Secrets /\ o.id = a
      BY <1>1, <1>3, <1>4, <2>1 DEF FoundOK
    <3> QED BY <1>3, <1>5, <3>1 DEF Leftover
  <2> QED BY <1>2, <1>10, <2>1 DEF Matches
<1>12. /\ rows' \subseteq used /\ arn' \subseteq {x \in used : Given[x] # Nil}
       /\ store' \in [Auths -> Passwords \cup {Nil}]
          /\ wanted' \in [Auths -> Passwords \cup {Nil}]
       /\ \A x \in Auths \ {a} : x \in rows' <=> x \in rows
  BY <1>1, <1>2 DEF Inner, TypeOK
<1>13. pc[r] \notin {"idle", "done"} BY <1>1
<1> QED BY <1>1, <1>2, <1>4, <1>5, <1>6, <1>7, <1>8, <1>9, <1>10, <1>11, <1>12, <1>13, ActSingle

\* DeleteSecret, before the row of a secret or after that of an authentication.
LEMMA RemoveSecretKeeps ==
    ASSUME Inner, NEW r \in Singles, RemoveSecret(r), UNCHANGED bulkVars,
           NEW a, a = op[r].id
    PROVE  Inner'
<1>1. pc[r] = "remove" /\ clean \in BOOLEAN BY DEF RemoveSecret, Inner, TypeOK
<1>2. /\ rows' = rows /\ arn' = arn /\ used' = used /\ wanted' = wanted /\ shared' = shared
      /\ UNCHANGED <<used, shared, bulkVars>> /\ UNCHANGED <<table, wanted, shared, bulkVars>>
      /\ left' = left
  BY DEF RemoveSecret, table, bulkVars
<1>3. /\ r \in Clients /\ SingleOK(r) /\ FoundOK(r) /\ op[r] \in Ops /\ a \in Auths /\ a # Nil
      /\ Deleting(r)
  BY <1>1, SingleFacts DEF Deleting
<1>4. CASE store' = store /\ Reply(r) /\ clean' = FALSE
  BY <1>1, <1>2, <1>4, QuietReply
<1>5. CASE /\ store' = [store EXCEPT ![a] = Nil] /\ clean' = clean
           /\ IF a \in Secrets THEN Go(r, "row") ELSE Reply(r)
  <2>1. PICK p, o : /\ Moves(r, p, o) /\ p \in Places /\ o \in Ops
                    /\ a \in Secrets => p = "row" /\ o = op[r]
                    /\ a \notin Secrets => p = "done" /\ o = None
    <3>1. CASE a \in Secrets
      <4>1. Moves(r, "row", op[r]) /\ "row" \in Places BY <1>3, <1>5, <3>1, GoMoves DEF Places
      <4> QED BY <1>3, <3>1, <4>1
    <3>2. CASE a \notin Secrets BY <1>5, <3>2, ReplyMoves
    <3> QED BY <3>1, <3>2
  <2>2. pc'[r] = p /\ op'[r] = o /\ o.id \in {op[r].id, Nil}
    BY <1>3, <2>1, Moved DEF None
  <2>3. /\ TypeOK /\ store' \in [Auths -> Passwords \cup {Nil}] /\ store'[a] = Nil
        /\ \A x \in Auths \ {a} : store'[x] = store[x]
    BY <1>3, <1>5 DEF Inner, TypeOK
  <2>4. /\ rows' \subseteq used /\ arn' \subseteq {x \in used : Given[x] # Nil}
        /\ wanted' \in [Auths -> Passwords \cup {Nil}]
    BY <1>2, <2>3 DEF TypeOK
  <2>5. SingleOK(r)' BY <1>1, <1>3, <2>1, <2>2 DEF SingleOK, Creating, Editing, Deleting
  <2>6. FoundOK(r)' BY <2>1, <2>2, <2>3 DEF FoundOK, Editing, Deleting
  <2>7. ASSUME NEW q \in Clients \ {r}, op[q].id = a PROVE FoundOK(q)'
    <3>1. FoundOK(q) /\ pc'[q] = pc[q] /\ op'[q] = op[q]
      BY <2>1 DEF Inner, StoreOK, Moves, RequestsOK
    <3>2. pc[q] \notin {"insert", "bulk insert"} BY <1>3, <2>7, FoundIsBorn
    <3> QED BY <1>2, <2>3, <2>7, <3>1, <3>2 DEF FoundOK, Editing, Deleting
  <2>8. UnbornOK'
    <3>1. /\ p \in {"secret", "insert", "undo"} => Creating(r) /\ o.id = op[r].id
          /\ p \in {"get", "pluck", "update", "write", "row", "remove"} =>
               o.id = op[r].id /\ (Editing(r) \/ Deleting(r) \/ o.id \in rows)
      BY <1>3, <2>1
    <3> QED BY <1>2, <1>3, <2>1, <3>1, UnbornFrame DEF Inner
  <2>9. a \in rows' => a \in Secrets BY <1>1, <1>2, <1>3 DEF FoundOK
  <2>10. a \in rows' => RowOK(a)' BY <2>3, <2>9 DEF RowOK
  <2>11. Matches(a)'
    <3>1. a \in Secrets => Undeleted(a)' /\ Rewritten(a)'
      BY <2>1, <2>2 DEF Undeleted, Rewritten
    <3>2. ASSUME a \notin shared, NEW q \in Singles, op'[q].id = a
          PROVE  pc'[q] \notin {"pluck", "update"}
      <4>1. op[q].id = a BY <1>3, <2>1, <2>2, <3>2, SingleMoves
      <4>2. q = r BY <1>3, <3>2, <4>1 DEF Inner, Alone
      <4> QED BY <2>1, <2>2, <4>2
    <3> QED BY <1>2, <2>3, <2>9, <3>1, <3>2 DEF Matches
  <2>12. pc[r] \notin {"idle", "done"} BY <1>1
  <2> QED BY <1>1, <1>2, <1>5, <2>1, <2>2, <2>3, <2>4, <2>5, <2>6, <2>7, <2>8, <2>10, <2>11, <2>12,
             ActSingle
<1> QED BY <1>4, <1>5 DEF RemoveSecret, SecretFirst
-----------------------------------------------------------------------------
\* A request begins: a credential used before is not created again, and two at a
\* time about one credential are known to overlap.
LEMMA BeginKeeps ==
    ASSUME Inner, NEW r \in Singles, Request(r), UNCHANGED bulkVars
    PROVE  Inner'
<1>1. PICK kind \in {"create", "edit", "delete"}, a \in Single, pw \in Passwords \cup {Nil} :
        /\ kind = "create" => pw = Given[a] /\ a \notin InBulk
        /\ Begin(r, kind, a, pw)
  BY DEF Request
<1>2. PICK o : o = [kind |-> kind, id |-> a, pw |-> pw] OBVIOUS
<1>3. PICK p : p = IF kind = "create" THEN "secret" ELSE "load" OBVIOUS
<1>4. /\ Moves(r, p, o) /\ pc[r] = "idle" /\ used' = used \cup {a}
      /\ (kind = "create") <=> (a \notin used)
      /\ shared' = IF \E q \in Active : op[q].id = a THEN shared \cup {a} ELSE shared
      /\ rows' = rows /\ arn' = arn /\ store' = store /\ wanted' = wanted /\ clean' = clean
  BY <1>1, <1>2, <1>3 DEF Begin, Idle, Moves
<1>5. /\ r \in Clients /\ r \notin Bulks /\ a \in Auths /\ a # Nil
      /\ left' = left /\ committed' = committed
  BY BulkAssumption, CredentialsAssumption DEF Singles, bulkVars
<1>6. o \in Ops /\ p \in Places /\ o.id = a /\ o.pw = pw /\ o.kind = kind
  BY <1>2, <1>3, <1>5 DEF Ops, Places
<1>7. pc'[r] = p /\ op'[r] = o BY <1>4, <1>5, Moved
<1>8. SingleOK(r)'
  BY <1>1, <1>3, <1>6, <1>7 DEF SingleOK, Creating, Editing, Deleting
<1>9. RequestsOK' BY <1>4, <1>5, <1>6, <1>8, RequestsFrame DEF Inner
<1>10. TypeOK'
  <2>1. \A q \in Clients : op'[q].id \in used' \cup {Nil}
    <3>1. \A q \in Clients : op[q].id \in used \cup {Nil} BY DEF Inner, TypeOK
    <3> QED BY <1>4, <1>6, <3>1 DEF Moves, Inner, RequestsOK
  <2> QED BY <1>4, <1>5, <2>1 DEF TypeOK, Inner
<1>11. \A q \in Singles : /\ q # r => pc'[q] = pc[q] /\ op'[q] = op[q]
                          /\ q = r => pc'[q] = p /\ op'[q] = o
  BY <1>4, <1>5, SingleMoves
<1>12. \A q \in Clients : op[q].id = a => a \in used
  BY <1>5 DEF Inner, TypeOK
<1>13. UnbornOK'
  <2>1. \A q \in Singles : (Editing(q) \/ Deleting(q))' =>
           (Editing(q) \/ Deleting(q)) /\ op'[q].id = op[q].id /\ q # r
    BY <1>3, <1>11 DEF Editing, Deleting
  <2>2. \A q \in Singles : Creating(q)' =>
           \/ q # r /\ Creating(q) /\ op'[q].id = op[q].id
           \/ q = r /\ kind = "create"
    BY <1>3, <1>11 DEF Creating
  <2>3. ASSUME NEW x \in Auths, Unborn(x)'
        PROVE  /\ x \notin rows' \cup arn'
               /\ \A q \in Singles : op'[q].id = x => ~(Editing(q) \/ Deleting(q))'
    <3>1. CASE Unborn(x)
      <4>1. /\ x \notin rows \cup arn
            /\ \A q \in Singles : op[q].id = x => ~Editing(q) /\ ~Deleting(q)
        BY <3>1 DEF Inner, UnbornOK
      <4> QED BY <1>4, <2>1, <4>1
    <3>2. CASE kind = "create" /\ x = a
      <4>1. a \notin used /\ a \notin rows \cup arn BY <1>4, <3>2 DEF Inner, TypeOK
      <4>2. \A q \in Singles : op[q].id # a BY <1>12, <4>1 DEF Singles
      <4> QED BY <1>4, <2>1, <3>2, <4>1, <4>2
    <3>3. Unborn(x) \/ (kind = "create" /\ x = a)
      BY <1>5, <1>6, <1>7, <2>2, <2>3 DEF Unborn
    <3> QED BY <3>1, <3>2, <3>3
  <2>4. ASSUME NEW q1 \in Singles, NEW q2 \in Singles,
               Creating(q1)', Creating(q2)', op'[q1].id = op'[q2].id
        PROVE  q1 = q2
    <3>1. CASE q1 # r /\ q2 # r BY <2>2, <2>4, <3>1 DEF Inner, UnbornOK
    <3>2. ASSUME NEW q \in Singles \ {r}, kind = "create" PROVE op'[q].id # a
      BY <1>4, <1>11, <1>12, <3>2 DEF Singles
    <3> QED BY <1>6, <1>11, <2>2, <2>4, <3>1, <3>2
  <2> QED BY <2>3, <2>4 DEF UnbornOK
<1>14. StoreOK'
  <2>1. FoundOK(r)' BY <1>3, <1>7 DEF FoundOK, Editing, Deleting
  <2> QED BY <1>4, <1>5, <2>1, StoreFrame DEF Inner
<1>15. Alone'
  <2> SUFFICES ASSUME NEW q1 \in Singles, NEW q2 \in Singles, op'[q1].id = op'[q2].id,
                      op'[q2].id \notin shared' \cup {Nil}
               PROVE  q1 = q2
    BY DEF Alone
  <2>1. CASE q1 # r /\ q2 # r BY <1>4, <1>11, <2>1 DEF Inner, Alone
  <2>2. ASSUME NEW q \in Singles \ {r}, op'[q].id = a PROVE a \in shared'
    <3>1. op[q].id = a BY <1>11, <2>2
    <3>2. SingleOK(q) /\ q \in Clients BY DEF Inner, RequestsOK, Singles
    <3>3. q \in Active BY <1>5, <3>1, <3>2 DEF SingleOK, Active, None
    <3> QED BY <1>4, <3>1, <3>3
  <2> QED BY <1>6, <1>11, <2>1, <2>2
<1>16. ASSUME clean' PROVE MatchOK'
  <2>1. clean' => clean BY <1>4
  <2>2. MatchOK BY <1>16, <2>1, Zenon DEF Inner
  <2>3. shared \subseteq shared' BY <1>4
  <2>4. p \in {"secret", "load"} BY <1>3
  <2> QED BY <1>4, <1>5, <2>2, <2>3, <2>4, MatchFrame DEF Inner
<1> QED BY <1>9, <1>10, <1>13, <1>14, <1>15, <1>16, Zenon DEF Inner
-----------------------------------------------------------------------------
\* What a bulk request is about.
LEMMA BulkFacts ==
    ASSUME Inner, NEW b \in Bulks
    PROVE  /\ b \in Clients /\ b \notin Singles /\ BulkOK(b) /\ op[b] \in Ops
           /\ AuthsOf[b] \subseteq Auths /\ AuthsOf[b] \subseteq InBulk
           /\ left[b] \subseteq AuthsOf[b] /\ Nil \notin Auths
<1>1. b \in Clients BY BulkAssumption
<1>2. BulkOK(b) /\ op[b] \in Ops BY <1>1 DEF Inner, RequestsOK
<1>3. AuthsOf[b] \subseteq Auths BY BulkAssumption
<1> QED BY <1>1, <1>2, <1>3, BulkAssumption, CredentialsAssumption DEF Singles, BulkOK, InBulk

\* The types and the requests, after a step of a bulk request.
LEMMA BulkFrame ==
    ASSUME Inner, NEW b \in Bulks, NEW p \in Places, NEW o \in Ops,
           Moves(b, p, o), o.id \in used' \cup {Nil}, used \subseteq used', used' \subseteq Auths,
           rows \subseteq rows', rows' \subseteq used',
           arn' \subseteq {x \in used' : Given[x] # Nil},
           store' \in [Auths -> Passwords \cup {Nil}], wanted' \in [Auths -> Passwords \cup {Nil}],
           left' \in [Bulks -> SUBSET Auths], \A c \in Bulks \ {b} : left'[c] = left[c],
           committed' \subseteq committed \cup {b}, clean' \in BOOLEAN, BulkOK(b)'
    PROVE  TypeOK' /\ RequestsOK'
<1>1. b \in Clients /\ b \notin Singles BY BulkFacts
<1>2. RequestsOK' BY <1>1, RequestsFrame DEF Inner
<1>3. \A q \in Clients : op'[q].id \in used' \cup {Nil}
  BY DEF Moves, Inner, RequestsOK, TypeOK
<1>4. committed' \subseteq Bulks BY DEF Inner, TypeOK
<1>5. TypeOK' BY <1>3, <1>4 DEF TypeOK
<1> QED BY <1>2, <1>5

\* A step of a bulk request that creates nothing.
LEMMA QuietBulk ==
    ASSUME Inner, NEW b \in Bulks, NEW p \in Places, NEW o \in Ops,
           Moves(b, p, o), o.id \in {op[b].id, Nil},
           used \subseteq used', used' \subseteq Auths,
           UNCHANGED <<rows, arn, store, wanted, shared, left>>,
           committed' \subseteq committed \cup {b}, clean' \in BOOLEAN,
           BulkOK(b)', p \in InTx \cup {"done"}, p # "bulk insert",
           clean' =>
             /\ clean /\ pc[b] # "bulk undo"
             /\ pc[b] = "bulk insert" => p = "bulk undo" /\ o.id = op[b].id
    PROVE  Inner'
<1>1. b \in Clients /\ b \notin Singles /\ BulkOK(b) BY BulkFacts
<1>2. TypeOK /\ RequestsOK /\ UnbornOK /\ StoreOK /\ Alone /\ (clean => MatchOK)
  BY DEF Inner
<1>3. /\ rows' = rows /\ arn' = arn /\ store' = store /\ wanted' = wanted
      /\ shared' = shared /\ left' = left /\ UNCHANGED <<rows, arn, store>>
      /\ UNCHANGED <<rows, arn, store, wanted>>
  OBVIOUS
<1>4. TypeOK' /\ RequestsOK'
  <2>1. op[b].id \in used \cup {Nil} BY <1>1, <1>2 DEF TypeOK
  <2>2. o.id \in used' \cup {Nil} BY <2>1
  <2>3. /\ rows' \subseteq used' /\ arn' \subseteq {x \in used' : Given[x] # Nil}
        /\ store' \in [Auths -> Passwords \cup {Nil}]
        /\ wanted' \in [Auths -> Passwords \cup {Nil}]
        /\ left' \in [Bulks -> SUBSET Auths]
    BY <1>2, <1>3 DEF TypeOK
  <2> QED BY <1>3, <2>2, <2>3, BulkFrame
<1>5. UnbornOK' BY <1>1, <1>2, <1>3, UnbornFrame
<1>6. FoundOK(b)'
  <2>1. pc'[b] = p BY <1>1, Moved
  <2> QED BY <2>1 DEF FoundOK, Editing, Deleting, InTx
<1>7. StoreOK' BY <1>1, <1>2, <1>3, <1>6, StoreFrame
<1>8. Alone' BY <1>1, <1>2, <1>3, AloneFrame
<1>9. ASSUME clean' PROVE MatchOK'
  <2>1. MatchOK BY <1>2, <1>9
  <2>2. pc[b] \in InTx \cup {"idle"} \cup {"done"} BY <1>1 DEF BulkOK
  <2>3. pc[b] \notin {"row", "remove", "undo", "insert", "pluck", "update"}
    BY <2>2 DEF InTx
  <2>4. p \notin {"pluck", "update"} BY DEF InTx
  <2>5. pc[b] # "bulk undo" /\ (pc[b] = "bulk insert" => p = "bulk undo" /\ o.id = op[b].id)
    BY <1>9
  <2> QED BY <1>1, <1>2, <1>3, <2>1, <2>3, <2>4, <2>5, MatchFrame
<1> QED BY <1>4, <1>5, <1>7, <1>8, <1>9, Zenon DEF Inner

\* The steps of a transaction that neither look at the store nor write to it.
LEMMA BulkGo ==
    ASSUME Inner, NEW b \in Bulks,
           NEW p \in InTx \ {"auths", "bulk insert", "bulk undo"}, Go(b, p),
           UNCHANGED <<table, store, history, bulkVars>>,
           pc[b] \notin {"bulk insert", "bulk undo"}
    PROVE  Inner'
<1>1. b \in Clients /\ b \notin Singles /\ BulkOK(b) /\ op[b] \in Ops BY BulkFacts
<1>2. Moves(b, p, op[b]) /\ p \in Places BY <1>1, GoMoves DEF Places
<1>3. pc'[b] = p /\ op'[b] = op[b] BY <1>1, <1>2, Moved
<1>4. /\ rows' = rows /\ arn' = arn /\ store' = store /\ wanted' = wanted /\ used' = used
      /\ shared' = shared /\ left' = left /\ committed' = committed /\ clean' = clean
  BY DEF table, history, bulkVars
<1>5. BulkOK(b)' BY <1>1, <1>3, <1>4 DEF BulkOK, Inserting
<1>6. clean \in BOOLEAN /\ used \subseteq Auths BY DEF Inner, TypeOK
<1> QED BY <1>1, <1>2, <1>4, <1>5, <1>6, QuietBulk

\* COMMIT or ROLLBACK of a transaction in which none of the credentials are.
LEMMA BulkReply ==
    ASSUME Inner, NEW b \in Bulks, Reply(b),
           UNCHANGED <<table, store, wanted, shared, left>>,
           committed' \subseteq committed \cup {b}, b \in committed' => left[b] = {},
           clean' \in BOOLEAN, clean' => clean /\ pc[b] \notin {"bulk insert", "bulk undo"}
    PROVE  Inner'
<1>1. b \in Clients /\ b \notin Singles /\ BulkOK(b) /\ op[b] \in Ops BY BulkFacts
<1>2. Moves(b, "done", None) /\ "done" \in Places /\ None \in Ops BY ReplyMoves
<1>3. pc'[b] = "done" /\ op'[b] = None BY <1>1, <1>2, Moved
<1>4. /\ rows' = rows /\ arn' = arn /\ store' = store /\ wanted' = wanted /\ used' = used
      /\ shared' = shared /\ left' = left
  BY DEF table
<1>5. BulkOK(b)' BY <1>1, <1>3, <1>4 DEF BulkOK, Inserting
<1>6. used \subseteq Auths /\ None.id = Nil BY DEF Inner, TypeOK, None
<1> QED BY <1>1, <1>2, <1>4, <1>5, <1>6, QuietBulk

\* All the steps of a bulk request but those that create credentials.
LEMMA QuietSteps ==
    ASSUME Inner, NEW b \in Bulks,
           \/ BeginTransaction(b) \/ Parse(b) \/ Save(b) \/ LinkUp(b) \/ Commit(b) \/ Rollback(b)
           \/ Fail(b) /\ UNCHANGED bulkVars
    PROVE  Inner'
<1>1. CASE BeginTransaction(b)
  BY <1>1, BulkGo DEF BeginTransaction, Idle, InTx
<1>2. CASE Parse(b) BY <1>2, BulkGo DEF Parse, InTx
<1>3. CASE Save(b) BY <1>3, BulkGo DEF Save, InTx
<1>4. CASE LinkUp(b)
  <2>1. CASE Go(b, "rollback") /\ used' = used
    <3>1. UNCHANGED <<table, store, history, bulkVars>> BY <1>4, <2>1 DEF LinkUp, table
    <3> QED BY <1>4, <2>1, <3>1, BulkGo DEF LinkUp, InTx
  <2>2. CASE Go(b, "auths") /\ used' = used \cup AuthsOf[b]
    <3>1. /\ b \in Clients /\ BulkOK(b) /\ op[b] \in Ops /\ AuthsOf[b] \subseteq Auths
      BY BulkFacts
    <3>2. Moves(b, "auths", op[b]) /\ "auths" \in Places BY <2>2, <3>1, GoMoves DEF Places, InTx
    <3>3. pc'[b] = "auths" /\ op'[b] = op[b] BY <3>1, <3>2, Moved
    <3>4. /\ rows' = rows /\ arn' = arn /\ store' = store /\ wanted' = wanted
          /\ shared' = shared /\ left' = left /\ committed' = committed /\ clean' = clean
          /\ pc[b] = "link"
      BY <1>4 DEF LinkUp, history, bulkVars
    <3>5. BulkOK(b)' BY <2>2, <3>1, <3>3, <3>4 DEF BulkOK, Inserting, InTx
    <3>6. clean \in BOOLEAN /\ used \subseteq Auths BY DEF Inner, TypeOK
    <3> QED BY <2>2, <3>1, <3>2, <3>4, <3>5, <3>6, QuietBulk DEF InTx
  <2> QED BY <1>4, <2>1, <2>2 DEF LinkUp
<1>5. CASE Commit(b)
  <2>1. /\ UNCHANGED <<table, store, wanted, shared, left>> /\ clean' = clean /\ pc[b] = "auths"
        /\ left[b] = {} /\ clean \in BOOLEAN
    BY <1>5 DEF Commit, history, Inner, TypeOK
  <2>2. CASE committed' = committed \cup {b} /\ Reply(b) BY <2>1, <2>2, BulkReply
  <2>3. CASE committed' = committed /\ Go(b, "rollback")
    <3>1. UNCHANGED <<table, store, history, bulkVars>> BY <1>5, <2>3 DEF Commit, bulkVars
    <3> QED BY <2>1, <2>3, <3>1, BulkGo DEF InTx
  <2> QED BY <1>5, <2>2, <2>3 DEF Commit
<1>6. CASE Rollback(b)
  <2>1. /\ UNCHANGED <<table, store, wanted, shared, left>> /\ clean' = clean
        /\ pc[b] = "rollback" /\ committed' = committed /\ clean \in BOOLEAN /\ Reply(b)
    BY <1>6 DEF Rollback, history, Inner, TypeOK, bulkVars
  <2>2. b \in committed => left[b] = {} BY BulkFacts DEF BulkOK
  <2> QED BY <2>1, <2>2, BulkReply
<1>7. CASE Fail(b) /\ UNCHANGED bulkVars
  <2>1. /\ UNCHANGED <<table, store, wanted, shared, left>> /\ clean' = FALSE
        /\ committed' = committed /\ Reply(b)
    BY <1>7 DEF Fail, bulkVars
  <2>2. b \in committed => left[b] = {} BY BulkFacts DEF BulkOK
  <2> QED BY <2>1, <2>2, BulkReply
<1> QED BY <1>1, <1>2, <1>3, <1>4, <1>5, <1>6, <1>7
-----------------------------------------------------------------------------
\* What a bulk request has yet to insert is known to nobody else.
\* A credential a bulk request still has to create is no other request's.
LEMMA BulkAlone ==
    ASSUME Inner, NEW b \in Bulks, NEW a \in left[b]
    PROVE  /\ a \in Auths /\ a \notin rows \cup arn
           /\ \A q \in Clients \ {b} : op[q].id = a =>
                pc[q] \in {"idle", "done", "load"} /\ q \in Singles
<1>1. a \in Auths /\ a \in InBulk /\ a \in AuthsOf[b] /\ a # Nil BY BulkFacts
<1>2. Unborn(a) BY DEF Unborn
<1>3. /\ a \notin rows \cup arn
      /\ \A q \in Singles : op[q].id = a => ~Editing(q) /\ ~Deleting(q)
  BY <1>1, <1>2 DEF Inner, UnbornOK
<1>4. ASSUME NEW q \in Clients \ {b}, op[q].id = a
      PROVE  pc[q] \in {"idle", "done", "load"} /\ q \in Singles
  <2>1. CASE q \in Singles
    <3>1. SingleOK(q) BY <2>1 DEF Inner, RequestsOK
    <3> QED BY <1>1, <1>3, <1>4, <2>1, <3>1 DEF SingleOK
  <2>2. CASE q \in Bulks
    <3>1. BulkOK(q) BY <2>2 DEF Inner, RequestsOK
    <3>2. op[q] = None \/ op[q].id \in AuthsOf[q] BY <3>1 DEF BulkOK
    <3>3. AuthsOf[q] \cap AuthsOf[b] = {} BY <2>2, <1>4, BulkAssumption
    <3> QED BY <1>1, <1>4, <3>2, <3>3 DEF None
  <2> QED BY <2>1, <2>2 DEF Singles
<1> QED BY <1>1, <1>3, <1>4

\* A step that creates: only its credential is touched.
LEMMA ActBulk ==
    ASSUME Inner, NEW b \in Bulks, NEW p \in Places, NEW o \in Ops,
           Moves(b, p, o), NEW a \in left[b], o.id = a,
           op[b].id # a => pc[b] = "auths", a \in used,
           UNCHANGED <<used, shared, committed>>,
           rows \subseteq rows', rows' \subseteq used,
           arn' \subseteq {x \in used : Given[x] # Nil},
           store' \in [Auths -> Passwords \cup {Nil}], wanted' \in [Auths -> Passwords \cup {Nil}],
           \A x \in Auths \ {a} : /\ x \in rows' <=> x \in rows
                                  /\ x \in arn' <=> x \in arn
                                  /\ store'[x] = store[x] /\ wanted'[x] = wanted[x],
           left' \in [Bulks -> SUBSET Auths], \A c \in Bulks \ {b} : left'[c] = left[c],
           clean' \in BOOLEAN, BulkOK(b)', UnbornOK', FoundOK(b)', a \in rows' => RowOK(a)',
           clean' => clean /\ Matches(a)'
    PROVE  Inner'
<1>1. /\ b \in Clients /\ b \notin Singles /\ a \in Auths /\ Nil \notin Auths
      /\ \A q \in Clients \ {b} : op[q].id = a => pc[q] \in {"idle", "done", "load"}
  BY BulkFacts, BulkAlone
<1>2. /\ TypeOK /\ RequestsOK /\ StoreOK /\ Alone /\ (clean => MatchOK)
      /\ used \subseteq Auths /\ used' = used /\ shared' = shared /\ committed' = committed
  BY DEF Inner, TypeOK
<1>3. TypeOK' /\ RequestsOK' BY <1>2, BulkFrame
<1>4. Alone' BY <1>1, <1>2, AloneFrame
<1>5. \A q \in Clients \ {b} : op[q].id = a => FoundOK(q)'
  <2> SUFFICES ASSUME NEW q \in Clients \ {b}, op[q].id = a PROVE FoundOK(q)'
    OBVIOUS
  <2>1. pc'[q] = pc[q] BY <1>1 DEF Moves, Inner, RequestsOK
  <2> QED BY <1>1, <2>1 DEF FoundOK, Editing, Deleting
<1>6. StoreOK'
  <2>1. rows' \subseteq Auths BY <1>2
  <2> QED BY <1>1, <1>2, <1>5, <2>1, StoreAt
<1>7. ASSUME clean' PROVE MatchOK'
  <2>1. MatchOK /\ Matches(a)' BY <1>2, <1>7
  <2>2. op[b].id # a => pc[b] \in {"idle", "auths"} OBVIOUS
  <2> QED BY <1>1, <1>2, <2>1, <2>2, MatchAt
<1> QED BY <1>3, <1>4, <1>6, <1>7, Zenon DEF Inner

\* CreateSecret of a credential of a bulk request.
LEMMA CreateBulkSecretKeeps ==
    ASSUME Inner, NEW b \in Bulks, NEW a, CreateBulkSecret(b, a)
    PROVE  Inner'
<1>1. /\ pc[b] = "auths" /\ a \in left[b] /\ clean' = clean /\ clean \in BOOLEAN
      /\ rows' = rows /\ arn' = arn /\ used' = used /\ wanted' = wanted /\ shared' = shared
      /\ left' = left /\ committed' = committed
  BY DEF CreateBulkSecret, table, history, bulkVars, Inner, TypeOK
<1>2. /\ b \in Clients /\ b \notin Singles /\ BulkOK(b) /\ AuthsOf[b] \subseteq used
      /\ left[b] \subseteq AuthsOf[b]
  BY <1>1, BulkFacts DEF BulkOK
<1>3. a \in Auths /\ a \notin rows \cup arn BY <1>1, BulkAlone
<1>4. CASE Go(b, "rollback") /\ store' = store
  <2>1. UNCHANGED <<table, store, history, bulkVars>>
    BY <1>4 DEF CreateBulkSecret
  <2> QED BY <1>1, <1>4, <2>1, BulkGo DEF InTx
<1>5. CASE /\ pc' = [pc EXCEPT ![b] = "bulk insert"]
           /\ op' = [op EXCEPT ![b] = [kind |-> "bulk", id |-> a, pw |-> Given[a]]]
           /\ store' = [store EXCEPT ![a] = Given[a]]
  <2>1. PICK o : o = [kind |-> "bulk", id |-> a, pw |-> Given[a]] OBVIOUS
  <2>2. Given[a] \in Passwords \cup {Nil} BY <1>3, BulkAssumption, CredentialsAssumption
  <2>3. o \in Ops /\ o.id = a /\ o.pw = Given[a] BY <1>3, <2>1, <2>2 DEF Ops
  <2>4. Moves(b, "bulk insert", o) /\ "bulk insert" \in Places
    BY <1>5, <2>1 DEF Moves, Places, InTx
  <2>5. pc'[b] = "bulk insert" /\ op'[b] = o BY <1>2, <2>4, Moved
  <2>6. BulkOK(b)' BY <1>1, <1>2, <2>3, <2>5 DEF BulkOK, Inserting, InTx
  <2>7. /\ store' \in [Auths -> Passwords \cup {Nil}] /\ store'[a] = Given[a]
        /\ \A x \in Auths \ {a} : store'[x] = store[x]
        /\ rows' \subseteq used /\ arn' \subseteq {x \in used : Given[x] # Nil}
        /\ wanted' \in [Auths -> Passwords \cup {Nil}] /\ left' \in [Bulks -> SUBSET Auths]
    BY <1>1, <1>3, <1>5, <2>2 DEF Inner, TypeOK
  <2>8. FoundOK(b)' BY <2>3, <2>5, <2>7 DEF FoundOK, Editing, Deleting
  <2>9. UnbornOK' BY <1>1, <1>2, <2>4, UnbornFrame DEF Inner
  <2>10. Matches(a)'
    <3>1. Leftover(a)' BY <1>2, <2>3, <2>5 DEF Leftover
    <3> QED BY <1>1, <1>3, <3>1 DEF Matches
  <2>11. a \in used /\ a \notin rows' /\ rows \subseteq rows' BY <1>1, <1>2, <1>3
  <2> QED BY <1>1, <2>3, <2>4, <2>6, <2>7, <2>8, <2>9, <2>10, <2>11, ActBulk
<1> QED BY <1>4, <1>5 DEF CreateBulkSecret

\* Its INSERT, outside of the transaction.
LEMMA InsertBulkRowKeeps ==
    ASSUME Inner, NEW b \in Bulks, InsertBulkRow(b), NEW a, a = op[b].id
    PROVE  Inner'
<1>1. /\ pc[b] = "bulk insert" /\ clean' = clean /\ clean \in BOOLEAN
      /\ used' = used /\ store' = store /\ shared' = shared /\ committed' = committed
  BY DEF InsertBulkRow, Inner, TypeOK
<1>2. /\ b \in Clients /\ b \notin Singles /\ BulkOK(b) /\ AuthsOf[b] \subseteq used
      /\ AuthsOf[b] \subseteq InBulk /\ op[b] \in Ops
      /\ a \in left[b] /\ a \in AuthsOf[b] /\ op[b].pw = Given[a]
  BY <1>1, BulkFacts DEF BulkOK, Inserting
<1>3. /\ a \in Auths /\ a \notin rows \cup arn
      /\ \A q \in Clients \ {b} : op[q].id = a => pc[q] \in {"idle", "done", "load"}
  BY <1>2, BulkAlone
<1>4. /\ Given[a] \in Passwords \cup {Nil} /\ store[a] = Given[a] /\ a \in used
  BY <1>1, <1>2, <1>3, BulkAssumption, CredentialsAssumption DEF Inner, StoreOK, FoundOK
<1>5. CASE Go(b, "bulk undo") /\ UNCHANGED <<rows, arn, wanted, left>>
  <2>1. Moves(b, "bulk undo", op[b]) /\ "bulk undo" \in Places
    BY <1>2, <1>5, GoMoves DEF Places, InTx
  <2>2. pc'[b] = "bulk undo" /\ op'[b] = op[b] BY <1>2, <2>1, Moved
  <2>3. BulkOK(b)' BY <1>1, <1>2, <1>5, <2>2 DEF BulkOK, Inserting, InTx
  <2>4. used \subseteq Auths BY DEF Inner, TypeOK
  <2> QED BY <1>1, <1>2, <1>5, <2>1, <2>3, <2>4, QuietBulk DEF InTx
<1>6. CASE /\ Inserted(a, op[b].pw) /\ Go(b, "auths")
           /\ left' = [left EXCEPT ![b] = @ \ {a}]
  <2>1. Moves(b, "auths", op[b]) /\ "auths" \in Places BY <1>2, <1>6, GoMoves DEF Places, InTx
  <2>2. pc'[b] = "auths" /\ op'[b] = op[b] BY <1>2, <2>1, Moved
  <2>3. /\ rows' = rows \cup {a} /\ arn' = IF Given[a] # Nil THEN arn \cup {a} ELSE arn
        /\ wanted' = [wanted EXCEPT ![a] = Given[a]]
    BY <1>2, <1>6 DEF Inserted
  <2>4. /\ left'[b] = left[b] \ {a} /\ \A c \in Bulks \ {b} : left'[c] = left[c]
        /\ left' \in [Bulks -> SUBSET Auths]
    BY <1>6 DEF Inner, TypeOK
  <2>5. BulkOK(b)' BY <1>1, <1>2, <2>2, <2>3, <2>4 DEF BulkOK, Inserting, InTx
  <2>6. /\ rows \subseteq rows' /\ rows' \subseteq used
        /\ arn' \subseteq {x \in used : Given[x] # Nil}
        /\ store' \in [Auths -> Passwords \cup {Nil}]
          /\ wanted' \in [Auths -> Passwords \cup {Nil}]
        /\ wanted'[a] = Given[a]
        /\ \A x \in Auths \ {a} : /\ x \in rows' <=> x \in rows
                                  /\ x \in arn' <=> x \in arn
                                  /\ store'[x] = store[x] /\ wanted'[x] = wanted[x]
    BY <1>1, <1>3, <1>4, <2>3 DEF Inner, TypeOK
  <2>7. FoundOK(b)' BY <2>2 DEF FoundOK, Editing, Deleting
  <2>8. \A q \in Singles : pc'[q] = pc[q] /\ op'[q] = op[q] BY <1>2, <2>1, SingleMoves
  <2>9. UnbornOK'
    <3>1. \A q \in Singles : /\ Creating(q)' => Creating(q) /\ op'[q].id = op[q].id
                             /\ (Editing(q) \/ Deleting(q))' =>
                                  (Editing(q) \/ Deleting(q)) /\ op'[q].id = op[q].id
      BY <2>8 DEF Creating, Editing, Deleting
    <3>2. ASSUME NEW x \in Auths, Unborn(x)' PROVE Unborn(x) /\ x # a
      <4>1. CASE \E q \in Singles : Creating(q)' /\ op'[q].id = x
        <5>1. PICK q \in Singles : Creating(q) /\ op[q].id = x BY <3>1, <4>1
        <5>2. pc[q] \notin {"idle", "done", "load"} BY <5>1 DEF Creating
        <5> QED BY <1>2, <1>3, <5>1, <5>2 DEF Unborn, Singles
      <4>2. CASE \E c \in Bulks : x \in left'[c]
        <5>1. PICK c \in Bulks : x \in left'[c] BY <4>2
        <5>2. CASE c = b BY <2>4, <5>1, <5>2 DEF Unborn
        <5>3. CASE c # b
          <6>1. x \in left[c] /\ left[c] \subseteq AuthsOf[c] BY <2>4, <5>1, <5>3, BulkFacts
          <6>2. AuthsOf[c] \cap AuthsOf[b] = {} BY <5>3, BulkAssumption
          <6> QED BY <1>2, <6>1, <6>2 DEF Unborn
        <5> QED BY <5>2, <5>3
      <4> QED BY <3>2, <4>1, <4>2 DEF Unborn
    <3>3. ASSUME NEW x \in Auths, Unborn(x)'
          PROVE  /\ x \notin rows' \cup arn'
                 /\ \A q \in Singles : op'[q].id = x => ~(Editing(q) \/ Deleting(q))'
      <4>1. x # a /\ x \notin rows \cup arn
            /\ \A q \in Singles : op[q].id = x => ~Editing(q) /\ ~Deleting(q)
        BY <3>2, <3>3 DEF Inner, UnbornOK
      <4> QED BY <2>6, <3>1, <4>1
    <3>4. \A q1, q2 \in Singles :
            Creating(q1)' /\ Creating(q2)' /\ op'[q1].id = op'[q2].id => q1 = q2
      BY <3>1 DEF Inner, UnbornOK
    <3> QED BY <3>3, <3>4 DEF UnbornOK
  <2>10. RowOK(a)' BY <1>1, <1>3, <1>4, <2>3 DEF RowOK
  <2>11. Matches(a)'
    <3>1. \A q \in Singles : op'[q].id = a => pc'[q] \notin {"pluck", "update"}
      BY <1>2, <1>3, <2>8 DEF Singles
    <3>2. a \in rows' /\ store'[a] = Given[a] /\ wanted'[a] = Given[a]
          /\ (a \in arn' => Given[a] # Nil)
      BY <1>1, <1>3, <1>4, <2>3, <2>6
    <3> QED BY <3>1, <3>2 DEF Matches
  <2> QED BY <1>1, <1>2, <1>4, <2>1, <2>4, <2>5, <2>6, <2>7, <2>9, <2>10, <2>11, ActBulk
<1> QED BY <1>5, <1>6 DEF InsertBulkRow

\* The secret of a row that failed is deleted.
LEMMA UndoBulkKeeps ==
    ASSUME Inner, NEW b \in Bulks, UndoBulk(b), NEW a, a = op[b].id
    PROVE  Inner'
<1>1. /\ pc[b] = "bulk undo" /\ Go(b, "rollback") /\ clean \in BOOLEAN
      /\ rows' = rows /\ arn' = arn /\ used' = used /\ wanted' = wanted /\ shared' = shared
      /\ left' = left /\ committed' = committed
  BY DEF UndoBulk, table, bulkVars, Inner, TypeOK
<1>2. /\ b \in Clients /\ b \notin Singles /\ BulkOK(b) /\ op[b] \in Ops
      /\ a \in left[b] /\ a \in Auths /\ a \in used /\ used \subseteq Auths
  BY <1>1, BulkFacts DEF BulkOK, Inserting, Inner, TypeOK
<1>3. a \notin rows \cup arn BY <1>2, BulkAlone
<1>4. Moves(b, "rollback", op[b]) /\ "rollback" \in Places BY <1>1, <1>2, GoMoves DEF Places, InTx
<1>5. pc'[b] = "rollback" /\ op'[b] = op[b] BY <1>2, <1>4, Moved
<1>6. BulkOK(b)' BY <1>1, <1>2, <1>5 DEF BulkOK, Inserting, InTx
<1>7. CASE store' = store /\ clean' = FALSE
  BY <1>1, <1>2, <1>4, <1>6, <1>7, QuietBulk DEF InTx
<1>8. CASE store' = [store EXCEPT ![a] = Nil] /\ clean' = clean
  <2>1. /\ store' \in [Auths -> Passwords \cup {Nil}] /\ store'[a] = Nil
        /\ \A x \in Auths \ {a} : store'[x] = store[x]
        /\ rows' \subseteq used /\ arn' \subseteq {x \in used : Given[x] # Nil}
        /\ wanted' \in [Auths -> Passwords \cup {Nil}] /\ left' \in [Bulks -> SUBSET Auths]
    BY <1>1, <1>2, <1>8 DEF Inner, TypeOK
  <2>2. FoundOK(b)' BY <1>5 DEF FoundOK, Editing, Deleting
  <2>3. UnbornOK' BY <1>1, <1>2, <1>4, UnbornFrame DEF Inner
  <2>4. Matches(a)' BY <1>1, <1>3, <2>1 DEF Matches
  <2>5. a \notin rows' /\ rows \subseteq rows' BY <1>1, <1>3
  <2> QED BY <1>1, <1>2, <1>4, <1>6, <1>8, <2>1, <2>2, <2>3, <2>4, <2>5, ActBulk
<1> QED BY <1>7, <1>8 DEF UndoBulk

\* One case for each action.
LEMMA NextInner ==
    ASSUME Inner, [Next]_<<vars, bulkVars>> PROVE Inner'
<1>1. ASSUME NEW b \in Bulks, BeginTransaction(b) \/ BulkStep(b) PROVE Inner'
  <2>1. CASE InsertBulkRow(b)
    <3>1. PICK a : a = op[b].id OBVIOUS
    <3> QED BY <2>1, <3>1, InsertBulkRowKeeps
  <2>2. CASE UndoBulk(b)
    <3>1. PICK a : a = op[b].id OBVIOUS
    <3> QED BY <2>2, <3>1, UndoBulkKeeps
  <2>3. CASE \E a \in AuthsOf[b] : CreateBulkSecret(b, a) BY <2>3, CreateBulkSecretKeeps
  <2> QED BY <1>1, <2>1, <2>2, <2>3, QuietSteps DEF BulkStep
<1>2. ASSUME NEW r \in Singles, SingleStep(r) PROVE Inner'
  <2>1. PICK a : a = op[r].id OBVIOUS
  <2>2. UNCHANGED bulkVars /\ (DatabaseStep(r) \/ StoreStep(r)) BY <1>2 DEF SingleStep
  <2>3. CASE DatabaseStep(r)
    BY <2>1, <2>2, <2>3, InsertRowKeeps, LoadKeeps, PluckKeeps, WriteRowKeeps, DeleteRowKeeps
    DEF DatabaseStep
  <2>4. CASE StoreStep(r)
    BY <2>1, <2>2, <2>4, CreateSecretKeeps, UndoKeeps, GetSecretKeeps, UpdateSecretKeeps,
       RemoveSecretKeeps
    DEF StoreStep
  <2> QED BY <2>2, <2>3, <2>4
<1>3. ASSUME NEW r \in Singles, Request(r), UNCHANGED bulkVars PROVE Inner'
  BY <1>3, BeginKeeps
<1>4. ASSUME NEW r \in Clients, Fail(r), UNCHANGED bulkVars PROVE Inner'
  BY <1>4, FailKeeps, QuietSteps DEF Singles
<1>5. CASE UNCHANGED <<vars, bulkVars>>
  <2>1. /\ rows' = rows /\ arn' = arn /\ used' = used /\ store' = store /\ pc' = pc /\ op' = op
        /\ wanted' = wanted /\ shared' = shared /\ clean' = clean /\ left' = left
        /\ committed' = committed
    BY <1>5 DEF vars, bulkVars
  <2>2. TypeOK' /\ Alone' BY <2>1 DEF Inner, TypeOK, Alone
  <2>3. RequestsOK'
    BY <2>1 DEF Inner, RequestsOK, SingleOK, BulkOK, Creating, Editing, Deleting, Inserting
  <2>4. UnbornOK' BY <2>1 DEF Inner, UnbornOK, Unborn, Creating, Editing, Deleting
  <2>5. StoreOK' BY <2>1 DEF Inner, StoreOK, FoundOK, RowOK, Editing, Deleting
  <2>6. ASSUME MatchOK PROVE MatchOK'
    <3> SUFFICES ASSUME NEW a \in Auths PROVE Matches(a)'
      BY DEF MatchOK
    <3>1. Matches(a) BY <2>6 DEF MatchOK
    <3>2. /\ Undeleted(a)' <=> Undeleted(a)
          /\ Leftover(a)' <=> Leftover(a)
          /\ Rewritten(a)' <=> Rewritten(a)
      BY <2>1 DEF Undeleted, Leftover, Rewritten
    <3> QED BY <2>1, <3>1, <3>2 DEF Matches
  <2>7. clean' => MatchOK' BY <2>1, <2>6, Zenon DEF Inner
  <2> QED BY <2>2, <2>3, <2>4, <2>5, <2>7, Zenon DEF Inner
<1> QED BY <1>1, <1>2, <1>3, <1>4, <1>5 DEF Next, Singles

(* However the creations, edits and deletions of credentials, bulk requests *)
(* and failures interleave: a row with an ARN has its secret, no secret is *)
(* left without a row, a password is the last one asked for, and a bulk    *)
(* request that was committed has all of its credentials.                  *)
THEOREM SecretsSafe == Spec => []SecretsInv
<1>1. Init => Inner BY InitInner
<1>2. Inner /\ [Next]_<<vars, bulkVars>> => Inner' BY NextInner
<1>3. Inner => SecretsInv BY InnerGivesInv
<1> QED BY <1>1, <1>2, <1>3, PTL DEF Spec

-----------------------------------------------------------------------------
(* The numbers of a set, in their order.                                    *)

(* A set of natural numbers has a least element: the sets 1..x of its       *)
(* elements have a minimal one.                                            *)
LEMMA LeastExists ==
    ASSUME NEW S \in SUBSET Nat, S # {}
    PROVE  Min(S) \in S /\ \A y \in S : Min(S) <= y
<1> DEFINE T == {1..x : x \in S}
<1>1. T \subseteq FiniteSubsetsOf(Nat) /\ T # {}
  <2>1. \A x \in S : 1..x \subseteq Nat /\ IsFiniteSet(1..x)
    BY FS_Interval
  <2> QED BY <2>1 DEF FiniteSubsetsOf
<1>2. PICK m \in T : \A U \in T : ~(<<U, m>> \in StrictSubsetOrdering(Nat))
  <2> HIDE DEF T
  <2> QED BY <1>1, FS_StrictSubsetOrderingWellFounded, WFMin
<1>3. PICK x \in S : m = 1..x
  BY <1>2
<1>4. \A y \in S : x <= y
  <2> SUFFICES ASSUME NEW y \in S, y < x  PROVE FALSE
    OBVIOUS
  <2>1. 1..y \subseteq 1..x /\ x \in 1..x /\ x \notin 1..y /\ 1..x \subseteq Nat
    BY SMT
  <2>2. <<1..y, m>> \in StrictSubsetOrdering(Nat)
    BY <2>1, <1>3 DEF StrictSubsetOrdering
  <2> QED BY <2>2, <1>2
<1> QED BY <1>4 DEF Min

\* ... and one of the numbers up to n a greatest.
LEMMA GreatestExists ==
    ASSUME NEW n \in Nat, NEW S \in SUBSET (0..n), S # {}
    PROVE  Max(S) \in S /\ \A y \in S : Max(S) >= y
<1> DEFINE T == {n - x : x \in S}
<1>1. T \in SUBSET Nat /\ T # {}
  <2>1. \A x \in S : n - x \in Nat
    OBVIOUS
  <2> QED BY <2>1
<1>2. Min(T) \in T /\ \A y \in T : Min(T) <= y
  <2> HIDE DEF T
  <2> QED BY <1>1, LeastExists
<1>3. PICK x \in S : Min(T) = n - x
  BY <1>2
<1>4. \A y \in S : x >= y
  <2> TAKE y \in S
  <2>1. n - x <= n - y
    BY <1>2, <1>3
  <2> QED BY <2>1
<1> QED BY <1>4 DEF Max

\* What Ascending chooses.
Enumerates(f, S) ==
    /\ f \in [1..Cardinality(S) -> S]
    /\ \A i, j \in 1..Cardinality(S) : i < j => f[i] < f[j]

(* The numbers of a finite set can be listed in their order: the smallest,  *)
(* and then the others, of which there are less.                            *)
LEMMA AscendingFacts ==
    ASSUME NEW S \in SUBSET Nat, IsFiniteSet(S)
    PROVE  Enumerates(Ascending(S), S)
<1> DEFINE Bad == {T \in SUBSET S : ~ \E f : Enumerates(f, T)}
<1>1. Bad = {}
  <2> SUFFICES ASSUME Bad # {} PROVE FALSE OBVIOUS
  <2>1. Bad \subseteq FiniteSubsetsOf(S)
    BY FS_Subset DEF FiniteSubsetsOf
  <2>2. PICK T \in Bad : \A U \in Bad : ~(<<U, T>> \in StrictSubsetOrdering(S))
    <3> HIDE DEF Bad
    <3> QED BY <2>1, FS_StrictSubsetOrderingWellFounded, WFMin
  <2>3. T \subseteq S /\ T \subseteq Nat /\ IsFiniteSet(T)
    BY <2>1 DEF FiniteSubsetsOf
  <2>4. T # {}
    <3> SUFFICES ASSUME T = {} PROVE FALSE OBVIOUS
    <3>1. Cardinality(T) = 0 BY FS_EmptySet
    <3>2. Enumerates([i \in 1..0 |-> i], T) BY <3>1 DEF Enumerates
    <3> QED BY <3>2
  <2> DEFINE m == Min(T)
             U == T \ {m}
             c == Cardinality(U)
  <2> HIDE DEF m, Bad
  <2>5. m \in T /\ \A y \in U : m < y
    <3>1. m \in T /\ \A y \in T : m <= y
      BY <2>3, <2>4, LeastExists DEF m
    <3> QED BY <2>3, <3>1
  <2>6. c \in Nat /\ Cardinality(T) = c + 1 /\ IsFiniteSet(U)
    <3>1. IsFiniteSet(U) /\ Cardinality(U) = Cardinality(T) - 1
      BY <2>3, <2>5, FS_RemoveElement
    <3>2. Cardinality(T) \in Nat /\ c \in Nat
      BY <2>3, <3>1, FS_CardinalityType
    <3> QED BY <3>1, <3>2
  <2>7. <<U, T>> \in StrictSubsetOrdering(S)
    BY <2>3, <2>5 DEF StrictSubsetOrdering
  <2>8. PICK f : Enumerates(f, U)
    BY <2>2, <2>3, <2>7 DEF Bad
  <2> DEFINE g == [i \in 1..(c + 1) |-> IF i = 1 THEN m ELSE f[i - 1]]
  <2> HIDE DEF c, U
  <2>9. \A i \in 2..(c + 1) : i - 1 \in 1..c /\ f[i - 1] \in U
    BY <2>6, <2>8 DEF Enumerates, c
  <2>10. g \in [1..(c + 1) -> T]
    <3>1. \A i \in 1..(c + 1) : i = 1 \/ i \in 2..(c + 1)
      BY <2>6
    <3>2. \A i \in 1..(c + 1) : (IF i = 1 THEN m ELSE f[i - 1]) \in T
      BY <2>5, <2>9, <3>1 DEF U
    <3> QED BY <3>2
  <2>11. ASSUME NEW i \in 1..(c + 1), NEW j \in 1..(c + 1), i < j PROVE g[i] < g[j]
    <3>1. g[j] = f[j - 1] /\ j - 1 \in 1..c /\ g[j] \in U
      <4>1. j \in 2..(c + 1) BY <2>6, <2>11
      <4>2. g[j] = IF j = 1 THEN m ELSE f[j - 1] BY <2>11
      <4> QED BY <2>9, <4>1, <4>2
    <3>2. CASE i = 1 BY <2>5, <2>6, <3>1, <3>2
    <3>3. CASE i # 1
      <4>1. g[i] = f[i - 1] /\ i - 1 \in 1..c /\ i - 1 < j - 1
        BY <2>6, <2>9, <2>11, <3>3
      <4> QED BY <2>8, <3>1, <4>1 DEF Enumerates, c
    <3> QED BY <3>2, <3>3
  <2>12. Enumerates(g, T)
    <3> HIDE DEF g
    <3> QED BY <2>6, <2>10, <2>11 DEF Enumerates, c
  <2> QED BY <2>12 DEF Bad
<1>2. \E f : Enumerates(f, S)
  BY <1>1
<1> QED BY <1>2 DEF Enumerates, Ascending

-----------------------------------------------------------------------------
(* Induction up to a number, and what FlattenSeq returns.                   *)

(* Induction on a set of numbers: from m, one by one, up to n.              *)
LEMMA InductionUpTo ==
    ASSUME NEW m \in Nat, NEW n \in Nat, NEW Good, m \in Good,
           \A i \in m..n : i # n /\ i \in Good => i + 1 \in Good
    PROVE  m..n \subseteq Good
<1> DEFINE Bad == (m..n) \ Good
<1> SUFFICES ASSUME Bad # {} PROVE FALSE OBVIOUS
<1>1. PICK k \in Bad : \A y \in Bad : k <= y
  <2>1. Bad \in SUBSET Nat OBVIOUS
  <2> HIDE DEF Bad
  <2> QED BY <2>1, LeastExists
<1>2. k \in m..n /\ k # m /\ k \notin Good BY <1>1
<1>3. k - 1 \in m..n /\ k - 1 # n /\ (k - 1) + 1 = k BY <1>2
<1>4. k - 1 \notin Bad
  <2>1. ~(k <= k - 1) BY <1>2
  <2> HIDE DEF Bad
  <2> QED BY <1>1, <2>1
<1>5. k - 1 \in Good BY <1>3, <1>4
<1> QED BY <1>2, <1>3, <1>5

\* The recursion of FlattenSeq, up to n.
Flattens(f, s, n) ==
    f = [i \in 1..n |-> IF i = 1 THEN s[i] ELSE f[i - 1] \o s[i]]

LEMMA FlattensMore ==
    ASSUME NEW s, NEW n \in Nat, NEW f, Flattens(f, s, n)
    PROVE  \E g : Flattens(g, s, n + 1)
<1> DEFINE last == IF n = 0 THEN s[1] ELSE f[n] \o s[n + 1]
           g == [i \in 1..(n + 1) |-> IF i = n + 1 THEN last ELSE f[i]]
           h == [i \in 1..(n + 1) |-> IF i = 1 THEN s[i] ELSE g[i - 1] \o s[i]]
<1> HIDE DEF last
<1>1. \A i \in 1..(n + 1) : g[i] = IF i = n + 1 THEN last ELSE f[i]
  OBVIOUS
<1>2. DOMAIN g = 1..(n + 1) /\ g = [i \in 1..(n + 1) |-> g[i]]
  OBVIOUS
<1>3. \A i \in 1..(n + 1) : h[i] = IF i = 1 THEN s[i] ELSE g[i - 1] \o s[i]
  OBVIOUS
<1>4. DOMAIN h = 1..(n + 1) /\ h = [i \in 1..(n + 1) |-> h[i]]
  OBVIOUS
<1> HIDE DEF g, h
<1>5. \A j \in 1..n : f[j] = IF j = 1 THEN s[j] ELSE f[j - 1] \o s[j]
  BY DEF Flattens
<1>6. ASSUME NEW i \in 1..(n + 1) PROVE g[i] = h[i]
  <2>1. CASE i = n + 1
    <3>1. CASE n = 0
      <4>1. i = 1 /\ g[i] = s[1] BY <1>1, <2>1, <3>1 DEF last
      <4> QED BY <1>3, <4>1
    <3>2. CASE n # 0
      <4>1. i # 1 /\ i - 1 = n /\ n \in 1..(n + 1) /\ n # n + 1 BY <2>1, <3>2
      <4>2. g[n] = f[n] BY <1>1, <4>1
      <4>3. g[i] = f[n] \o s[i] BY <1>1, <2>1, <3>2 DEF last
      <4>4. h[i] = g[n] \o s[i] BY <1>3, <4>1
      <4> QED BY <4>2, <4>3, <4>4
    <3> QED BY <3>1, <3>2
  <2>2. CASE i # n + 1
    <3>1. i \in 1..n BY <2>2
    <3>2. CASE i = 1
      <4>1. g[i] = f[i] /\ f[i] = s[i] /\ h[i] = s[i] BY <1>1, <1>3, <1>5, <2>2, <3>1, <3>2
      <4> QED BY <4>1
    <3>3. CASE i # 1
      <4>1. i - 1 \in 1..(n + 1) /\ i - 1 # n + 1 BY <3>1, <3>3
      <4>2. g[i] = f[i] /\ g[i - 1] = f[i - 1] BY <1>1, <2>2, <4>1
      <4>3. f[i] = f[i - 1] \o s[i] BY <1>5, <3>1, <3>3
      <4>4. h[i] = g[i - 1] \o s[i] BY <1>3, <3>3
      <4> QED BY <4>2, <4>3, <4>4
    <3> QED BY <3>2, <3>3
  <2> QED BY <2>1, <2>2
<1>7. g = h BY <1>2, <1>4, <1>6
<1>8. Flattens(g, s, n + 1) BY <1>7 DEF Flattens, h
<1> QED BY <1>8

LEMMA FlattensExists ==
    ASSUME NEW s, NEW n \in Nat
    PROVE  \E f : Flattens(f, s, n)
<1> DEFINE Good == {i \in Nat : \E f : Flattens(f, s, i)}
<1>1. 0 \in Good
  <2> DEFINE f == [i \in 1..0 |-> s[i]]
  <2>1. f = [i \in 1..0 |-> IF i = 1 THEN s[i] ELSE f[i - 1] \o s[i]]
    OBVIOUS
  <2>2. Flattens(f, s, 0) BY <2>1 DEF Flattens
  <2> QED BY <2>2
<1>2. \A i \in 0..n : i # n /\ i \in Good => i + 1 \in Good
  BY FlattensMore
<1>3. 0..n \subseteq Good
  <2> HIDE DEF Good
  <2> QED BY <1>1, <1>2, InductionUpTo
<1> QED BY <1>3

(* What FlattenSeq(s) is the last of: the first sequence of s, and each     *)
(* next one after the ones before it.                                      *)
LEMMA FlattenSteps ==
    ASSUME NEW s, NEW n \in Nat \ {0}, Len(s) = n, s # <<>>
    PROVE  \E f : /\ FlattenSeq(s) = f[n]
                  /\ f[1] = s[1]
                  /\ \A i \in 2..n : f[i] = f[i - 1] \o s[i]
<1> DEFINE f == CHOOSE f : Flattens(f, s, n)
<1>1. Flattens(f, s, n) BY FlattensExists
<1>2. FlattenSeq(s) = f[n] BY DEF FlattenSeq, Flattens
<1> HIDE DEF f
<1>3. \A i \in 1..n : f[i] = IF i = 1 THEN s[i] ELSE f[i - 1] \o s[i]
  BY <1>1 DEF Flattens
<1>4. f[1] = s[1] BY <1>3
<1>5. \A i \in 2..n : i \in 1..n /\ i # 1 OBVIOUS
<1>6. \A i \in 2..n : f[i] = f[i - 1] \o s[i] BY <1>3, <1>5
<1> QED BY <1>2, <1>4, <1>6

\* What \o does.
LEMMA ConcatFacts ==
    ASSUME NEW E, NEW t \in Seq(E), NEW u \in Seq(E)
    PROVE  /\ t \o u \in Seq(E) /\ Len(t) \in Nat /\ Len(u) \in Nat
           /\ Len(t \o u) = Len(t) + Len(u)
           /\ \A i \in 1..Len(t) : (t \o u)[i] = t[i]
           /\ \A i \in 1..Len(u) : (t \o u)[Len(t) + i] = u[i]
           /\ \A i \in 1..Len(t \o u) : i \notin 1..Len(t) => i - Len(t) \in 1..Len(u)
           /\ ToSet(t \o u) \subseteq ToSet(t) \cup ToSet(u)
<1>1. /\ t \o u \in Seq(E) /\ Len(t \o u) = Len(t) + Len(u)
      /\ \A i \in 1..(Len(t) + Len(u)) :
           (t \o u)[i] = IF i <= Len(t) THEN t[i] ELSE u[i - Len(t)]
  BY ConcatProperties
<1>2. Len(t) \in Nat /\ Len(u) \in Nat BY LenProperties
<1>3. \A i \in 1..Len(t) : (t \o u)[i] = t[i]
  <2> TAKE i \in 1..Len(t)
  <2>1. i \in 1..(Len(t) + Len(u)) /\ i <= Len(t) BY <1>2
  <2> QED BY <1>1, <2>1
<1>4. \A i \in 1..Len(u) : (t \o u)[Len(t) + i] = u[i]
  <2> TAKE i \in 1..Len(u)
  <2>1. Len(t) + i \in 1..(Len(t) + Len(u)) /\ ~(Len(t) + i <= Len(t))
        /\ (Len(t) + i) - Len(t) = i
    BY <1>2
  <2> QED BY <1>1, <2>1
<1>5. \A i \in 1..Len(t \o u) : i \notin 1..Len(t) => i - Len(t) \in 1..Len(u)
  BY <1>1, <1>2
<1>6. ToSet(t \o u) \subseteq ToSet(t) \cup ToSet(u)
  <2> SUFFICES ASSUME NEW x \in ToSet(t \o u) PROVE x \in ToSet(t) \cup ToSet(u)
    OBVIOUS
  <2>1. DOMAIN (t \o u) = 1..Len(t \o u) /\ DOMAIN t = 1..Len(t) /\ DOMAIN u = 1..Len(u)
    BY <1>1, LenProperties
  <2>2. PICK i \in 1..Len(t \o u) : x = (t \o u)[i] BY <2>1 DEF ToSet
  <2>3. CASE i \in 1..Len(t)
    <3>1. x = t[i] BY <1>3, <2>2, <2>3
    <3> QED BY <2>1, <2>3, <3>1 DEF ToSet
  <2>4. CASE i \notin 1..Len(t)
    <3> DEFINE j == i - Len(t)
    <3>1. j \in 1..Len(u) /\ Len(t) + j = i BY <1>2, <1>5, <2>4
    <3>2. x = u[j] BY <1>4, <2>2, <3>1
    <3> QED BY <2>1, <3>1, <3>2 DEF ToSet
  <2> QED BY <2>3, <2>4
<1> QED BY <1>1, <1>2, <1>3, <1>4, <1>5, <1>6


LEMMA ConcatFirst ==
    ASSUME NEW E, NEW t \in Seq(E), NEW u \in Seq(E), NEW i \in 1..Len(t)
    PROVE  (t \o u)[i] = t[i]
BY ConcatFacts

LEMMA ConcatSecond ==
    ASSUME NEW E, NEW t \in Seq(E), NEW u \in Seq(E), NEW i \in 1..Len(u)
    PROVE  (t \o u)[Len(t) + i] = u[i]
BY ConcatFacts

(* Parts of at most one each that together are as many as they are: each   *)
(* has one, and l[i], the number of the first i parts, is i.               *)
LEMMA OneEach ==
    ASSUME NEW n \in Nat \ {0}, NEW d, NEW l,
           \A i \in 1..n : d[i] \in {0, 1} /\ l[i] \in Nat,
           l[1] = d[1], l[n] = n,
           \A i \in 1..n : i # n => l[i + 1] = l[i] + d[i + 1]
    PROVE  \A i \in 1..n : l[i] = i /\ d[i] = 1
<1>1. n \in Nat /\ 1 \in Nat /\ 1 \in 1..n /\ n \in 1..n OBVIOUS
<1>2. \A i \in 1..n : i # n => i + 1 \in 1..n OBVIOUS
\* No prefix has more than its parts,
<1>3. \A i \in 1..n : l[i] <= i
  <2> DEFINE Short == {i \in Nat : l[i] <= i}
  <2>1. 1 \in Short BY <1>1
  <2>2. \A i \in 1..n : i # n /\ i \in Short => i + 1 \in Short
    <3> SUFFICES ASSUME NEW i \in 1..n, i # n, i \in Short PROVE i + 1 \in Short
      OBVIOUS
    <3>1. l[i + 1] = l[i] + d[i + 1] /\ d[i + 1] \in {0, 1} /\ l[i] \in Nat BY <1>2
    <3>2. l[i] <= i /\ i + 1 \in Nat OBVIOUS
    <3>3. l[i + 1] <= i + 1 BY <3>1, <3>2
    <3> QED BY <3>2, <3>3
  <2>3. 1..n \subseteq Short
    <3> HIDE DEF Short
    <3> QED BY <1>1, <2>1, <2>2, InductionUpTo
  <2> QED BY <2>3
\* ... and as they all have n, none has less.
<1>4. \A k \in 1..n : l[k] >= k
  <2> SUFFICES ASSUME NEW k \in 1..n, l[k] < k PROVE FALSE
    OBVIOUS
  <2> DEFINE Less == {i \in Nat : l[i] < i}
  <2>1. k \in Less /\ k \in Nat OBVIOUS
  <2>2. \A i \in k..n : i # n /\ i \in Less => i + 1 \in Less
    <3> SUFFICES ASSUME NEW i \in k..n, i # n, i \in Less PROVE i + 1 \in Less
      OBVIOUS
    <3>1. i \in 1..n /\ i + 1 \in 1..n /\ i + 1 \in Nat OBVIOUS
    <3>2. l[i + 1] = l[i] + d[i + 1] /\ d[i + 1] \in {0, 1} /\ l[i] \in Nat BY <3>1
    <3>3. l[i] < i OBVIOUS
    <3>4. l[i + 1] < i + 1 BY <3>1, <3>2, <3>3
    <3> QED BY <3>1, <3>4
  <2>3. k..n \subseteq Less
    <3> HIDE DEF Less
    <3> QED BY <1>1, <2>1, <2>2, InductionUpTo
  <2>4. n \in Less BY <1>1, <2>3
  <2> QED BY <2>4
<1>5. \A i \in 1..n : l[i] = i
  <2> TAKE i \in 1..n
  <2>1. l[i] \in Nat /\ l[i] <= i /\ l[i] >= i BY <1>3, <1>4
  <2> QED BY <2>1
<1>6. ASSUME NEW i \in 1..n PROVE d[i] = 1
  <2>1. CASE i = 1 BY <1>1, <1>5, <2>1
  <2>2. CASE i # 1
    <3>1. i - 1 \in 1..n /\ i - 1 # n /\ (i - 1) + 1 = i BY <2>2
    <3>2. l[i] = l[i - 1] + d[i] BY <3>1
    <3>3. l[i] = i /\ l[i - 1] = i - 1 /\ d[i] \in {0, 1} BY <1>5, <3>1
    <3> QED BY <3>2, <3>3
  <2> QED BY <2>1, <2>2
<1> QED BY <1>5, <1>6

\* The sequences f are the prefixes of the concatenation of s.
Joined(f, s, n) ==
    f[1] = s[1] /\ \A i \in 2..n : f[i] = f[i - 1] \o s[i]

Small(f, s, n, E) ==
    /\ \A i \in 1..n : s[i] \in Seq(E) /\ f[i] \in Seq(E) /\ Len(s[i]) <= 1
    /\ Len(f[n]) = n

(* The prefixes f of parts s of at most one element each: if all of them     *)
(* together are as long as they are many, each one is its element.          *)
LEMMA JoinedOfOne ==
    ASSUME NEW E, NEW n \in Nat \ {0}, NEW s, NEW f,
           Joined(f, s, n), Small(f, s, n, E)
    PROVE  \A k \in 1..n : Len(s[k]) = 1 /\ f[n][k] = s[k][1]
<1> DEFINE d == [i \in 1..n |-> Len(s[i])]
           l == [i \in 1..n |-> Len(f[i])]
<1>1. \A i \in 1..n : /\ f[i] \in Seq(E) /\ s[i] \in Seq(E)
                      /\ Len(f[i]) \in Nat /\ Len(s[i]) \in {0, 1}
  <2> TAKE i \in 1..n
  <2>1. f[i] \in Seq(E) /\ s[i] \in Seq(E) /\ Len(s[i]) <= 1 BY DEF Small
  <2>2. Len(f[i]) \in Nat /\ Len(s[i]) \in Nat BY <2>1, LenProperties
  <2>3. \A m \in Nat : m <= 1 => m \in {0, 1} OBVIOUS
  <2>4. Len(s[i]) \in {0, 1} BY <2>1, <2>2, <2>3
  <2> QED BY <2>1, <2>2, <2>4
<1>2. \A i \in 1..n : i # n =>
        /\ i + 1 \in 1..n /\ f[i + 1] = f[i] \o s[i + 1]
        /\ Len(f[i + 1]) = Len(f[i]) + Len(s[i + 1])
  <2> SUFFICES ASSUME NEW i \in 1..n, i # n
               PROVE  /\ i + 1 \in 1..n /\ f[i + 1] = f[i] \o s[i + 1]
                      /\ Len(f[i + 1]) = Len(f[i]) + Len(s[i + 1])
    OBVIOUS
  <2>1. i + 1 \in 1..n /\ i + 1 \in 2..n /\ (i + 1) - 1 = i OBVIOUS
  <2>2. f[i + 1] = f[i] \o s[i + 1] BY <2>1 DEF Joined
  <2>3. f[i] \in Seq(E) /\ s[i + 1] \in Seq(E) BY <1>1, <2>1
  <2> QED BY <2>1, <2>2, <2>3, ConcatFacts
<1>3. \A i \in 1..n : d[i] \in {0, 1} /\ l[i] \in Nat BY <1>1
<1>4. l[1] = d[1] /\ l[n] = n BY DEF Joined, Small
<1>5. \A i \in 1..n : i # n => l[i + 1] = l[i] + d[i + 1] BY <1>2
<1>6. \A i \in 1..n : Len(f[i]) = i /\ Len(s[i]) = 1
  <2>1. \A i \in 1..n : l[i] = Len(f[i]) /\ d[i] = Len(s[i]) OBVIOUS
  <2> HIDE DEF l, d
  <2>2. n \in Nat \ {0} OBVIOUS
  <2>3. \A i \in 1..n : l[i] = i /\ d[i] = 1 BY <1>3, <1>4, <1>5, <2>2, OneEach
  <2> QED BY <2>1, <2>3
\* What a prefix has at its end it keeps.
<1>7. ASSUME NEW k \in 1..n PROVE f[k][k] = s[k][1]
  <2>1. CASE k = 1 BY <2>1 DEF Joined
  <2>2. CASE k # 1
    <3>1. k - 1 \in 1..n /\ k - 1 # n /\ (k - 1) + 1 = k /\ k - 1 \in Nat BY <2>2
    <3>2. f[k] = f[k - 1] \o s[k] BY <1>2, <3>1
    <3>3. Len(f[k - 1]) = k - 1 /\ Len(s[k]) = 1 BY <1>6, <3>1
    <3>4. f[k - 1] \in Seq(E) /\ s[k] \in Seq(E) BY <1>1, <3>1
    <3>5. 1 \in 1..Len(s[k]) BY <3>3
    <3>6. (f[k - 1] \o s[k])[Len(f[k - 1]) + 1] = s[k][1]
      <4>1. \A j \in 1..Len(s[k]) : (f[k - 1] \o s[k])[Len(f[k - 1]) + j] = s[k][j]
        BY <3>4, ConcatSecond
      <4> QED BY <3>5, <4>1
    <3>7. Len(f[k - 1]) + 1 = k BY <3>1, <3>3
    <3> QED BY <3>2, <3>6, <3>7
  <2> QED BY <2>1, <2>2
<1>8. ASSUME NEW k \in 1..n PROVE f[n][k] = f[k][k]
  <2> DEFINE Kept == {i \in Nat : f[i][k] = f[k][k]}
  <2>1. k \in Kept OBVIOUS
  <2>2. \A i \in k..n : i # n /\ i \in Kept => i + 1 \in Kept
    <3> SUFFICES ASSUME NEW i \in k..n, i # n, i \in Kept PROVE i + 1 \in Kept
      OBVIOUS
    <3>1. i \in 1..n /\ k \in 1..i OBVIOUS
    <3>2. f[i + 1] = f[i] \o s[i + 1] /\ i + 1 \in 1..n BY <1>2, <3>1
    <3>3. f[i] \in Seq(E) /\ s[i + 1] \in Seq(E) /\ Len(f[i]) = i
      BY <1>1, <1>6, <3>1, <3>2
    <3>4. k \in 1..Len(f[i]) BY <3>1, <3>3
    <3>5. (f[i] \o s[i + 1])[k] = f[i][k]
      BY <3>3, <3>4, ConcatFirst
    <3>6. f[i][k] = f[k][k] BY DEF Kept
    <3>7. f[i + 1][k] = f[k][k] BY <3>2, <3>5, <3>6
    <3>8. i + 1 \in Nat BY <3>1
    <3> QED BY <3>7, <3>8
  <2>3. k..n \subseteq Kept
    <3>1. k \in Nat /\ n \in Nat OBVIOUS
    <3> HIDE DEF Kept
    <3> QED BY <2>1, <2>2, <3>1, InductionUpTo
  <2>4. n \in Kept BY <2>3
  <2> QED BY <2>4 DEF Kept
<1> QED BY <1>6, <1>7, <1>8

(* The elements of FlattenSeq(s) are those of the sequences of s, and if    *)
(* these have at most one each and it is as long as s, then exactly one.    *)
LEMMA FlattenFacts ==
    ASSUME NEW E, NEW s \in Seq(Seq(E))
    PROVE  /\ FlattenSeq(s) \in Seq(E)
           /\ \A x \in ToSet(FlattenSeq(s)) : \E i \in 1..Len(s) : x \in ToSet(s[i])
           /\ (\A i \in 1..Len(s) : Len(s[i]) <= 1) /\ Len(FlattenSeq(s)) = Len(s) =>
                \A k \in 1..Len(s) : Len(s[k]) = 1 /\ FlattenSeq(s)[k] = s[k][1]
<1> DEFINE n == Len(s)
<1>1. CASE n = 0
  <2>1. FlattenSeq(s) = s /\ s = << >> BY <1>1 DEF FlattenSeq
  <2> QED BY <1>1, <2>1 DEF ToSet
<1>2. CASE n # 0
  <2>1. n \in Nat \ {0} /\ n >= 1 /\ s # << >> BY <1>2
  <2>2. \A i \in 1..n : s[i] \in Seq(E) OBVIOUS
  <2>3. Len(s) = n OBVIOUS
  <2> HIDE DEF n
  <2>4. PICK f : /\ FlattenSeq(s) = f[n]
                 /\ Joined(f, s, n)
    BY <2>1, <2>3, FlattenSteps DEF Joined
  <2> DEFINE From(i) == /\ f[i] \in Seq(E)
                        /\ \A x \in ToSet(f[i]) : \E j \in 1..n : x \in ToSet(s[j])
             Good == {i \in Nat : From(i)}
  <2>5. 1..n \subseteq Good
    <3>1. 1 \in 1..n /\ 1 \in Good BY <2>1, <2>2, <2>4 DEF Joined
    <3>2. ASSUME NEW i \in 1..n, i # n, i \in Good PROVE i + 1 \in Good
      <4>1. i + 1 \in 2..n /\ i + 1 \in 1..n /\ (i + 1) - 1 = i BY <2>1, <3>2
      <4>2. f[i + 1] = f[i] \o s[i + 1] /\ s[i + 1] \in Seq(E) BY <2>2, <2>4, <4>1 DEF Joined
      <4>3. f[i + 1] \in Seq(E) BY <3>2, <4>2
      <4>4. ToSet(f[i + 1]) \subseteq ToSet(f[i]) \cup ToSet(s[i + 1])
        <5>1. f[i] \in Seq(E) BY <3>2
        <5> HIDE DEF Good
        <5> QED BY <4>2, <5>1, ConcatFacts
      <4>5. \A x \in ToSet(f[i]) : \E j \in 1..n : x \in ToSet(s[j]) BY <3>2
      <4>6. \A x \in ToSet(f[i + 1]) : \E j \in 1..n : x \in ToSet(s[j])
        BY <4>1, <4>4, <4>5
      <4> QED BY <4>1, <4>3, <4>6
    <3> HIDE DEF Good
    <3> QED BY <2>1, <3>1, <3>2, InductionUpTo
  <2>6. \A i \in 1..n : From(i) BY <2>5
  <2>7. ASSUME \A i \in 1..n : Len(s[i]) <= 1, Len(f[n]) = n
        PROVE  \A k \in 1..n : Len(s[k]) = 1 /\ f[n][k] = s[k][1]
    <3> HIDE DEF Good
    <3>1. Small(f, s, n, E)
      BY <2>2, <2>6, <2>7 DEF Small
    <3>2. n \in Nat \ {0} /\ Joined(f, s, n) BY <2>1, <2>4
    <3> QED BY <3>1, <3>2, JoinedOfOne
  <2>8. n \in 1..n BY <2>1
  <2> HIDE DEF Good
  <2>9. From(n) BY <2>6, <2>8
  <2> QED BY <2>3, <2>4, <2>7, <2>9
<1> QED BY <1>1, <1>2

-----------------------------------------------------------------------------
(* The rows of the request.                                                 *)

\* A function on 1..n is a sequence of length n.
LEMMA SequenceOf ==
    ASSUME NEW n \in Nat, NEW E, NEW s, s \in [1..n -> E]
    PROVE  s \in Seq(E) /\ Len(s) = n /\ IsSequence(s)
<1>1. s \in Seq(E) BY SeqDef
<1>2. DOMAIN s = 1..n OBVIOUS
<1>3. DOMAIN s = 1..Len(s) /\ Len(s) \in Nat BY <1>1, LenProperties
<1>4. Len(s) = n
  <2>1. \A m \in Nat : 1..m = 1..n => m = n OBVIOUS
  <2> QED BY <1>2, <1>3, <2>1
<1> QED BY <1>1, <1>3, <1>4 DEF IsSequence

Distinct ==
    \A s \in ToSet(body.sources) : Cardinality(SourcesNamed(s.name)) = 1

\* The row of an application that was asked for, and has a status by now.
RowOf(x, a, i) ==
    x = [source |-> i, type |-> a.type, available |-> x.available,
         owned |-> OwnershipPresentForSourceAndApplication(a.source, a.name)]

Applied(o) ==
    /\ Len(o.applications) = Len(body.applications)
    /\ DOMAIN o.applications = DOMAIN body.applications
    /\ \A k \in DOMAIN o.applications :
         \E a \in ToSet(body.applications) : \E i \in SourcesNamed(a.source) :
           RowOf(o.applications[k], a, i)
    /\ Distinct => \A k \in DOMAIN o.applications :
         \E i \in SourcesNamed(body.applications[k].source) :
           RowOf(o.applications[k], body.applications[k], i)

LEMMA NamedFacts ==
    ASSUME body \in Bodies, NEW n
    PROVE  /\ SourcesNamed(n) \in SUBSET Nat /\ IsFiniteSet(SourcesNamed(n))
           /\ SourcesNamed(n) \subseteq DOMAIN body.sources
           /\ Ascending(SourcesNamed(n)) \in Seq(SourcesNamed(n))
           /\ Len(Ascending(SourcesNamed(n))) = Cardinality(SourcesNamed(n))
           /\ DOMAIN Ascending(SourcesNamed(n)) = 1..Len(Ascending(SourcesNamed(n)))
           /\ Cardinality(SourcesNamed(n)) \in Nat
<1> DEFINE S == SourcesNamed(n)
<1>1. DOMAIN body.sources = 1..Len(body.sources) /\ Len(body.sources) \in Nat
  BY BulkAssemblyAssumption DEF IsSequence
<1>2. S \subseteq 1..Len(body.sources) BY <1>1 DEF SourcesNamed
<1>3. IsFiniteSet(S) /\ S \in SUBSET Nat
  <2>1. IsFiniteSet(1..Len(body.sources)) BY <1>1, FS_Interval
  <2>2. IsFiniteSet(S) BY <1>2, <2>1, FS_Subset
  <2>3. S \in SUBSET Nat BY <1>1, <1>2
  <2> QED BY <2>2, <2>3
<1>4. Cardinality(S) \in Nat BY <1>3, FS_CardinalityType
<1> HIDE DEF S
<1>5. Ascending(S) \in [1..Cardinality(S) -> S]
  BY <1>3, AscendingFacts DEF Enumerates
<1>6. Ascending(S) \in Seq(S) /\ Len(Ascending(S)) = Cardinality(S) /\ IsSequence(Ascending(S))
  BY <1>4, <1>5, SequenceOf
<1> QED BY <1>1, <1>2, <1>3, <1>4, <1>6 DEF S, IsSequence

LEMMA DistinctNames ==
    ASSUME body \in Bodies, Distinct, NEW n
    PROVE  Cardinality(SourcesNamed(n)) <= 1
<1>1. CASE SourcesNamed(n) = {}
  <2>1. Cardinality(SourcesNamed(n)) = 0 BY <1>1, FS_EmptySet
  <2> QED BY <2>1
<1>2. CASE SourcesNamed(n) # {}
  <2>1. PICK i \in DOMAIN body.sources : body.sources[i].name = n
    BY <1>2 DEF SourcesNamed
  <2>2. Cardinality(SourcesNamed(n)) = 1 BY <2>1 DEF Distinct, ToSet
  <2> QED BY <2>2
<1> QED BY <1>1, <1>2

LEMMA ParsedApplications ==
    ASSUME body \in Bodies, NEW o, o.applications = ParseApplications,
           Len(ParseApplications) = Len(body.applications)
    PROVE  Applied(o)
<1> DEFINE n == Len(body.applications)
           E == {ApplicationOf(a, i) : a \in ToSet(body.applications), i \in DOMAIN body.sources}
           s == [k \in DOMAIN body.applications |->
                   LET a == body.applications[k]
                       named == Ascending(SourcesNamed(a.source))
                   IN  [j \in DOMAIN named |-> ApplicationOf(a, named[j])]]
           sources(k) == Ascending(SourcesNamed(body.applications[k].source))
<1>1. DOMAIN body.applications = 1..n /\ n \in Nat
  BY BulkAssemblyAssumption DEF IsSequence
<1>2. ParseApplications = FlattenSeq(s) BY DEF ParseApplications
<1>3. \A k \in 1..n :
        /\ DOMAIN s[k] = 1..Cardinality(SourcesNamed(body.applications[k].source))
        /\ \A j \in DOMAIN s[k] :
             /\ sources(k)[j] \in SourcesNamed(body.applications[k].source)
             /\ s[k][j] = ApplicationOf(body.applications[k], sources(k)[j])
        /\ s[k] = [j \in DOMAIN s[k] |-> s[k][j]]
  <2> TAKE k \in 1..n
  <2> DEFINE a == body.applications[k]
             named == Ascending(SourcesNamed(a.source))
  <2>1. s[k] = [j \in DOMAIN named |-> ApplicationOf(a, named[j])] BY <1>1
  <2>2. /\ DOMAIN named = 1..Cardinality(SourcesNamed(a.source))
        /\ named \in Seq(SourcesNamed(a.source)) /\ Len(named) = Cardinality(SourcesNamed(a.source))
    BY NamedFacts
  <2> HIDE DEF s, named
  <2>3. \A j \in DOMAIN named : named[j] \in SourcesNamed(a.source)
    BY <2>2, ElementOfSeq
  <2> QED BY <2>1, <2>2, <2>3 DEF named
<1> HIDE DEF s, E
<1>4. \A k \in 1..n :
        /\ s[k] \in Seq(E)
        /\ Len(s[k]) = Cardinality(SourcesNamed(body.applications[k].source))
  <2> TAKE k \in 1..n
  <2> DEFINE a == body.applications[k]
             c == Cardinality(SourcesNamed(a.source))
  <2>1. a \in ToSet(body.applications) BY <1>1 DEF ToSet
  <2>2. SourcesNamed(a.source) \subseteq DOMAIN body.sources /\ c \in Nat BY NamedFacts
  <2>3. \A j \in 1..c : s[k][j] \in E
    <3>1. \A i \in SourcesNamed(a.source) : ApplicationOf(a, i) \in E
      BY <2>1, <2>2 DEF E
    <3> TAKE j \in 1..c
    <3>2. j \in DOMAIN s[k] BY <1>3
    <3>3. /\ sources(k)[j] \in SourcesNamed(a.source)
          /\ s[k][j] = ApplicationOf(a, sources(k)[j])
      BY <1>3, <3>2
    <3> HIDE DEF sources
    <3> QED BY <3>1, <3>3
  <2>4. DOMAIN s[k] = 1..c /\ s[k] = [j \in DOMAIN s[k] |-> s[k][j]] BY <1>3
  <2>5. s[k] \in [1..c -> E] BY <2>3, <2>4
  <2> HIDE DEF c
  <2>6. s[k] \in Seq(E) /\ Len(s[k]) = c BY <2>2, <2>5, SequenceOf
  <2> QED BY <2>6 DEF c
<1>5. s \in Seq(Seq(E)) /\ Len(s) = n
  <2>1. DOMAIN s = 1..n /\ s = [k \in 1..n |-> s[k]] BY <1>1 DEF s
  <2> HIDE DEF n
  <2>2. \A k \in 1..n : s[k] \in Seq(E) BY <1>4
  <2>3. s \in [1..n -> Seq(E)] BY <2>1, <2>2
  <2> QED BY <1>1, <2>3, SequenceOf
<1> DEFINE flat == o.applications
<1>6. /\ flat \in Seq(E) /\ Len(flat) = n
      /\ \A x \in ToSet(flat) : \E k \in 1..n : x \in ToSet(s[k])
      /\ (\A k \in 1..n : Len(s[k]) <= 1) =>
           \A k \in 1..n : Len(s[k]) = 1 /\ flat[k] = s[k][1]
  <2> HIDE DEF n
  <2>1. flat = FlattenSeq(s) /\ Len(FlattenSeq(s)) = n BY <1>2 DEF n
  <2> QED BY <1>5, <2>1, FlattenFacts
<1>7. DOMAIN flat = 1..n BY <1>6, LenProperties
<1>8. ASSUME NEW k \in 1..n, NEW j \in DOMAIN s[k]
      PROVE  \E i \in SourcesNamed(body.applications[k].source) :
               RowOf(s[k][j], body.applications[k], i)
  <2>1. /\ sources(k)[j] \in SourcesNamed(body.applications[k].source)
        /\ s[k][j] = ApplicationOf(body.applications[k], sources(k)[j])
    BY <1>3, <1>8
  <2>2. RowOf(s[k][j], body.applications[k], sources(k)[j])
    <3>1. \A a, i : RowOf(ApplicationOf(a, i), a, i) BY DEF RowOf, ApplicationOf
    <3> QED BY <2>1, <3>1
  <2> QED BY <2>1, <2>2
<1>9. \A k \in DOMAIN flat : \E a \in ToSet(body.applications) :
        \E i \in SourcesNamed(a.source) : RowOf(flat[k], a, i)
  <2> TAKE m \in DOMAIN flat
  <2>1. flat[m] \in ToSet(flat) BY DEF ToSet
  <2>2. PICK k \in 1..n : flat[m] \in ToSet(s[k]) BY <1>6, <2>1
  <2>3. PICK j \in DOMAIN s[k] : flat[m] = s[k][j] BY <2>2 DEF ToSet
  <2>4. body.applications[k] \in ToSet(body.applications) BY <1>1 DEF ToSet
  <2> QED BY <1>8, <2>3, <2>4
<1>10. ASSUME Distinct, NEW k \in DOMAIN flat
       PROVE  \E i \in SourcesNamed(body.applications[k].source) :
                RowOf(flat[k], body.applications[k], i)
  <2>1. ASSUME NEW m \in 1..n PROVE Len(s[m]) <= 1
    <3>1. Cardinality(SourcesNamed(body.applications[m].source)) <= 1
      BY <1>10, DistinctNames
    <3> QED BY <1>4, <3>1
  <2>2. Len(s[k]) = 1 /\ flat[k] = s[k][1] /\ k \in 1..n BY <1>6, <1>7, <2>1
  <2>3. 1 \in DOMAIN s[k]
    <3> HIDE DEF n
    <3>1. Len(s[k]) = Cardinality(SourcesNamed(body.applications[k].source))
      BY <1>4, <2>2
    <3>2. DOMAIN s[k] = 1..Cardinality(SourcesNamed(body.applications[k].source))
      BY <1>3, <2>2
    <3>3. DOMAIN s[k] = 1..1 BY <2>2, <3>1, <3>2
    <3> QED BY <3>3
  <2> QED BY <1>8, <2>2, <2>3
<1> QED BY <1>1, <1>6, <1>7, <1>9, <1>10 DEF Applied

\* The rows of the sources and endpoints that were asked for.
SourceRow(x, i) ==
    x = [name |-> body.sources[i].name, type |-> body.sources[i].type,
         superkey |-> body.sources[i].superkey,
         owned |-> OwnershipPresentForSource(body.sources[i].name),
         available |-> x.available]

Sourced(o) ==
    /\ DOMAIN o.sources = DOMAIN body.sources /\ body.sources # <<>>
    /\ \A i \in DOMAIN o.sources : SourceRow(o.sources[i], i)

Placed(o) ==
    /\ DOMAIN o.endpoints = DOMAIN body.endpoints /\ Len(o.endpoints) = Len(body.endpoints)
    /\ \A k \in DOMAIN o.endpoints :
         /\ o.endpoints[k].source \in SourcesNamed(body.endpoints[k].source)
         /\ o.endpoints[k].host = body.endpoints[k].host

RowsOK(o) == Sourced(o) /\ Applied(o) /\ Placed(o)

LEMMA LastNamed ==
    ASSUME body \in Bodies, NEW n,
           SelectLastInSeq(body.sources, LAMBDA s : s.name = n) # 0
    PROVE  SelectLastInSeq(body.sources, LAMBDA s : s.name = n) \in SourcesNamed(n)
<1> DEFINE I == {i \in 1..Len(body.sources) : body.sources[i].name = n}
<1>1. SelectLastInSeq(body.sources, LAMBDA s : s.name = n) = IF I # {} THEN Max(I) ELSE 0
  BY DEF SelectLastInSeq
<1>2. I # {} BY <1>1
<1>3. Len(body.sources) \in Nat /\ DOMAIN body.sources = 1..Len(body.sources)
  BY BulkAssemblyAssumption DEF IsSequence
<1>4. Max(I) \in I
  <2>1. I \in SUBSET (0..Len(body.sources)) BY <1>3
  <2> HIDE DEF I
  <2> QED BY <1>2, <1>3, <2>1, GreatestExists
<1> QED BY <1>1, <1>2, <1>3, <1>4 DEF SourcesNamed

LEMMA ParsedRows ==
    ASSUME body \in Bodies, Accepted, NEW o, o.sources = ParseSources,
           o.applications = ParseApplications, o.endpoints = ParseEndpoints
    PROVE  RowsOK(o)
<1>1. Sourced(o)
  <2>1. body.sources # <<>> BY DEF Accepted
  <2>2. DOMAIN o.sources = DOMAIN body.sources BY DEF ParseSources
  <2>3. ASSUME NEW i \in DOMAIN body.sources
        PROVE  SourceRow(o.sources[i], i)
    <3>1. o.sources[i] = [name |-> body.sources[i].name, type |-> body.sources[i].type,
                         superkey |-> body.sources[i].superkey,
                         owned |-> OwnershipPresentForSource(body.sources[i].name),
                         available |-> FALSE]
      BY <2>3 DEF ParseSources
    <3>2. o.sources[i].available = FALSE BY <3>1
    <3> QED BY <3>1, <3>2 DEF SourceRow
  <2> QED BY <2>1, <2>2, <2>3 DEF Sourced
<1>2. Applied(o) BY ParsedApplications DEF Accepted
<1>3. Placed(o)
  <2>1. DOMAIN o.endpoints = DOMAIN body.endpoints BY DEF ParseEndpoints
  <2>3. Len(o.endpoints) = Len(body.endpoints)
    <3>1. DOMAIN body.endpoints = 1..Len(body.endpoints) /\ Len(body.endpoints) \in Nat
      BY BulkAssemblyAssumption DEF IsSequence
    <3>2. o.endpoints = [k \in DOMAIN body.endpoints |-> o.endpoints[k]]
      <4> DEFINE r(k) == LET e == body.endpoints[k] IN
                           [source |-> SelectLastInSeq(body.sources, LAMBDA s : s.name = e.source),
                            host |-> e.host]
      <4>1. o.endpoints = [k \in DOMAIN body.endpoints |-> r(k)] BY DEF ParseEndpoints
      <4> HIDE DEF r
      <4> QED BY <4>1
    <3>3. o.endpoints \in [1..Len(body.endpoints) -> {o.endpoints[k] : k \in 1..Len(body.endpoints)}]
      BY <3>1, <3>2
    <3> QED BY <3>1, <3>3, SequenceOf
  <2>2. ASSUME NEW k \in DOMAIN body.endpoints
        PROVE  /\ o.endpoints[k].source \in SourcesNamed(body.endpoints[k].source)
               /\ o.endpoints[k].host = body.endpoints[k].host
    <3> DEFINE e == body.endpoints[k]
               last == SelectLastInSeq(body.sources, LAMBDA s : s.name = e.source)
    <3>1. o.endpoints[k] = [source |-> last, host |-> e.host]
      BY <2>2 DEF ParseEndpoints
    <3>2. o.endpoints[k] \in ToSet(ParseEndpoints) BY <2>1, <2>2 DEF ToSet
    <3> HIDE DEF last
    <3>3. last # 0 BY <3>1, <3>2 DEF Accepted
    <3>4. last \in SourcesNamed(e.source) BY <3>3, LastNamed DEF last
    <3> QED BY <3>1, <3>4
  <2> QED BY <2>1, <2>2, <2>3 DEF Placed
<1> QED BY <1>1, <1>2, <1>3 DEF RowsOK

\* What an authentication is linked to: what exists or a row of the request.
ExistingLink(to, a) == to \in Existing /\ to = <<a.of, a.id>>

SourceLink(to, a) == a.of = "Source" /\ to = <<"Source", 1>>

ApplicationLink(o, to, a) ==
    /\ a.of = "Application" /\ a.name # <<>>
    /\ \E n \in DOMAIN o.applications :
         to = <<"Application", n>> /\ o.applications[n].type = a.name[1]

EndpointLink(o, to, a) ==
    /\ a.of = "Endpoint"
    /\ \E n \in DOMAIN o.endpoints :
         to = <<"Endpoint", n>> /\ <<a.name, o.endpoints[n].host>> \in Within

NewLink(o, to, a) ==
    /\ to \notin Existing
    /\ SourceLink(to, a) \/ ApplicationLink(o, to, a) \/ EndpointLink(o, to, a)

\* Who owns an authentication of a row of the request.
NewOwned(a) ==
    /\ a.of # "Endpoint"
    /\ OwnershipPresentForSource(body.sources[1].name)
    /\ a.of = "Application" => OwnershipPresentForApplication(a.name)

Linked(o) ==
    /\ DOMAIN o.auths = DOMAIN body.auths
    /\ \A k \in DOMAIN o.auths :
         \/ ExistingLink(o.auths[k].to, body.auths[k])
         \/ /\ NewLink(o, o.auths[k].to, body.auths[k])
            /\ o.auths[k].owned <=> NewOwned(body.auths[k])

\* The number of a row is no id of what exists.
LEMMA NewIds ==
    ASSUME body \in Bodies, RowsOK(out)
    PROVE  /\ <<"Source", 1>> \notin Existing /\ 1 \in DOMAIN out.sources
           /\ \A n \in DOMAIN out.applications : <<"Application", n>> \notin Existing
           /\ \A n \in DOMAIN out.sources : <<"Source", n>> \notin Existing
           /\ \A n \in DOMAIN out.endpoints : <<"Endpoint", n>> \notin Existing
<1>1. /\ IsSequence(body.sources) /\ IsSequence(body.applications) /\ IsSequence(body.endpoints)
      /\ \A x \in Existing : /\ x[2] > Len(body.sources) /\ x[2] > Len(body.applications)
                            /\ x[2] > Len(body.endpoints)
  BY BulkAssemblyAssumption
<1>2. ASSUME NEW s, IsSequence(s), NEW n \in DOMAIN s, NEW x \in Existing, x[2] > Len(s)
      PROVE  x[2] # n
  <2>1. x[2] \in Nat BY BulkAssemblyAssumption
  <2>2. n \in 1..Len(s) /\ Len(s) \in Nat BY <1>2 DEF IsSequence
  <2> QED BY <1>2, <2>1, <2>2
<1>3. /\ DOMAIN out.sources = DOMAIN body.sources
      /\ DOMAIN out.applications = DOMAIN body.applications
      /\ DOMAIN out.endpoints = DOMAIN body.endpoints
  BY DEF RowsOK, Sourced, Applied, Placed
<1>4. \A n \in DOMAIN out.sources : <<"Source", n>> \notin Existing
  <2> SUFFICES ASSUME NEW n \in DOMAIN body.sources, NEW k, <<k, n>> \in Existing PROVE FALSE
    BY <1>3
  <2> QED BY <1>1, <1>2
<1>5. \A n \in DOMAIN out.applications : <<"Application", n>> \notin Existing
  <2> SUFFICES ASSUME NEW n \in DOMAIN body.applications, NEW k, <<k, n>> \in Existing PROVE FALSE
    BY <1>3
  <2> QED BY <1>1, <1>2
<1>6. \A n \in DOMAIN out.endpoints : <<"Endpoint", n>> \notin Existing
  <2> SUFFICES ASSUME NEW n \in DOMAIN body.endpoints, NEW k, <<k, n>> \in Existing PROVE FALSE
    BY <1>3
  <2> QED BY <1>1, <1>2
<1>7. 1 \in DOMAIN out.sources
  BY <1>1, <1>3 DEF RowsOK, Sourced, IsSequence
<1> QED BY <1>4, <1>5, <1>6, <1>7

-----------------------------------------------------------------------------
(* What the authentications are linked to.                                  *)

LEMMA FoundApplication ==
    ASSUME body \in Bodies, RowsOK(out), NEW name, LinkupApplication(name) # 0
    PROVE  /\ name # <<>> /\ LinkupApplication(name) \in DOMAIN out.applications
           /\ out.applications[LinkupApplication(name)].type = name[1]
<1> DEFINE I == {i \in 1..Len(out.applications) :
                   name # <<>> /\ out.applications[i].type = name[1]}
<1>1. LinkupApplication(name) = IF I # {} THEN Min(I) ELSE 0
  BY DEF LinkupApplication, SelectInSeq
<1>2. Len(out.applications) \in Nat /\ DOMAIN out.applications = 1..Len(out.applications)
  BY BulkAssemblyAssumption DEF IsSequence, RowsOK, Applied
<1>3. I # {} BY <1>1
<1>4. Min(I) \in I
  <2>1. I \in SUBSET Nat BY <1>2
  <2> HIDE DEF I
  <2> QED BY <1>3, <2>1, LeastExists
<1> QED BY <1>1, <1>2, <1>3, <1>4

LEMMA FoundEndpoint ==
    ASSUME body \in Bodies, RowsOK(out), NEW name, LinkupEndpoint(name) # 0
    PROVE  /\ LinkupEndpoint(name) \in DOMAIN out.endpoints
           /\ <<name, out.endpoints[LinkupEndpoint(name)].host>> \in Within
<1> DEFINE I == {i \in 1..Len(out.endpoints) : <<name, out.endpoints[i].host>> \in Within}
<1>1. LinkupEndpoint(name) = IF I # {} THEN Min(I) ELSE 0
  BY DEF LinkupEndpoint, SelectInSeq
<1>2. Len(out.endpoints) \in Nat /\ DOMAIN out.endpoints = 1..Len(out.endpoints)
  BY BulkAssemblyAssumption DEF IsSequence, RowsOK, Placed
<1>3. I # {} BY <1>1
<1>4. Min(I) \in I
  <2>1. I \in SUBSET Nat BY <1>2
  <2> HIDE DEF I
  <2> QED BY <1>3, <2>1, LeastExists
<1> QED BY <1>1, <1>2, <1>3, <1>4

\* What LinkTo makes of one authentication, and OwnedAuthentication.
LEMMA LinkedOne ==
    ASSUME body \in Bodies, RowsOK(out), existing \subseteq Existing,
           NEW a \in ToSet(body.auths), LinkTo(a)[2] # 0
    PROVE  \/ ExistingLink(LinkTo(a), a)
           \/ <<a.of, a.id>> \notin existing /\ NewLink(out, LinkTo(a), a)
<1>1. CASE <<a.of, a.id>> \in existing
  <2>1. LinkTo(a) = <<a.of, a.id>> BY <1>1 DEF LinkTo
  <2> QED BY <1>1, <2>1 DEF ExistingLink
<1>2. CASE <<a.of, a.id>> \notin existing
  <2>1. a.of \in Kinds BY BulkAssemblyAssumption
  <2>4. CASE a.of = "Source"
    <3>1. LinkTo(a) = <<"Source", 1>> BY <1>2, <2>4 DEF LinkTo
    <3> QED BY <1>2, <2>4, <3>1, NewIds DEF NewLink, SourceLink
  <2>5. CASE a.of = "Application"
    <3>1. LinkTo(a) = <<"Application", LinkupApplication(a.name)>> BY <1>2, <2>5 DEF LinkTo
    <3>2. LinkupApplication(a.name) # 0 BY <3>1
    <3>3. ApplicationLink(out, LinkTo(a), a)
      BY <2>5, <3>1, <3>2, FoundApplication DEF ApplicationLink
    <3>4. LinkTo(a) \notin Existing BY <3>3, NewIds DEF ApplicationLink
    <3> QED BY <1>2, <3>3, <3>4 DEF NewLink
  <2>6. CASE a.of = "Endpoint"
    <3>1. LinkTo(a) = <<"Endpoint", LinkupEndpoint(a.name)>> BY <1>2, <2>6 DEF LinkTo
    <3>2. LinkupEndpoint(a.name) # 0 BY <3>1
    <3>3. EndpointLink(out, LinkTo(a), a)
      BY <2>6, <3>1, <3>2, FoundEndpoint DEF EndpointLink
    <3>4. LinkTo(a) \notin Existing BY <3>3, NewIds DEF EndpointLink
    <3> QED BY <1>2, <3>3, <3>4 DEF NewLink
  <2> QED BY <2>1, <2>4, <2>5, <2>6 DEF Kinds
<1> QED BY <1>1, <1>2

LEMMA OwnedOne ==
    ASSUME body \in Bodies, RowsOK(out), NEW a, <<a.of, a.id>> \notin existing
    PROVE  OwnedAuthentication(a) <=> NewOwned(a)
<1>1. 1 \in DOMAIN out.sources BY NewIds
<1>2. PICK w, v : out.sources[1] =
        [name |-> body.sources[1].name, type |-> body.sources[1].type,
         superkey |-> body.sources[1].superkey, owned |-> w, available |-> v]
  BY <1>1, Zenon DEF RowsOK, Sourced, SourceRow
<1>3. out.sources[1].name = body.sources[1].name BY <1>2
<1> QED BY <1>3, Zenon DEF OwnedAuthentication, NewOwned

LEMMA LinkedUp ==
    ASSUME body \in Bodies, RowsOK(out), existing \subseteq Existing,
           \A a \in ToSet(body.auths) : LinkTo(a)[2] # 0,
           NEW o, o.auths = LinkUpAuthentications, o.sources = out.sources,
           o.applications = out.applications, o.endpoints = out.endpoints
    PROVE  RowsOK(o) /\ Linked(o)
<1>1. RowsOK(o) BY DEF RowsOK, Sourced, Applied, Placed
<1>2. DOMAIN o.auths = DOMAIN body.auths BY DEF LinkUpAuthentications
<1>3. ASSUME NEW k \in DOMAIN body.auths
      PROVE  \/ ExistingLink(o.auths[k].to, body.auths[k])
             \/ /\ NewLink(o, o.auths[k].to, body.auths[k])
                /\ o.auths[k].owned <=> NewOwned(body.auths[k])
  <2> DEFINE x == o.auths[k]
             a == body.auths[k]
  <2>1. x = [to |-> LinkTo(a), owned |-> OwnedAuthentication(a), available |-> FALSE]
    BY <1>3, Zenon DEF LinkUpAuthentications
  <2>2. x.to = LinkTo(a) /\ x.owned = OwnedAuthentication(a)
    <3>1. \A t, w, v : [to |-> t, owned |-> w, available |-> v].to = t
                       /\ [to |-> t, owned |-> w, available |-> v].owned = w
      OBVIOUS
    <3> HIDE DEF x, a
    <3> QED BY <2>1, <3>1, Zenon
  <2>3. a \in ToSet(body.auths) BY <1>3 DEF ToSet
  <2> HIDE DEF x, a
  <2>4. \/ ExistingLink(x.to, a)
        \/ <<a.of, a.id>> \notin existing /\ NewLink(out, x.to, a)
    <3>1. LinkTo(a)[2] # 0 BY <2>3
    <3>2. \/ ExistingLink(LinkTo(a), a)
          \/ <<a.of, a.id>> \notin existing /\ NewLink(out, LinkTo(a), a)
      BY <2>3, <3>1, LinkedOne
    <3>3. x.to = LinkTo(a) BY <2>2
    <3> QED BY <3>2, <3>3
  <2>5. NewLink(out, x.to, a) => NewLink(o, x.to, a)
    BY DEF NewLink, ApplicationLink, EndpointLink
  <2>6. <<a.of, a.id>> \notin existing => x.owned <=> NewOwned(a)
    BY <2>2, OwnedOne, Zenon
  <2>7. \/ ExistingLink(x.to, a)
        \/ NewLink(o, x.to, a) /\ (x.owned <=> NewOwned(a))
    BY <2>4, <2>5, <2>6, Zenon
  <2> QED BY <2>7 DEF x, a
<1> QED BY <1>1, <1>2, <1>3, Zenon DEF Linked

-----------------------------------------------------------------------------
(* The commit: who is available, and the associations.                      *)

\* The output is a record, and so is an authentication.
Output(o) ==
    /\ o = [sources |-> o.sources, applications |-> o.applications,
            endpoints |-> o.endpoints, auths |-> o.auths, assocs |-> o.assocs]
    /\ \A n \in DOMAIN o.auths :
         o.auths[n] = [to |-> o.auths[n].to, owned |-> o.auths[n].owned,
                       available |-> o.auths[n].available]

(* What the commit makes of the output.                                     *)
Completed(o) ==
    LET apps == AvailableApplications
        owners == {out.applications[k].source : k \in apps}
        now == ({"Application"} \X apps) \cup ({"Source"} \X owners)
    IN  /\ o.sources = [i \in DOMAIN out.sources |->
                          [out.sources[i] EXCEPT !.available = i \in owners]]
        /\ o.applications = [k \in DOMAIN out.applications |->
                               [out.applications[k] EXCEPT !.available = k \in apps]]
        /\ o.endpoints = out.endpoints
        /\ o.auths = [n \in DOMAIN out.auths |->
                        [out.auths[n] EXCEPT !.available = out.auths[n].to \in now]]
        /\ o.assocs = ApplicationAuthentications

Fields == {"sources", "applications", "endpoints", "auths", "assocs"}

LEMMA CommitCompletes ==
    ASSUME DOMAIN out = Fields, NEW o,
           o = [SetCorrespondingResourcesAsAvailable EXCEPT !.assocs = ApplicationAuthentications]
    PROVE  Completed(o) /\ DOMAIN o = Fields
<1> DEFINE apps == AvailableApplications
           owners == {out.applications[k].source : k \in apps}
           now == ({"Application"} \X apps) \cup ({"Source"} \X owners)
           s == [i \in DOMAIN out.sources |-> [out.sources[i] EXCEPT !.available = i \in owners]]
           a == [k \in DOMAIN out.applications |->
                   [out.applications[k] EXCEPT !.available = k \in apps]]
           u == [n \in DOMAIN out.auths |->
                   [out.auths[n] EXCEPT !.available = out.auths[n].to \in now]]
           x == ApplicationAuthentications
<1>1. o = [[out EXCEPT !.sources = s, !.applications = a, !.auths = u] EXCEPT !.assocs = x]
  BY DEF SetCorrespondingResourcesAsAvailable
<1> HIDE DEF s, a, u, x
<1>2. /\ o.sources = s /\ o.applications = a /\ o.endpoints = out.endpoints /\ o.auths = u
      /\ o.assocs = x /\ DOMAIN o = Fields
  BY <1>1 DEF Fields
<1> QED BY <1>2 DEF s, a, u, x, Completed

LEMMA CommitKeepsSource ==
    ASSUME NEW x, NEW i, SourceRow(x, i), NEW v
    PROVE  SourceRow([x EXCEPT !.available = v], i) /\ [x EXCEPT !.available = v].available = v
<1> DEFINE o == OwnershipPresentForSource(body.sources[i].name)
           b == body.sources[i]
           av == x.available
<1>1. x = [name |-> b.name, type |-> b.type, superkey |-> b.superkey, owned |-> o,
           available |-> av]
  BY DEF SourceRow
<1> HIDE DEF o, av
<1>2. [x EXCEPT !.available = v] =
        [name |-> b.name, type |-> b.type, superkey |-> b.superkey, owned |-> o, available |-> v]
  BY <1>1
<1>3. [x EXCEPT !.available = v].available = v BY <1>2
<1> QED BY <1>2, <1>3, Zenon DEF SourceRow, o

LEMMA CommitKeepsRow ==
    ASSUME NEW x, NEW a, NEW i, RowOf(x, a, i), NEW v
    PROVE  LET y == [x EXCEPT !.available = v] IN
           /\ RowOf(y, a, i) /\ y.available = v
           /\ y.type = x.type /\ y.source = x.source /\ y.owned = x.owned
<1> DEFINE o == OwnershipPresentForSourceAndApplication(a.source, a.name)
           av == x.available
           y == [x EXCEPT !.available = v]
<1>1. x = [source |-> i, type |-> a.type, available |-> av, owned |-> o]
  BY DEF RowOf
<1> HIDE DEF o, av
<1>2. y = [source |-> i, type |-> a.type, available |-> v, owned |-> o]
  BY <1>1
<1>3. y.available = v /\ y.type = x.type /\ y.source = x.source /\ y.owned = x.owned
  BY <1>1, <1>2
<1>4. RowOf(y, a, i)
  <2> HIDE DEF y
  <2> QED BY <1>2, <1>3, Zenon DEF RowOf, o
<1> QED BY <1>3, <1>4

\* AvailableTogether, of an output.
Available(o) ==
    /\ \A i \in DOMAIN o.sources :
         o.sources[i].available <=>
           \E a \in ToSet(o.applications) : a.source = i /\ a.available
    /\ \A a \in ToSet(o.applications) :
         a.available <=> <<o.sources[a.source].type, a.type>> \in Override
    /\ \A x \in ToSet(o.auths) :
         x.available <=>
           /\ x.to \notin Existing
           /\ \/ x.to[1] = "Source" /\ o.sources[x.to[2]].available
              \/ x.to[1] = "Application" /\ o.applications[x.to[2]].available

\* The associations are of authentications and applications of the output.
Associated(o) ==
    \A x \in o.assocs :
      /\ x.auth \in DOMAIN o.auths
      /\ <<"Application", x.application>> \notin Existing =>
           /\ x.application \in DOMAIN o.applications
           /\ x.owned <=> OwnershipPresentForApplication(
                            <<o.applications[x.application].type, "full">>)

Apps == AvailableApplications
Owners == {out.applications[k].source : k \in Apps}
Now == ({"Application"} \X Apps) \cup ({"Source"} \X Owners)

(* Row by row: the commit changes nothing but the status.                   *)
LEMMA CompletedRows ==
    ASSUME RowsOK(out), Output(out), NEW o, Completed(o)
    PROVE  /\ DOMAIN o.sources = DOMAIN out.sources
           /\ \A i \in DOMAIN out.sources :
                /\ SourceRow(o.sources[i], i) /\ o.sources[i].type = out.sources[i].type
                /\ o.sources[i].available <=> i \in Owners
           /\ DOMAIN o.applications = DOMAIN out.applications
           /\ \A k \in DOMAIN out.applications :
                /\ \A a, i : RowOf(out.applications[k], a, i) => RowOf(o.applications[k], a, i)
                /\ o.applications[k].type = out.applications[k].type
                /\ o.applications[k].source = out.applications[k].source
                /\ o.applications[k].owned = out.applications[k].owned
                /\ o.applications[k].available <=> k \in Apps
           /\ o.endpoints = out.endpoints
           /\ DOMAIN o.auths = DOMAIN out.auths
           /\ \A n \in DOMAIN out.auths :
                /\ o.auths[n].to = out.auths[n].to
                /\ o.auths[n].owned = out.auths[n].owned
                /\ o.auths[n].available <=> out.auths[n].to \in Now
<1>1. /\ o.sources = [i \in DOMAIN out.sources |->
                          [out.sources[i] EXCEPT !.available = i \in Owners]]
      /\ o.applications = [k \in DOMAIN out.applications |->
                             [out.applications[k] EXCEPT !.available = k \in Apps]]
      /\ o.endpoints = out.endpoints
      /\ o.auths = [n \in DOMAIN out.auths |->
                      [out.auths[n] EXCEPT !.available = out.auths[n].to \in Now]]
  BY DEF Completed, Apps, Owners, Now
<1>2. ASSUME NEW i \in DOMAIN out.sources
      PROVE  /\ SourceRow(o.sources[i], i) /\ o.sources[i].type = out.sources[i].type
             /\ o.sources[i].available <=> i \in Owners
  <2>1. \A v : LET y == [out.sources[i] EXCEPT !.available = v] IN
               SourceRow(y, i) /\ y.type = out.sources[i].type /\ y.available = v
    BY <1>2, CommitKeepsSource DEF RowsOK, Sourced
  <2>2. o.sources[i] = [out.sources[i] EXCEPT !.available = i \in Owners]
    BY <1>1, <1>2, Zenon
  <2> QED BY <2>1, <2>2, Zenon
<1>3. ASSUME NEW k \in DOMAIN out.applications
      PROVE  /\ \A a, i : RowOf(out.applications[k], a, i) => RowOf(o.applications[k], a, i)
             /\ o.applications[k].type = out.applications[k].type
             /\ o.applications[k].source = out.applications[k].source
             /\ o.applications[k].owned = out.applications[k].owned
             /\ o.applications[k].available <=> k \in Apps
  <2> DEFINE x == out.applications[k]
             y == [x EXCEPT !.available = k \in Apps]
  <2>1. PICK a0, i0 : RowOf(x, a0, i0)
    BY <1>3, Zenon DEF RowsOK, Applied
  <2>2. \A a, i : RowOf(x, a, i) => RowOf(y, a, i)
    BY CommitKeepsRow, Zenon
  <2>3. y.type = x.type /\ y.source = x.source /\ y.owned = x.owned /\ (y.available <=> k \in Apps)
    <3>1. \A v : LET z == [x EXCEPT !.available = v] IN
                 z.type = x.type /\ z.source = x.source /\ z.owned = x.owned /\ z.available = v
      <4>1. PICK b, t, w, v : x = [source |-> b, type |-> t, available |-> v, owned |-> w]
        BY <2>1, Zenon DEF RowOf
      <4> HIDE DEF x
      <4> QED BY <4>1
    <3> QED BY <3>1, Zenon
  <2>4. o.applications[k] = y BY <1>1, <1>3, Zenon
  <2> HIDE DEF x, y
  <2>5. /\ \A a, i : RowOf(x, a, i) => RowOf(o.applications[k], a, i)
        /\ o.applications[k].type = x.type /\ o.applications[k].source = x.source
        /\ o.applications[k].owned = x.owned /\ (o.applications[k].available <=> k \in Apps)
    BY <2>2, <2>3, <2>4, Zenon
  <2> QED BY <2>5, Zenon DEF x
<1>4. ASSUME NEW n \in DOMAIN out.auths
      PROVE  /\ o.auths[n].to = out.auths[n].to
             /\ o.auths[n].owned = out.auths[n].owned
             /\ o.auths[n].available <=> out.auths[n].to \in Now
  <2>1. \A v : LET y == [out.auths[n] EXCEPT !.available = v] IN
               y.to = out.auths[n].to /\ y.owned = out.auths[n].owned /\ y.available = v
    <3>1. PICK t, w, v : out.auths[n] = [to |-> t, owned |-> w, available |-> v]
      BY <1>4, Zenon DEF Output
    <3> QED BY <3>1
  <2>2. o.auths[n] = [out.auths[n] EXCEPT !.available = out.auths[n].to \in Now]
    BY <1>1, <1>4, Zenon
  <2> QED BY <2>1, <2>2, Zenon
<1>5. /\ DOMAIN o.sources = DOMAIN out.sources /\ DOMAIN o.applications = DOMAIN out.applications
      /\ DOMAIN o.auths = DOMAIN out.auths
  BY <1>1, Zenon
<1> QED BY <1>1, <1>2, <1>3, <1>4, <1>5, Zenon

LEMMA CommitLinks ==
    ASSUME body \in Bodies, RowsOK(out), Output(out), Linked(out), NEW o, Completed(o)
    PROVE  RowsOK(o) /\ Linked(o)
<1>1. Sourced(o) BY CompletedRows, Zenon DEF RowsOK, Sourced
<1>2. Applied(o)
  <2>1. Len(o.applications) = Len(body.applications)
    <3> DEFINE n == Len(body.applications)
               E == {o.applications[k] : k \in 1..n}
    <3>1. DOMAIN body.applications = 1..n /\ n \in Nat
      BY BulkAssemblyAssumption DEF IsSequence
    <3>2. DOMAIN o.applications = 1..n
      BY <3>1, CompletedRows, Zenon DEF RowsOK, Applied
    <3>3. o.applications = [k \in DOMAIN out.applications |->
                              [out.applications[k] EXCEPT !.available = k \in AvailableApplications]]
      BY DEF Completed
    <3>4. o.applications = [k \in DOMAIN o.applications |-> o.applications[k]]
      BY <3>3
    <3>5. o.applications \in [1..n -> E] BY <3>2, <3>4
    <3> HIDE DEF E, n
    <3>6. Len(o.applications) = n BY <3>1, <3>5, SequenceOf
    <3> QED BY <3>6 DEF n
  <2>2. DOMAIN o.applications = DOMAIN body.applications
    BY CompletedRows, Zenon DEF RowsOK, Applied
  <2>3. DOMAIN o.applications = DOMAIN out.applications BY CompletedRows, Zenon
  <2>4. \A k \in DOMAIN out.applications : \A a, i :
          RowOf(out.applications[k], a, i) => RowOf(o.applications[k], a, i)
    BY CompletedRows, Zenon
  <2> QED BY <2>1, <2>2, <2>3, <2>4, Zenon DEF RowsOK, Applied
<1>3. Placed(o) BY CompletedRows, Zenon DEF RowsOK, Placed
<1>4. Linked(o)
  <2>1. DOMAIN o.auths = DOMAIN out.auths BY CompletedRows, Zenon
  <2>2. ASSUME NEW n \in DOMAIN out.auths, NEW a, NewLink(out, out.auths[n].to, a)
        PROVE  NewLink(o, out.auths[n].to, a)
    <3>1. /\ o.endpoints = out.endpoints /\ DOMAIN o.applications = DOMAIN out.applications
          /\ \A k \in DOMAIN out.applications : o.applications[k].type = out.applications[k].type
      BY CompletedRows, Zenon
    <3> QED BY <2>2, <3>1, Zenon DEF NewLink, ApplicationLink, EndpointLink
  <2>3. \A n \in DOMAIN out.auths :
          o.auths[n].to = out.auths[n].to /\ o.auths[n].owned = out.auths[n].owned
    BY CompletedRows, Zenon
  <2>4. ASSUME NEW n \in DOMAIN o.auths
        PROVE  \/ ExistingLink(o.auths[n].to, body.auths[n])
               \/ /\ NewLink(o, o.auths[n].to, body.auths[n])
                  /\ o.auths[n].owned <=> NewOwned(body.auths[n])
    <3>1. n \in DOMAIN out.auths BY <2>1, <2>4
    <3>2. \/ ExistingLink(out.auths[n].to, body.auths[n])
          \/ /\ NewLink(out, out.auths[n].to, body.auths[n])
             /\ out.auths[n].owned <=> NewOwned(body.auths[n])
      BY <3>1, Zenon DEF Linked
    <3>3. o.auths[n].to = out.auths[n].to /\ o.auths[n].owned = out.auths[n].owned
      BY <2>3, <3>1
    <3>4. CASE ExistingLink(out.auths[n].to, body.auths[n]) BY <3>3, <3>4
    <3>5. CASE /\ NewLink(out, out.auths[n].to, body.auths[n])
               /\ out.auths[n].owned <=> NewOwned(body.auths[n])
      <4>1. NewLink(o, out.auths[n].to, body.auths[n]) BY <2>2, <3>1, <3>5
      <4>2. NewLink(o, o.auths[n].to, body.auths[n]) BY <3>3, <4>1
      <4> QED BY <3>3, <3>5, <4>2, Zenon
    <3> QED BY <3>2, <3>4, <3>5
  <2>5. DOMAIN o.auths = DOMAIN body.auths BY <2>1 DEF Linked
  <2> QED BY <2>4, <2>5, Zenon DEF Linked
<1> QED BY <1>1, <1>2, <1>3, <1>4 DEF RowsOK

LEMMA RowHasSource ==
    ASSUME RowsOK(out), NEW k \in DOMAIN out.applications
    PROVE  \E b, j : j \in DOMAIN out.sources /\ RowOf(out.applications[k], b, j)
<1>1. PICK b \in ToSet(body.applications) : \E j \in SourcesNamed(b.source) :
        RowOf(out.applications[k], b, j)
  BY Zenon DEF RowsOK, Applied
<1>2. PICK j \in SourcesNamed(b.source) : RowOf(out.applications[k], b, j)
  BY <1>1
<1>3. j \in DOMAIN out.sources BY DEF SourcesNamed, RowsOK, Sourced
<1> QED BY <1>2, <1>3

LEMMA CommitAvailable ==
    ASSUME body \in Bodies, RowsOK(out), Output(out), Linked(out), NEW o, Completed(o)
    PROVE  Available(o)
<1>1. ASSUME NEW i \in DOMAIN o.sources
      PROVE  o.sources[i].available <=>
               \E a \in ToSet(o.applications) : a.source = i /\ a.available
  <2>1. o.sources[i].available <=> i \in Owners BY <1>1, CompletedRows, Zenon
  <2>2. DOMAIN o.applications = DOMAIN out.applications BY CompletedRows, Zenon
  <2>3. \A k \in DOMAIN out.applications :
          /\ o.applications[k].source = out.applications[k].source
          /\ o.applications[k].available <=> k \in Apps
    BY CompletedRows, Zenon
  <2>4. Apps \subseteq DOMAIN out.applications BY DEF Apps, AvailableApplications
  <2>5. i \in Owners => \E a \in ToSet(o.applications) : a.source = i /\ a.available
    <3> SUFFICES ASSUME i \in Owners
                 PROVE  \E a \in ToSet(o.applications) : a.source = i /\ a.available
      OBVIOUS
    <3>1. PICK k \in Apps : out.applications[k].source = i BY DEF Owners
    <3>2. k \in DOMAIN out.applications BY <2>4
    <3>3. o.applications[k].source = i BY <2>3, <3>1, <3>2
    <3>4. o.applications[k].available BY <2>3, <3>2, Zenon
    <3>5. o.applications[k] \in ToSet(o.applications) BY <2>2, <3>2 DEF ToSet
    <3> QED BY <3>3, <3>4, <3>5, Zenon
  <2>6. (\E a \in ToSet(o.applications) : a.source = i /\ a.available) => i \in Owners
    <3> SUFFICES ASSUME NEW a \in ToSet(o.applications), a.source = i, a.available
                 PROVE  i \in Owners
      OBVIOUS
    <3>1. PICK k \in DOMAIN out.applications : a = o.applications[k] BY <2>2 DEF ToSet
    <3>2. k \in Apps BY <2>3, <3>1, Zenon
    <3>3. out.applications[k].source = i BY <2>3, <3>1
    <3> QED BY <3>2, <3>3 DEF Owners
  <2> QED BY <2>1, <2>5, <2>6, Zenon
<1>2. ASSUME NEW a \in ToSet(o.applications)
      PROVE  a.available <=> <<o.sources[a.source].type, a.type>> \in Override
  <2>1. PICK k \in DOMAIN out.applications : a = o.applications[k]
    BY CompletedRows DEF ToSet
  <2>2. /\ a.type = out.applications[k].type /\ a.source = out.applications[k].source
        /\ a.available <=> k \in Apps
    BY <2>1, CompletedRows, Zenon
  <2>3. k \in Apps <=>
          <<out.sources[out.applications[k].source].type, out.applications[k].type>> \in Override
    BY <2>1, Zenon DEF Apps, AvailableApplications, ShouldSourceApplicationSetAvailable
  <2>4. PICK b, j : j \in DOMAIN out.sources /\ RowOf(out.applications[k], b, j)
    BY RowHasSource
  <2>5. out.applications[k].source = j BY <2>4 DEF RowOf
  <2>6. o.sources[a.source].type = out.sources[out.applications[k].source].type
    <3>1. o.sources[j].type = out.sources[j].type BY <2>4, CompletedRows, Zenon
    <3> QED BY <2>2, <2>5, <3>1
  <2>7. k \in Apps <=> <<o.sources[a.source].type, a.type>> \in Override
    <3>1. <<o.sources[a.source].type, a.type>>
            = <<out.sources[out.applications[k].source].type, out.applications[k].type>>
      BY <2>2, <2>6
    <3> QED BY <2>3, <3>1
  <2> QED BY <2>2, <2>7, Zenon
<1>3. ASSUME NEW x \in ToSet(o.auths)
      PROVE  x.available <=>
               /\ x.to \notin Existing
               /\ \/ x.to[1] = "Source" /\ o.sources[x.to[2]].available
                  \/ x.to[1] = "Application" /\ o.applications[x.to[2]].available
  <2>1. PICK n \in DOMAIN out.auths : x = o.auths[n]
    BY CompletedRows DEF ToSet
  <2>2. x.to = out.auths[n].to /\ (x.available <=> x.to \in Now)
    BY <2>1, CompletedRows, Zenon
  <2>3. \/ ExistingLink(x.to, body.auths[n])
        \/ NewLink(out, x.to, body.auths[n])
    BY <2>2, Zenon DEF Linked
  <2>4. Apps \subseteq DOMAIN out.applications BY DEF Apps, AvailableApplications
  <2>5. Owners \subseteq DOMAIN out.sources
    <3> SUFFICES ASSUME NEW k \in Apps PROVE out.applications[k].source \in DOMAIN out.sources
      BY DEF Owners
    <3>1. PICK b, j : j \in DOMAIN out.sources /\ RowOf(out.applications[k], b, j)
      BY <2>4, RowHasSource
    <3> QED BY <3>1 DEF RowOf
  <2>6. CASE x.to \in Existing
    <3>1. x.to \notin Now
      BY <2>4, <2>5, <2>6, NewIds DEF Now
    <3> QED BY <2>2, <2>6, <3>1, Zenon
  <2>7. CASE SourceLink(x.to, body.auths[n]) /\ x.to \notin Existing
    <3>1. x.to = <<"Source", 1>> /\ 1 \in DOMAIN out.sources BY <2>7, NewIds DEF SourceLink
    <3>2. x.to \in Now <=> 1 \in Owners BY <3>1 DEF Now
    <3>3. o.sources[1].available <=> 1 \in Owners BY <3>1, CompletedRows, Zenon
    <3>4. x.to[1] = "Source" /\ x.to[2] = 1 /\ x.to[1] # "Application" BY <3>1
    <3>5. o.sources[x.to[2]].available <=> x.to \in Now BY <3>2, <3>3, <3>4
    <3> QED BY <2>2, <2>7, <3>4, <3>5, Zenon
  <2>8. CASE ApplicationLink(out, x.to, body.auths[n]) /\ x.to \notin Existing
    <3>1. PICK k \in DOMAIN out.applications : x.to = <<"Application", k>>
      BY <2>8 DEF ApplicationLink
    <3>2. x.to \in Now <=> k \in Apps BY <3>1 DEF Now
    <3>3. o.applications[k].available <=> k \in Apps BY <3>1, CompletedRows, Zenon
    <3>4. x.to[1] = "Application" /\ x.to[2] = k /\ x.to[1] # "Source" BY <3>1
    <3>5. o.applications[x.to[2]].available <=> x.to \in Now BY <3>2, <3>3, <3>4
    <3> QED BY <2>2, <2>8, <3>4, <3>5, Zenon
  <2>9. CASE EndpointLink(out, x.to, body.auths[n]) /\ x.to \notin Existing
    <3>1. PICK k : x.to = <<"Endpoint", k>> BY <2>9 DEF EndpointLink
    <3>2. x.to \notin Now BY <3>1 DEF Now
    <3>3. x.to[1] # "Application" /\ x.to[1] # "Source" BY <3>1
    <3> QED BY <2>2, <3>2, <3>3, Zenon
  <2>10. CASE ExistingLink(x.to, body.auths[n]) BY <2>6, <2>10 DEF ExistingLink
  <2> QED BY <2>3, <2>6, <2>7, <2>8, <2>9, <2>10 DEF NewLink
<1> QED BY <1>1, <1>2, <1>3, Zenon DEF Available

LEMMA CommitAssociates ==
    ASSUME body \in Bodies, RowsOK(out), Output(out), Linked(out), NEW o, Completed(o)
    PROVE  Associated(o)
<1>1. o.assocs = ApplicationAuthentications BY DEF Completed
<1>2. ASSUME NEW x \in o.assocs
      PROVE  /\ x.auth \in DOMAIN o.auths
             /\ <<"Application", x.application>> \notin Existing =>
                  /\ x.application \in DOMAIN o.applications
                  /\ x.owned <=> OwnershipPresentForApplication(
                                   <<o.applications[x.application].type, "full">>)
  <2>1. PICK n \in DOMAIN out.auths :
          /\ out.auths[n].to[1] = "Application"
          /\ x = [auth |-> n, application |-> out.auths[n].to[2],
                  owned |-> /\ out.auths[n].to \notin Existing
                            /\ OwnershipPresentForApplication(
                                 <<out.applications[out.auths[n].to[2]].type, "full">>)]
    BY <1>1, <1>2, Zenon DEF ApplicationAuthentications
  <2> DEFINE w == /\ out.auths[n].to \notin Existing
                  /\ OwnershipPresentForApplication(
                                 <<out.applications[out.auths[n].to[2]].type, "full">>)
             m == out.auths[n].to[2]
  <2>2. x = [auth |-> n, application |-> m, owned |-> w] BY <2>1, Zenon
  <2>3. x.auth = n /\ x.application = m /\ x.owned = w
    <3> HIDE DEF w, m
    <3>1. \A v : LET z == [auth |-> n, application |-> m, owned |-> v] IN
                 z.auth = n /\ z.application = m /\ z.owned = v
      OBVIOUS
    <3> QED BY <2>2, <3>1, Zenon
  <2>4. x.auth \in DOMAIN o.auths BY <2>3, CompletedRows
  <2>5. ASSUME <<"Application", m>> \notin Existing
        PROVE  /\ m \in DOMAIN o.applications
               /\ w <=> OwnershipPresentForApplication(<<o.applications[m].type, "full">>)
    <3>1. out.auths[n].to = <<"Application", m>> /\ m \in DOMAIN out.applications
      <4>1. \/ ExistingLink(out.auths[n].to, body.auths[n])
            \/ NewLink(out, out.auths[n].to, body.auths[n])
        BY Zenon DEF Linked
      <4>2. CASE ExistingLink(out.auths[n].to, body.auths[n])
        BY <2>1, <2>5, <4>2 DEF ExistingLink
      <4>3. CASE NewLink(out, out.auths[n].to, body.auths[n])
        <5>1. ~SourceLink(out.auths[n].to, body.auths[n]) BY <2>1 DEF SourceLink
        <5>2. ~EndpointLink(out, out.auths[n].to, body.auths[n]) 
          <6> SUFFICES ASSUME EndpointLink(out, out.auths[n].to, body.auths[n]) PROVE FALSE
            OBVIOUS
          <6>1. PICK k : out.auths[n].to = <<"Endpoint", k>> BY Zenon DEF EndpointLink
          <6> QED BY <2>1, <6>1
        <5>3. ApplicationLink(out, out.auths[n].to, body.auths[n])
          BY <4>3, <5>1, <5>2 DEF NewLink
        <5> QED BY <5>3 DEF ApplicationLink
      <4> QED BY <4>1, <4>2, <4>3
    <3>2. o.applications[m].type = out.applications[m].type BY <3>1, CompletedRows, Zenon
    <3>3. m \in DOMAIN o.applications BY <3>1, CompletedRows
    <3>4. out.auths[n].to \notin Existing BY <2>5, <3>1
    <3>5. w <=> OwnershipPresentForApplication(<<out.applications[m].type, "full">>)
      BY <3>4, Zenon
    <3>6. <<out.applications[m].type, "full">> = <<o.applications[m].type, "full">>
      BY <3>2
    <3> QED BY <3>3, <3>5, <3>6, Zenon
  <2> HIDE DEF w, m
  <2> QED BY <2>3, <2>4, <2>5, Zenon
<1> QED BY <1>2, Zenon DEF Associated

-----------------------------------------------------------------------------
(* What all this says of a committed request.                               *)

LEMMA SourceFields ==
    ASSUME NEW x, NEW i, SourceRow(x, i)
    PROVE  /\ x.name = body.sources[i].name /\ x.type = body.sources[i].type
           /\ x.superkey = body.sources[i].superkey
           /\ x.owned = OwnershipPresentForSource(body.sources[i].name)
<1> DEFINE o == OwnershipPresentForSource(body.sources[i].name)
           v == x.available
<1>1. x = [name |-> body.sources[i].name, type |-> body.sources[i].type,
           superkey |-> body.sources[i].superkey, owned |-> o, available |-> v]
  BY DEF SourceRow
<1> HIDE DEF o, v
<1>2. /\ x.name = body.sources[i].name /\ x.type = body.sources[i].type
      /\ x.superkey = body.sources[i].superkey /\ x.owned = o
  BY <1>1
<1> QED BY <1>2 DEF o

LEMMA RowFields ==
    ASSUME NEW x, NEW a, NEW i, RowOf(x, a, i)
    PROVE  /\ x.source = i /\ x.type = a.type
           /\ x.owned = OwnershipPresentForSourceAndApplication(a.source, a.name)
<1> DEFINE o == OwnershipPresentForSourceAndApplication(a.source, a.name)
           v == x.available
<1>1. x = [source |-> i, type |-> a.type, available |-> v, owned |-> o]
  BY DEF RowOf
<1> HIDE DEF o, v
<1>2. x.source = i /\ x.type = a.type /\ x.owned = o
  BY <1>1
<1> QED BY <1>2 DEF o

LEMMA GivesLinked ==
    ASSUME body \in Bodies, RowsOK(out), Linked(out)
    PROVE  LinkedAsAsked
<1>1. ASSUME NEW k \in DOMAIN out.auths
      PROVE  LET a == body.auths[k]  to == out.auths[k].to
             IN  /\ to[1] = a.of
                 /\ to \in Existing => to[2] = a.id
                 /\ to \notin Existing /\ a.of = "Application" =>
                      out.applications[to[2]].type = a.name[1]
                 /\ to \notin Existing /\ a.of = "Endpoint" =>
                      <<a.name, out.endpoints[to[2]].host>> \in Within
  <2> DEFINE a == body.auths[k]
             to == out.auths[k].to
  <2>1. ExistingLink(to, a) \/ NewLink(out, to, a) BY <1>1, Zenon DEF Linked
  <2> HIDE DEF a, to
  <2>2. CASE ExistingLink(to, a) BY <2>2 DEF ExistingLink, a, to
  <2>3. CASE SourceLink(to, a) /\ to \notin Existing BY <2>3 DEF SourceLink, a, to
  <2>4. CASE ApplicationLink(out, to, a) /\ to \notin Existing
    <3>1. PICK n \in DOMAIN out.applications :
            to = <<"Application", n>> /\ out.applications[n].type = a.name[1]
      BY <2>4, Zenon DEF ApplicationLink
    <3>2. a.of = "Application" BY <2>4, Zenon DEF ApplicationLink
    <3>3. to[1] = "Application" /\ to[2] = n BY <3>1
    <3>4. out.applications[to[2]].type = a.name[1] BY <3>1, <3>3
    <3> QED BY <2>4, <3>2, <3>3, <3>4 DEF a, to
  <2>5. CASE EndpointLink(out, to, a) /\ to \notin Existing
    <3>1. PICK n \in DOMAIN out.endpoints :
            to = <<"Endpoint", n>> /\ <<a.name, out.endpoints[n].host>> \in Within
      BY <2>5, Zenon DEF EndpointLink
    <3>2. a.of = "Endpoint" BY <2>5, Zenon DEF EndpointLink
    <3>3. to[1] = "Endpoint" /\ to[2] = n BY <3>1
    <3>4. <<a.name, out.endpoints[to[2]].host>> \in Within BY <3>1, <3>3
    <3> QED BY <2>5, <3>2, <3>3, <3>4 DEF a, to
  <2> QED BY <2>1, <2>2, <2>3, <2>4, <2>5, Zenon DEF NewLink
<1>2. ASSUME Distinct
      PROVE  /\ Len(out.applications) = Len(body.applications)
             /\ \A k \in DOMAIN out.applications :
                  LET a == out.applications[k]
                  IN  /\ out.sources[a.source].name = body.applications[k].source
                      /\ a.type = body.applications[k].type
             /\ \A k \in DOMAIN out.endpoints :
                  out.sources[out.endpoints[k].source].name = body.endpoints[k].source
  <2>1. Len(out.applications) = Len(body.applications) BY DEF RowsOK, Applied
  <2>2. ASSUME NEW n, NEW i \in SourcesNamed(n) PROVE out.sources[i].name = n
    <3>1. i \in DOMAIN out.sources /\ body.sources[i].name = n
      BY <2>2 DEF SourcesNamed, RowsOK, Sourced
    <3>2. SourceRow(out.sources[i], i) BY <3>1 DEF RowsOK, Sourced
    <3>3. out.sources[i].name = body.sources[i].name BY <3>2, SourceFields
    <3> QED BY <3>1, <3>3
  <2>3. ASSUME NEW k \in DOMAIN out.applications
        PROVE  /\ out.sources[out.applications[k].source].name = body.applications[k].source
               /\ out.applications[k].type = body.applications[k].type
    <3>1. PICK i \in SourcesNamed(body.applications[k].source) :
            RowOf(out.applications[k], body.applications[k], i)
      BY <1>2, <2>3, Zenon DEF RowsOK, Applied
    <3>2. /\ out.applications[k].source = i
          /\ out.applications[k].type = body.applications[k].type
      BY <3>1, RowFields
    <3> QED BY <2>2, <3>1, <3>2
  <2>4. ASSUME NEW k \in DOMAIN out.endpoints
        PROVE  out.sources[out.endpoints[k].source].name = body.endpoints[k].source
    <3>1. out.endpoints[k].source \in SourcesNamed(body.endpoints[k].source)
      BY <2>4, Zenon DEF RowsOK, Placed
    <3> QED BY <2>2, <3>1
  <2> QED BY <2>1, <2>3, <2>4
<1> QED BY <1>1, <1>2, Zenon DEF LinkedAsAsked, Distinct

\* The requests OwnedTogether is about.
Plain ==
    /\ Len(body.sources) = 1
    /\ \A a \in ToSet(body.applications) : a.name = LastPart(a.name) /\ a.name # <<>>

LEMMA ShortNames ==
    ASSUME body \in Bodies, Plain, NEW a \in ToSet(body.applications)
    PROVE  a.name = <<a.type, "short">>
<1>1. a.name \in {<<>>, <<a.type, "short">>, <<a.type, "full">>}
  BY BulkAssemblyAssumption
<1>2. a.name # <<>> /\ a.name = LastPart(a.name) BY DEF Plain
<1>3. a.name = <<a.name[1], "short">> BY <1>2 DEF LastPart
<1>4. a.name # <<a.type, "full">>
  <2> SUFFICES ASSUME a.name = <<a.type, "full">> PROVE FALSE OBVIOUS
  <2>1. a.name[2] = "full" BY SMT
  <2>2. a.name[2] = "short" BY <1>3
  <2> QED BY <2>1, <2>2
<1> QED BY <1>1, <1>2, <1>4

\* The types of which the user owns an application of the request.
LEMMA OwnedTypesOf ==
    ASSUME body \in Bodies, Plain, NEW t, NEW word
    PROVE  OwnershipPresentForApplication(<<t, word>>) <=>
             /\ body.user /\ t \in OwnedTypes
             /\ \E a \in ToSet(body.applications) : a.type = t
<1>1. LastPart(<<t, word>>) = <<t, "short">>
  <2>1. <<t, word>> # <<>> /\ <<t, word>>[1] = t OBVIOUS
  <2> QED BY <2>1 DEF LastPart
<1>2. ASSUME OwnershipPresentForApplication(<<t, word>>)
      PROVE  /\ body.user /\ t \in OwnedTypes
             /\ \E a \in ToSet(body.applications) : a.type = t
  <2>1. PICK a \in OwnedApplications : a.name = <<t, "short">>
    BY <1>1, <1>2 DEF OwnershipPresentForApplication
  <2>2. a \in ToSet(body.applications) /\ body.user /\ a.type \in OwnedTypes
    BY DEF OwnedApplications
  <2>3. a.name = <<a.type, "short">> BY <2>2, ShortNames
  <2>4. a.type = t BY <2>1, <2>3
  <2> QED BY <2>2, <2>4
<1>3. ASSUME body.user, t \in OwnedTypes, NEW a \in ToSet(body.applications), a.type = t
      PROVE  OwnershipPresentForApplication(<<t, word>>)
  <2>1. a.name = <<t, "short">> BY <1>3, ShortNames
  <2>2. a \in OwnedApplications BY <1>3 DEF OwnedApplications
  <2> QED BY <1>1, <2>1, <2>2 DEF OwnershipPresentForApplication
<1> QED BY <1>2, <1>3, Zenon

LEMMA OneSource ==
    ASSUME body \in Bodies, Plain
    PROVE  /\ DOMAIN body.sources = {1} /\ Distinct
           /\ \A n : \A i \in SourcesNamed(n) : i = 1 /\ n = body.sources[1].name
<1>1. DOMAIN body.sources = {1}
  <2>1. DOMAIN body.sources = 1..Len(body.sources) /\ Len(body.sources) = 1
    BY BulkAssemblyAssumption DEF IsSequence, Plain
  <2>2. 1..1 = {1} OBVIOUS
  <2> QED BY <2>1, <2>2
<1>2. Distinct
  <2>1. \A s \in ToSet(body.sources) : SourcesNamed(s.name) = {1}
    BY <1>1 DEF ToSet, SourcesNamed
  <2>2. Cardinality({1}) = 1 BY FS_Singleton
  <2> QED BY <2>1, <2>2 DEF Distinct
<1> QED BY <1>1, <1>2 DEF SourcesNamed

\* Of a plain request, each application of the output.
LEMMA PlainRows ==
    ASSUME body \in Bodies, RowsOK(out), Plain
    PROVE  /\ \A k \in DOMAIN out.applications :
                /\ body.applications[k] \in ToSet(body.applications)
                /\ body.applications[k].source = body.sources[1].name
                /\ out.applications[k].type = body.applications[k].type
                /\ out.applications[k].owned <=>
                     body.user /\ out.applications[k].type \in OwnedTypes
           /\ \A a \in ToSet(body.applications) : \E k \in DOMAIN out.applications :
                a = body.applications[k]
           /\ OwnershipPresentForSource(body.sources[1].name) <=>
                \E k \in DOMAIN out.applications : out.applications[k].owned
<1>1. DOMAIN out.applications = DOMAIN body.applications BY DEF RowsOK, Applied
<1>2. \A a \in ToSet(body.applications) : \E k \in DOMAIN out.applications :
        a = body.applications[k]
  BY <1>1 DEF ToSet
<1>3. ASSUME NEW k \in DOMAIN out.applications
      PROVE  /\ body.applications[k] \in ToSet(body.applications)
             /\ body.applications[k].source = body.sources[1].name
             /\ out.applications[k].type = body.applications[k].type
             /\ out.applications[k].owned <=>
                  body.user /\ out.applications[k].type \in OwnedTypes
  <2> DEFINE a == body.applications[k]
             x == out.applications[k]
  <2>1. a \in ToSet(body.applications) BY <1>1 DEF ToSet
  <2>2. PICK i \in SourcesNamed(a.source) : RowOf(x, a, i)
    BY <1>3, OneSource, Zenon DEF RowsOK, Applied
  <2> HIDE DEF a, x
  <2>3. a.source = body.sources[1].name BY OneSource
  <2>4. x.type = a.type /\ x.owned = OwnershipPresentForSourceAndApplication(a.source, a.name)
    BY <2>2, RowFields
  <2>5. a.name = <<a.type, "short">> BY <2>1, ShortNames
  <2>6. OwnershipPresentForApplication(a.name) <=> body.user /\ a.type \in OwnedTypes
    BY <2>1, <2>5, OwnedTypesOf
  <2>7. body.user /\ a.type \in OwnedTypes => OwnershipPresentForSource(a.source)
    BY <2>1 DEF OwnershipPresentForSource, OwnedApplications
  <2>8. x.owned <=> body.user /\ a.type \in OwnedTypes
    BY <2>4, <2>6, <2>7, Zenon DEF OwnershipPresentForSourceAndApplication
  <2>9. x.owned <=> body.user /\ x.type \in OwnedTypes BY <2>4, <2>8
  <2> QED BY <2>1, <2>3, <2>4, <2>9 DEF a, x
<1>4. ASSUME OwnershipPresentForSource(body.sources[1].name)
      PROVE  \E k \in DOMAIN out.applications : out.applications[k].owned
  <2>1. PICK a \in ToSet(body.applications) : body.user /\ a.type \in OwnedTypes
    BY <1>4 DEF OwnershipPresentForSource, OwnedApplications
  <2>2. PICK k \in DOMAIN out.applications : a = body.applications[k] BY <1>2
  <2>3. out.applications[k].type \in OwnedTypes BY <1>3, <2>1, <2>2
  <2>4. out.applications[k].owned BY <1>3, <2>1, <2>3, Zenon
  <2> QED BY <2>4
<1>5. ASSUME NEW k \in DOMAIN out.applications, out.applications[k].owned
      PROVE  OwnershipPresentForSource(body.sources[1].name)
  <2>1. body.user /\ out.applications[k].type \in OwnedTypes BY <1>3, <1>5, Zenon
  <2>2. body.applications[k] \in OwnedApplications BY <1>3, <2>1 DEF OwnedApplications
  <2> QED BY <1>3, <2>2 DEF OwnershipPresentForSource
<1> QED BY <1>2, <1>3, <1>4, <1>5, Zenon

LEMMA GivesOwned ==
    ASSUME body \in Bodies, RowsOK(out), Linked(out), Associated(out)
    PROVE  OwnedTogether
<1> SUFFICES ASSUME saved, Plain
    PROVE  /\ \A k \in DOMAIN out.applications :
               out.applications[k].owned <=> body.user /\ out.applications[k].type \in OwnedTypes
           /\ out.sources[1].owned <=> \E a \in ToSet(out.applications) : a.owned
           /\ \A x \in ToSet(out.auths) : x.to \notin Existing =>
               (x.owned <=> \/ x.to[1] = "Source" /\ out.sources[1].owned
                            \/ x.to[1] = "Application" /\ out.applications[x.to[2]].owned)
           /\ \A x \in out.assocs : <<"Application", x.application>> \notin Existing =>
               (x.owned <=> out.applications[x.application].owned)
  BY Zenon DEF OwnedTogether, Plain
<1>1. \A k \in DOMAIN out.applications :
        out.applications[k].owned <=> body.user /\ out.applications[k].type \in OwnedTypes
  BY PlainRows, Zenon
<1>2. out.sources[1].owned <=> OwnershipPresentForSource(body.sources[1].name)
  <2>1. 1 \in DOMAIN out.sources BY NewIds
  <2>2. out.sources[1].owned = OwnershipPresentForSource(body.sources[1].name)
    BY <2>1, SourceFields, Zenon DEF RowsOK, Sourced
  <2> QED BY <2>2
<1>3. out.sources[1].owned <=> \E a \in ToSet(out.applications) : a.owned
  <2>1. OwnershipPresentForSource(body.sources[1].name) <=>
          \E k \in DOMAIN out.applications : out.applications[k].owned
    BY PlainRows, Zenon
  <2>2. (\E a \in ToSet(out.applications) : a.owned) <=>
          \E k \in DOMAIN out.applications : out.applications[k].owned
    BY Zenon DEF ToSet
  <2> QED BY <1>2, <2>1, <2>2, Zenon
\* An application of the output of a type: whether it is owned.
<1>4. ASSUME NEW k \in DOMAIN out.applications, NEW word
      PROVE  /\ out.applications[k].owned <=>
                  OwnershipPresentForApplication(<<out.applications[k].type, word>>)
             /\ out.applications[k].owned => OwnershipPresentForSource(body.sources[1].name)
  <2>1. \E a \in ToSet(body.applications) : a.type = out.applications[k].type
    BY <1>4, PlainRows
  <2>2. OwnershipPresentForApplication(<<out.applications[k].type, word>>) <=>
          body.user /\ out.applications[k].type \in OwnedTypes
    BY <2>1, OwnedTypesOf
  <2>3. out.applications[k].owned => OwnershipPresentForSource(body.sources[1].name)
    BY PlainRows, Zenon
  <2> QED BY <1>1, <2>2, <2>3, Zenon
<1>5. ASSUME NEW x \in ToSet(out.auths), x.to \notin Existing
      PROVE  x.owned <=> \/ x.to[1] = "Source" /\ out.sources[1].owned
                         \/ x.to[1] = "Application" /\ out.applications[x.to[2]].owned
  <2>1. PICK n \in DOMAIN out.auths : x = out.auths[n] BY DEF ToSet
  <2> DEFINE a == body.auths[n]
  <2>2. NewLink(out, x.to, a) /\ (x.owned <=> NewOwned(a))
    BY <1>5, <2>1, Zenon DEF Linked, ExistingLink
  <2> HIDE DEF a
  <2>3. CASE SourceLink(x.to, a)
    <3>1. x.to[1] = "Source" /\ x.to[1] # "Application" /\ a.of = "Source"
      BY <2>3 DEF SourceLink
    <3>2. NewOwned(a) <=> OwnershipPresentForSource(body.sources[1].name)
      <4>1. a.of # "Endpoint" /\ a.of # "Application" BY <3>1
      <4> QED BY <4>1, Zenon DEF NewOwned
    <3> QED BY <1>2, <2>2, <3>1, <3>2, Zenon
  <2>4. CASE ApplicationLink(out, x.to, a)
    <3>1. PICK k \in DOMAIN out.applications :
            x.to = <<"Application", k>> /\ out.applications[k].type = a.name[1]
      BY <2>4, Zenon DEF ApplicationLink
    <3>2. a.of = "Application" /\ a.name # <<>> BY <2>4, Zenon DEF ApplicationLink
    <3>3. x.to[1] = "Application" /\ x.to[1] # "Source" /\ x.to[2] = k BY <3>1
    <3>4. LastPart(a.name) = LastPart(<<out.applications[k].type, "short">>)
      <4>1. <<out.applications[k].type, "short">> # <<>>
            /\ <<out.applications[k].type, "short">>[1] = out.applications[k].type
        OBVIOUS
      <4>2. LastPart(a.name) = <<a.name[1], "short">> BY <3>2 DEF LastPart
      <4>3. LastPart(<<out.applications[k].type, "short">>)
              = <<<<out.applications[k].type, "short">>[1], "short">>
        BY <4>1, Zenon DEF LastPart
      <4> QED BY <3>1, <4>1, <4>2, <4>3
    <3>5. OwnershipPresentForApplication(a.name) <=>
            OwnershipPresentForApplication(<<out.applications[k].type, "short">>)
      BY <3>4, Zenon DEF OwnershipPresentForApplication
    <3>6. NewOwned(a) <=> OwnershipPresentForSource(body.sources[1].name)
                          /\ OwnershipPresentForApplication(a.name)
      <4>1. a.of # "Endpoint" BY <3>2
      <4> QED BY <3>2, <4>1, Zenon DEF NewOwned
    <3>7. x.owned <=> out.applications[k].owned BY <1>4, <2>2, <3>5, <3>6, Zenon
    <3>8. out.applications[x.to[2]].owned <=> out.applications[k].owned BY <3>3, Zenon
    <3> QED BY <3>3, <3>7, <3>8, Zenon
  <2>5. CASE EndpointLink(out, x.to, a)
    <3>1. PICK k : x.to = <<"Endpoint", k>> BY <2>5, Zenon DEF EndpointLink
    <3>2. x.to[1] # "Application" /\ x.to[1] # "Source" BY <3>1
    <3>3. ~NewOwned(a) BY <2>5, Zenon DEF EndpointLink, NewOwned
    <3> QED BY <2>2, <3>2, <3>3, Zenon
  <2> QED BY <2>2, <2>3, <2>4, <2>5 DEF NewLink
<1>6. ASSUME NEW x \in out.assocs, <<"Application", x.application>> \notin Existing
      PROVE  x.owned <=> out.applications[x.application].owned
  <2>1. /\ x.application \in DOMAIN out.applications
        /\ x.owned <=> OwnershipPresentForApplication(
                         <<out.applications[x.application].type, "full">>)
    BY <1>6, Zenon DEF Associated
  <2> QED BY <1>4, <2>1, Zenon
<1> QED BY <1>1, <1>3, <1>5, <1>6, Zenon

-----------------------------------------------------------------------------
(* The messages, in their order.                                            *)

(* Messages: of a known kind, with a number; applications of superkey       *)
(* sources by their own event.                                              *)
Ranks == {"Source", "Endpoint", "Application", "ApplicationAuthentication", "Authentication"}

Message == {"create", "superkey"} \X Ranks \X Nat

AsWorkflow(m) ==
    m[2] = "Application" =>
      \/ \E s, t \in ToSet(out.sources) : s.superkey # t.superkey
      \/ LET a == out.applications[m[3]]
         IN  out.sources[a.source].superkey <=> m[1] = "superkey"

Sorted(t) == \A i, j \in 1..Len(t) : i < j => Before(t[i], t[j])

Ranked(t, lo, hi) ==
    /\ t \in Seq(Message) /\ Sorted(t)
    /\ \A i \in 1..Len(t) : Rank(t[i][2]) \in lo..hi /\ AsWorkflow(t[i])

LEMMA RankNumbers ==
    /\ \A k \in Ranks : Rank(k) \in 1..5
    /\ Rank("Source") = 1 /\ Rank("Endpoint") = 2 /\ Rank("Application") = 3
    /\ Rank("ApplicationAuthentication") = 4 /\ Rank("Authentication") = 5
BY DEF Rank, Ranks

LEMMA RankedConcat ==
    ASSUME NEW t, NEW u, NEW lo \in Nat, NEW mid \in Nat, NEW high \in Nat, NEW hi \in Nat,
           Ranked(t, lo, mid), Ranked(u, high, hi), lo <= mid, mid < high, high <= hi
    PROVE  Ranked(t \o u, lo, hi)
<1> DEFINE c == t \o u
<1>1. /\ c \in Seq(Message) /\ Len(t) \in Nat /\ Len(u) \in Nat /\ Len(c) = Len(t) + Len(u)
      /\ \A i \in 1..Len(t) : c[i] = t[i]
      /\ \A i \in 1..Len(u) : c[Len(t) + i] = u[i]
      /\ \A i \in 1..Len(c) : i \notin 1..Len(t) => i - Len(t) \in 1..Len(u)
  <2>1. t \in Seq(Message) /\ u \in Seq(Message) BY DEF Ranked
  <2> QED BY <2>1, ConcatFacts
<1> HIDE DEF c
<1>2. \A i \in 1..Len(c) : i \notin 1..Len(t) => c[i] = u[i - Len(t)]
  BY <1>1
<1>3. ASSUME NEW i \in 1..Len(c)
      PROVE  Rank(c[i][2]) \in lo..hi /\ AsWorkflow(c[i])
  <2>1. CASE i \in 1..Len(t)
    <3>1. Rank(c[i][2]) \in lo..mid /\ AsWorkflow(c[i]) BY <1>1, <2>1 DEF Ranked
    <3> QED BY <3>1
  <2>2. CASE i \notin 1..Len(t)
    <3>1. Rank(c[i][2]) \in high..hi /\ AsWorkflow(c[i]) BY <1>1, <1>2, <2>2 DEF Ranked
    <3> QED BY <3>1
  <2> QED BY <2>1, <2>2
<1>4. ASSUME NEW i \in 1..Len(c), NEW j \in 1..Len(c), i < j
      PROVE  Before(c[i], c[j])
  <2>1. CASE j \in 1..Len(t)
    <3>1. i \in 1..Len(t) BY <1>1, <1>4, <2>1
    <3>2. c[i] = t[i] /\ c[j] = t[j] BY <1>1, <2>1, <3>1
    <3> QED BY <1>4, <2>1, <3>1, <3>2 DEF Ranked, Sorted
  <2>2. CASE i \notin 1..Len(t)
    <3>1. j \notin 1..Len(t) BY <1>1, <1>4, <2>2
    <3>2. i - Len(t) \in 1..Len(u) /\ j - Len(t) \in 1..Len(u)
      BY <1>1, <2>2, <3>1
    <3>3. c[i] = u[i - Len(t)] /\ c[j] = u[j - Len(t)]
      BY <1>2, <2>2, <3>1
    <3>4. i - Len(t) < j - Len(t) BY <1>1, <1>4
    <3> QED BY <3>2, <3>3, <3>4 DEF Ranked, Sorted
  <2>3. CASE i \in 1..Len(t) /\ j \notin 1..Len(t)
    <3>1. Rank(c[i][2]) \in lo..mid BY <1>1, <2>3 DEF Ranked
    <3>2. Rank(c[j][2]) \in high..hi BY <1>1, <1>2, <2>3 DEF Ranked
    <3>3. Rank(c[i][2]) < Rank(c[j][2]) BY <3>1, <3>2
    <3> QED BY <3>3 DEF Before
  <2> QED BY <2>1, <2>2, <2>3
<1> QED BY <1>1, <1>3, <1>4 DEF Ranked, Sorted, c

LEMMA CreateRanked ==
    ASSUME NEW kind \in Ranks, NEW S \in SUBSET Nat, IsFiniteSet(S),
           kind = "Application" => \A n \in S : AsWorkflow(<<"create", kind, n>>)
    PROVE  Ranked(Create(kind, S), Rank(kind), Rank(kind))
<1> DEFINE c == Cardinality(S)
           f == Ascending(S)
           t == Create(kind, S)
<1>1. c \in Nat BY FS_CardinalityType
<1>2. /\ f \in [1..c -> S] /\ \A i, j \in 1..c : i < j => f[i] < f[j]
  BY AscendingFacts, Zenon DEF Enumerates
<1>3. t = [k \in 1..c |-> <<"create", kind, f[k]>>] BY DEF Create
<1> HIDE DEF c, f, t
<1>4. t \in [1..c -> Message] BY <1>2, <1>3 DEF Message
<1>5. t \in Seq(Message) /\ Len(t) = c BY <1>1, <1>4, SequenceOf, Zenon
<1>6. \A i \in 1..c : t[i][2] = kind /\ t[i][3] = f[i] /\ t[i] = <<"create", kind, f[i]>>
  BY <1>3
<1>7. Sorted(t) BY <1>2, <1>5, <1>6 DEF Sorted, Before
<1>8. \A i \in 1..c : AsWorkflow(t[i])
  <2>1. ASSUME NEW i \in 1..c PROVE AsWorkflow(t[i])
    <3>1. CASE kind = "Application" BY <1>2, <1>6, <3>1
    <3>2. CASE kind # "Application" BY <1>6, <3>2 DEF AsWorkflow
    <3> QED BY <3>1, <3>2
  <2> QED BY <2>1
<1>9. Rank(kind) \in Nat BY RankNumbers
<1> QED BY <1>5, <1>6, <1>7, <1>8, <1>9 DEF Ranked, t

\* An application of the output has a source that says what its event is.
LEMMA WorkflowOf ==
    ASSUME body \in Bodies, RowsOK(out), NEW k \in DOMAIN out.applications, NEW event,
           out.sources[1].superkey <=> event = "superkey"
    PROVE  AsWorkflow(<<event, "Application", k>>)
<1>1. PICK b, j : j \in DOMAIN out.sources /\ RowOf(out.applications[k], b, j)
  BY RowHasSource
<1>2. out.applications[k].source = j BY <1>1, RowFields
<1>3. /\ DOMAIN out.sources = DOMAIN body.sources
      /\ \A i \in DOMAIN out.sources : out.sources[i].superkey = body.sources[i].superkey
  BY SourceFields DEF RowsOK, Sourced
<1>4. 1 \in DOMAIN out.sources BY NewIds
<1>5. /\ \A s \in ToSet(body.sources) : s.superkey \in BOOLEAN
      /\ DOMAIN body.sources = 1..Len(body.sources)
  BY BulkAssemblyAssumption DEF BulkAssemblyAssumption, IsSequence
<1>6. /\ \A i \in DOMAIN out.sources : out.sources[i] \in ToSet(out.sources)
      /\ \A i \in DOMAIN out.sources : out.sources[i].superkey \in BOOLEAN
  BY <1>3, <1>5 DEF ToSet
<1>7. CASE out.sources[j].superkey = out.sources[1].superkey
  BY <1>1, <1>2, <1>4, <1>6, <1>7 DEF AsWorkflow
<1>8. CASE out.sources[j].superkey # out.sources[1].superkey
  BY <1>1, <1>4, <1>6, <1>8 DEF AsWorkflow
<1> QED BY <1>7, <1>8

LEMMA ApplicationsRanked ==
    ASSUME body \in Bodies, RowsOK(out)
    PROVE  Ranked(ApplicationMessages, 3, 3)
<1>1. DOMAIN out.applications = 1..Len(body.applications) /\ Len(body.applications) \in Nat
  BY BulkAssemblyAssumption DEF BulkAssemblyAssumption, IsSequence, RowsOK, Applied
<1>2. DOMAIN out.applications \in SUBSET Nat /\ IsFiniteSet(DOMAIN out.applications)
  BY <1>1, FS_Interval
<1>3. 1 \in DOMAIN out.sources BY NewIds
<1>4. CASE out.sources[1].superkey
  <2> DEFINE t == [k \in DOMAIN out.applications |-> <<"superkey", "Application", k>>]
             n == Len(body.applications)
  <2>1. ApplicationMessages = t BY <1>4 DEF ApplicationMessages
  <2>2. t \in [1..n -> Message] BY <1>1 DEF Message, Ranks
  <2>3. \A k \in 1..n : t[k] = <<"superkey", "Application", k>> BY <1>1
  <2>4. \A k \in 1..n : AsWorkflow(t[k]) BY <1>1, <1>4, <2>3, WorkflowOf
  <2> HIDE DEF t
  <2>5. t \in Seq(Message) /\ Len(t) = n BY <1>1, <2>2, SequenceOf, Zenon
  <2>6. Sorted(t) BY <1>1, <2>3, <2>5 DEF Sorted, Before
  <2> QED BY <1>1, <2>1, <2>3, <2>4, <2>5, <2>6, RankNumbers DEF Ranked
<1>5. CASE ~out.sources[1].superkey
  <2>1. ApplicationMessages = Create("Application", DOMAIN out.applications)
    BY <1>5 DEF ApplicationMessages
  <2>2. \A k \in DOMAIN out.applications : AsWorkflow(<<"create", "Application", k>>)
    BY <1>5, WorkflowOf
  <2>3. "Application" \in Ranks BY DEF Ranks
  <2> QED BY <1>2, <2>1, <2>2, <2>3, CreateRanked, RankNumbers
<1> QED BY <1>4, <1>5

LEMMA MessagesRanked ==
    ASSUME body \in Bodies, RowsOK(out), Linked(out), Associated(out)
    PROVE  Ranked(BulkMessages, 1, 5)
<1> DEFINE x == {y.auth : y \in out.assocs}
<1>1. /\ DOMAIN out.sources = 1..Len(body.sources) /\ Len(body.sources) \in Nat
      /\ DOMAIN out.endpoints = 1..Len(body.endpoints) /\ Len(body.endpoints) \in Nat
      /\ DOMAIN out.auths = 1..Len(body.auths) /\ Len(body.auths) \in Nat
  BY BulkAssemblyAssumption
  DEF BulkAssemblyAssumption, IsSequence, RowsOK, Sourced, Placed, Linked
<1>2. /\ DOMAIN out.sources \in SUBSET Nat /\ IsFiniteSet(DOMAIN out.sources)
      /\ DOMAIN out.endpoints \in SUBSET Nat /\ IsFiniteSet(DOMAIN out.endpoints)
      /\ DOMAIN out.auths \in SUBSET Nat /\ IsFiniteSet(DOMAIN out.auths)
  <2>1. \A n \in Nat : 1..n \in SUBSET Nat /\ IsFiniteSet(1..n) BY FS_Interval
  <2> QED BY <1>1, <2>1
<1>3. x \subseteq DOMAIN out.auths BY DEF Associated
<1>4. x \in SUBSET Nat /\ IsFiniteSet(x) BY <1>2, <1>3, FS_Subset
<1> HIDE DEF x
<1> DEFINE a == Create("Source", DOMAIN out.sources)
           b == Create("Endpoint", DOMAIN out.endpoints)
           c == ApplicationMessages
           d == Create("ApplicationAuthentication", x)
           e == Create("Authentication", DOMAIN out.auths)
<1>5. /\ "Source" \in Ranks /\ "Endpoint" \in Ranks /\ "ApplicationAuthentication" \in Ranks
      /\ "Authentication" \in Ranks
  BY DEF Ranks
<1>6. Ranked(a, 1, 1) BY <1>2, <1>5, CreateRanked, RankNumbers
<1>7. Ranked(b, 2, 2) BY <1>2, <1>5, CreateRanked, RankNumbers
<1>8. Ranked(c, 3, 3) BY ApplicationsRanked
<1>9. Ranked(d, 4, 4) BY <1>4, <1>5, CreateRanked, RankNumbers
<1>10. Ranked(e, 5, 5) BY <1>2, <1>5, CreateRanked, RankNumbers
<1>11. BulkMessages = (((a \o b) \o c) \o d) \o e BY DEF BulkMessages, x
<1> HIDE DEF a, b, c, d, e
<1>12. Ranked(a \o b, 1, 2) BY <1>6, <1>7, RankedConcat
<1>13. Ranked((a \o b) \o c, 1, 3) BY <1>8, <1>12, RankedConcat
<1>14. Ranked(((a \o b) \o c) \o d, 1, 4) BY <1>9, <1>13, RankedConcat
<1>15. Ranked((((a \o b) \o c) \o d) \o e, 1, 5) BY <1>10, <1>14, RankedConcat
<1> QED BY <1>11, <1>15

-----------------------------------------------------------------------------
(* Of the assembly: which authentications there are, from the first that is *)
(* created to the end of the request, while others delete resources.        *)
Made(n) == n \in made \/ out.auths[n].to \in deleted

MadeOK ==
    /\ body \in Bodies /\ existing \cup deleted = Existing /\ Output(out)
    /\ (step = "send" => saved) /\ (saved => step \in {"send", "stopped"})
    /\ step \in {"parse", "link", "create", "send", "failed", "stopped"}
    /\ step \in {"parse", "link"} => made = {} /\ next = 1
    /\ step = "create" =>
         /\ DOMAIN out.auths = 1..Len(body.auths) /\ next \in 1..(Len(body.auths) + 1)
         /\ \A n \in 1..(next - 1) : Made(n)
    /\ saved => \A n \in DOMAIN out.auths : Made(n)

(* The status that the commit gives an authentication is all that it        *)
(* changes of it.                                                          *)
LEMMA CommitKeepsAuths ==
    ASSUME Output(out), NEW o,
           o = [SetCorrespondingResourcesAsAvailable EXCEPT
                  !.assocs = ApplicationAuthentications]
    PROVE  /\ Output(o) /\ DOMAIN o.auths = DOMAIN out.auths
           /\ \A n \in DOMAIN out.auths : o.auths[n].to = out.auths[n].to
<1> DEFINE apps == AvailableApplications
           owners == {out.applications[k].source : k \in apps}
           now == ({"Application"} \X apps) \cup ({"Source"} \X owners)
           s == [i \in DOMAIN out.sources |-> [out.sources[i] EXCEPT !.available = i \in owners]]
           a == [k \in DOMAIN out.applications |->
                   [out.applications[k] EXCEPT !.available = k \in apps]]
           u == [n \in DOMAIN out.auths |->
                   [out.auths[n] EXCEPT !.available = out.auths[n].to \in now]]
           x == ApplicationAuthentications
<1>0. SetCorrespondingResourcesAsAvailable =
        [out EXCEPT !.sources = s, !.applications = a, !.auths = u]
  BY DEF SetCorrespondingResourcesAsAvailable
<1>1. o = [[out EXCEPT !.sources = s, !.applications = a, !.auths = u] EXCEPT !.assocs = x]
  BY <1>0
<1>2. /\ DOMAIN u = DOMAIN out.auths
      /\ \A n \in DOMAIN out.auths :
           u[n] = [out.auths[n] EXCEPT !.available = out.auths[n].to \in now]
  <2> HIDE DEF now
  <2> QED OBVIOUS
<1> HIDE DEF now, s, a, u, x
<1>3. o = [sources |-> s, applications |-> a, endpoints |-> out.endpoints,
           auths |-> u, assocs |-> x]
  BY <1>1 DEF Output
<1>4. DOMAIN o.auths = DOMAIN out.auths /\ \A n \in DOMAIN out.auths :
        o.auths[n] = [to |-> out.auths[n].to, owned |-> out.auths[n].owned,
                      available |-> out.auths[n].to \in now]
  <2>1. o.auths = u BY <1>3
  <2>2. \A n \in DOMAIN out.auths :
          u[n] = [to |-> out.auths[n].to, owned |-> out.auths[n].owned,
                  available |-> out.auths[n].to \in now]
    BY <1>2 DEF Output
  <2> QED BY <2>1, <2>2, <1>2
<1>5. o = [sources |-> o.sources, applications |-> o.applications,
            endpoints |-> o.endpoints, auths |-> o.auths, assocs |-> o.assocs]
  BY <1>3
<1>6. \A n \in DOMAIN out.auths :
        /\ o.auths[n].to = out.auths[n].to
        /\ o.auths[n] = [to |-> o.auths[n].to, owned |-> o.auths[n].owned,
                         available |-> o.auths[n].available]
  <2>1. ASSUME NEW n \in DOMAIN out.auths, NEW y, y = o.auths[n]
        PROVE  /\ y.to = out.auths[n].to
               /\ y = [to |-> y.to, owned |-> y.owned, available |-> y.available]
    <3>1. PICK v : y = [to |-> out.auths[n].to, owned |-> out.auths[n].owned, available |-> v]
      BY <1>4, <2>1, Zenon
    <3> QED BY <3>1
  <2> QED BY <2>1
<1>7. DOMAIN o.auths = DOMAIN out.auths BY <1>4
<1>8. Output(o) BY <1>5, <1>6, <1>7, Zenon DEF Output
<1> QED BY <1>6, <1>7, <1>8, Zenon

LEMMA InitMade == InitAssembly => MadeOK
<1> SUFFICES ASSUME InitAssembly PROVE MadeOK
  OBVIOUS
<1>1. out = [sources |-> <<>>, applications |-> <<>>, endpoints |-> <<>>, auths |-> <<>>,
             assocs |-> {}]
  BY DEF InitAssembly, Empty
<1>2. DOMAIN out.auths = {} BY <1>1
<1>3. Output(out) BY <1>1, <1>2 DEF Output
<1> QED BY <1>3 DEF InitAssembly, MadeOK

LEMMA StepMade ==
    ASSUME MadeOK, [NextAssembly]_(assemblyVars)
    PROVE  MadeOK'
<1> USE DEF MadeOK
<1>1. CASE AssembleRows
  <2>1. CASE Fails BY <1>1, <2>1 DEF AssembleRows, Fails, Made
  <2>2. ASSUME NEW s, NEW a, NEW e,
               out' = [out EXCEPT !.sources = s, !.applications = a, !.endpoints = e],
               step' = "link", UNCHANGED <<body, made, next, saved, existing, deleted>>
        PROVE  MadeOK'
    <3>1. out' = [sources |-> s, applications |-> a, endpoints |-> e,
                  auths |-> out.auths, assocs |-> out.assocs]
      BY <2>2 DEF Output
    <3>2. Output(out') /\ out'.auths = out.auths BY <3>1 DEF Output
    <3> QED BY <1>1, <2>2, <3>2 DEF AssembleRows, Made
  <2> QED BY <1>1, <2>1, <2>2 DEF AssembleRows
<1>2. CASE LinkUpAll
  <2>1. CASE Fails BY <1>2, <2>1 DEF LinkUpAll, Fails, Made
  <2>2. ASSUME NEW auths, auths = LinkUpAuthentications, out' = [out EXCEPT !.auths = auths],
               step' = "create", UNCHANGED <<body, made, next, saved, existing, deleted>>
        PROVE  MadeOK'
    <3>1. DOMAIN auths = 1..Len(body.auths) /\ Len(body.auths) \in Nat
      BY <2>2, BulkAssemblyAssumption DEF LinkUpAuthentications, BulkAssemblyAssumption, IsSequence
    <3>2. \A n \in DOMAIN auths :
            auths[n] = [to |-> auths[n].to, owned |-> auths[n].owned,
                        available |-> auths[n].available]
      <4>1. PICK t, w : auths = [k \in DOMAIN body.auths |->
                                   [to |-> t[k], owned |-> w[k], available |-> FALSE]]
        <5> DEFINE t == [k \in DOMAIN body.auths |-> LinkTo(body.auths[k])]
                   w == [k \in DOMAIN body.auths |-> OwnedAuthentication(body.auths[k])]
        <5>1. auths = [k \in DOMAIN body.auths |->
                         [to |-> t[k], owned |-> w[k], available |-> FALSE]]
          BY <2>2, Zenon DEF LinkUpAuthentications
        <5> HIDE DEF t, w
        <5> QED BY <5>1
      <4> QED BY <4>1
    <3>3. out' = [sources |-> out.sources, applications |-> out.applications,
                  endpoints |-> out.endpoints, auths |-> auths, assocs |-> out.assocs]
      BY <2>2 DEF Output
    <3>4. Output(out') /\ out'.auths = auths BY <3>2, <3>3 DEF Output
    <3> QED BY <1>2, <2>2, <3>1, <3>4 DEF LinkUpAll, Made
  <2>3. Fails \/ \E auths :
          /\ auths = LinkUpAuthentications /\ out' = [out EXCEPT !.auths = auths]
          /\ step' = "create" /\ UNCHANGED <<body, made, next, saved, existing, deleted>>
    BY <1>2 DEF LinkUpAll
  <2> QED BY <2>1, <2>2, <2>3
<1>3. CASE CreateAuthentication BY <1>3 DEF CreateAuthentication, Fails, Made
<1>4. CASE CommitAssembly
  <2>1. CASE Fails BY <1>4, <2>1 DEF CommitAssembly, Fails, Made
  <2>2. ASSUME NEW o, o = [SetCorrespondingResourcesAsAvailable EXCEPT
                             !.assocs = ApplicationAuthentications],
               out' = o, step' = "send", saved' = TRUE,
               UNCHANGED <<body, made, existing, deleted>>
        PROVE  MadeOK'
    <3>1. /\ Output(o) /\ DOMAIN o.auths = DOMAIN out.auths
          /\ \A n \in DOMAIN out.auths : o.auths[n].to = out.auths[n].to
      BY <2>2, CommitKeepsAuths
    <3>2. Len(body.auths) \in Nat
      BY BulkAssemblyAssumption DEF BulkAssemblyAssumption, IsSequence
    <3>3. \A n \in DOMAIN out.auths : Made(n)
      BY <1>4, <3>2 DEF CommitAssembly
    <3>4. \A n \in DOMAIN o.auths : Made(n)'
      BY <2>2, <3>1, <3>3 DEF Made
    <3> QED BY <2>2, <3>1, <3>4
  <2>3. Fails \/ \E o :
          /\ o = [SetCorrespondingResourcesAsAvailable EXCEPT
                    !.assocs = ApplicationAuthentications]
          /\ out' = o /\ step' = "send" /\ saved' = TRUE
          /\ UNCHANGED <<body, made, existing, deleted>>
    BY <1>4 DEF CommitAssembly
  <2> QED BY <2>1, <2>2, <2>3
<1>5. CASE SendBulkMessage BY <1>5 DEF SendBulkMessage, Made
<1>6. CASE StopAssembly BY <1>6 DEF StopAssembly, Made
<1>7. ASSUME NEW x \in Existing, DeleteExisting(x) PROVE MadeOK'
  BY <1>7 DEF DeleteExisting, Made
<1>8. CASE UNCHANGED assemblyVars BY <1>8 DEF assemblyVars, Made
<1> QED BY <1>1, <1>2, <1>3, <1>4, <1>5, <1>6, <1>7, <1>8 DEF NextAssembly

(* A committed bulk request has all of its authentications, and each has    *)
(* its resource, but for what other requests deleted meanwhile and what a  *)
(* request that failed or was stopped leaves behind (BulkAssembly).         *)
THEOREM AuthenticationsSafe == SpecAssembly => []AuthenticationsHaveResources
<1>1. InitAssembly => MadeOK BY InitMade
<1>2. MadeOK /\ [NextAssembly]_(assemblyVars) => MadeOK' BY StepMade
<1>3. MadeOK => AuthenticationsHaveResources
  BY DEF MadeOK, Made, AuthenticationsHaveResources
<1> QED BY <1>1, <1>2, <1>3, PTL DEF SpecAssembly

-----------------------------------------------------------------------------
(* Of the assembly, the whole invariant: from each step on the output has   *)
(* what that step gives it; what was sent is in order, and comes before all *)
(* that is still to be sent.                                                *)
ToldOK ==
    /\ told # <<>> => saved
    /\ told \in Seq(Message) /\ Sorted(told)
    /\ \A i \in 1..Len(told) : AsWorkflow(told[i])
    /\ step = "send" =>
         /\ next \in Nat
         /\ \A i \in 1..Len(told), j \in 1..Len(BulkMessages) :
              j >= next => Before(told[i], BulkMessages[j])

RequestOK ==
    /\ step \in {"link", "create"} \/ saved => RowsOK(out)
    /\ step = "create" \/ saved => Linked(out)
    /\ saved => Available(out) /\ Associated(out)

AssemblyOK == MadeOK /\ RequestOK /\ ToldOK

\* What is said of an output depends on the body that was sent.
LEMMA SameBody ==
    ASSUME body' = body
    PROVE  /\ RowsOK(out)' <=> RowsOK(out')
           /\ Linked(out)' <=> Linked(out')
           /\ Available(out)' <=> Available(out')
           /\ Associated(out)' <=> Associated(out')
<1>1. /\ \A n : OwnershipPresentForSource(n)' <=> OwnershipPresentForSource(n)
      /\ \A n : OwnershipPresentForApplication(n)' <=> OwnershipPresentForApplication(n)
  BY DEF OwnershipPresentForSource, OwnershipPresentForApplication, OwnedApplications
<1>2. \A n : SourcesNamed(n)' = SourcesNamed(n)
  BY DEF SourcesNamed
<1>3. Distinct' <=> Distinct
  BY <1>2 DEF Distinct
<1>4. \A x, a, i : RowOf(x, a, i)' <=> RowOf(x, a, i)
  BY <1>1 DEF RowOf, OwnershipPresentForSourceAndApplication
<1>5. \A x, i : SourceRow(x, i)' <=> SourceRow(x, i)
  BY DEF SourceRow, OwnershipPresentForSource, OwnedApplications
<1>6. Sourced(out)' <=> Sourced(out')
  BY <1>5 DEF Sourced
<1>7. Applied(out)' <=> Applied(out')
  BY <1>2, <1>3, <1>4 DEF Applied
<1>8. Placed(out)' <=> Placed(out')
  BY <1>2 DEF Placed
<1>9. \A a : NewOwned(a)' <=> NewOwned(a)
  BY <1>1 DEF NewOwned
<1>10. Linked(out)' <=> Linked(out')
  BY <1>9 DEF Linked, ExistingLink, NewLink, SourceLink, ApplicationLink, EndpointLink
<1>11. Available(out)' <=> Available(out')
  BY DEF Available
<1>12. Associated(out)' <=> Associated(out')
  BY <1>1 DEF Associated
<1> QED BY <1>6, <1>7, <1>8, <1>10, <1>11, <1>12 DEF RowsOK

LEMMA FieldsOf ==
    ASSUME NEW o, Output(o)
    PROVE  DOMAIN o = Fields
BY DEF Output, Fields

(* A message says the same as long as the output and the body do.           *)
LEMMA SameMessages ==
    ASSUME out' = out
    PROVE  /\ BulkMessages' = BulkMessages
           /\ \A m : AsWorkflow(m)' <=> AsWorkflow(m)
<1>1. BulkMessages' = BulkMessages BY DEF BulkMessages, ApplicationMessages, Create
<1>2. \A m : AsWorkflow(m)' <=> AsWorkflow(m) BY DEF AsWorkflow
<1> QED BY <1>1, <1>2

\* A request that sends nothing has sent in order what it has sent.
LEMMA QuietKeepsTold ==
    ASSUME ToldOK, told' = told, saved' = saved, out' = out, step' = "send" => step = "send",
           next' = next
    PROVE  ToldOK'
<1>1. /\ BulkMessages' = BulkMessages
      /\ \A m : AsWorkflow(m)' <=> AsWorkflow(m)
  BY SameMessages
<1>2. Sorted(told)' <=> Sorted(told) BY DEF Sorted, Before, Rank
<1>3. told' # <<>> => saved' BY DEF ToldOK
<1>4. told' \in Seq(Message) /\ Sorted(told)' /\ \A i \in 1..Len(told') : AsWorkflow(told[i])'
  BY <1>1, <1>2 DEF ToldOK
<1>5. ASSUME step' = "send"
      PROVE  /\ next' \in Nat
             /\ \A i \in 1..Len(told'), j \in 1..Len(BulkMessages') :
                  j >= next' => Before(told'[i], BulkMessages'[j])
  <2>1. step = "send" BY <1>5
  <2> QED BY <1>1, <2>1 DEF ToldOK
<1> QED BY <1>3, <1>4, <1>5 DEF ToldOK

LEMMA UnsavedKeepsTold ==
    ASSUME ToldOK, ~saved, told' = told, step' = "send" => next' = 1
    PROVE  ToldOK' /\ told = <<>>
<1>1. told = <<>> BY DEF ToldOK
<1>2. told' = <<>> /\ Len(<<>>) = 0 BY <1>1
<1> QED BY <1>1, <1>2 DEF ToldOK, Sorted

LEMMA SendKeepsTold ==
    ASSUME AssemblyOK, SendBulkMessage
    PROVE  ToldOK'
<1> DEFINE B == BulkMessages
           m == B[next]
<1>1. /\ B \in Seq(Message) /\ Sorted(B) /\ \A i \in 1..Len(B) : AsWorkflow(B[i])
      /\ saved /\ step = "send" /\ next \in Nat
  <2>1. saved /\ step = "send" /\ body \in Bodies BY DEF AssemblyOK, MadeOK, SendBulkMessage
  <2>2. Ranked(B, 1, 5) BY <2>1, MessagesRanked DEF AssemblyOK, RequestOK
  <2> QED BY <2>1, <2>2 DEF Ranked, AssemblyOK, ToldOK
<1>2. /\ out' = out /\ saved' = saved /\ step' = step /\ next' = next + 1
      /\ told' \in {told, Append(told, m)} /\ next \in DOMAIN B
  BY DEF SendBulkMessage
<1>3. /\ B' = B /\ \A n : AsWorkflow(n)' <=> AsWorkflow(n)
  BY <1>2, SameMessages
<1> HIDE DEF B
<1>4. /\ told \in Seq(Message) /\ Sorted(told) /\ \A i \in 1..Len(told) : AsWorkflow(told[i])
      /\ \A i \in 1..Len(told), j \in 1..Len(B) : j >= next => Before(told[i], B[j])
  BY <1>1 DEF AssemblyOK, ToldOK, B
<1>5. Len(B) \in Nat /\ next \in 1..Len(B) /\ m \in Message /\ AsWorkflow(m)
  BY <1>1, <1>2
<1>6. \A j \in 1..Len(B) : j >= next + 1 => Before(m, B[j])
  BY <1>1, <1>5 DEF Sorted
<1> HIDE DEF m
<1>7. CASE told' = told
  <2>1. \A i \in 1..Len(told), j \in 1..Len(B) : j >= next + 1 => Before(told[i], B[j])
    BY <1>1, <1>4
  <2>2. Sorted(told)' <=> Sorted(told) BY <1>7 DEF Sorted, Before, Rank
  <2>3. next + 1 \in Nat BY <1>1
  <2> QED BY <1>1, <1>2, <1>3, <1>4, <1>7, <2>1, <2>2, <2>3 DEF ToldOK, B
<1>8. CASE told' = Append(told, m)
  <2> DEFINE t == Append(told, m)
             n == Len(told)
  <2>1. /\ n \in Nat /\ t \in Seq(Message) /\ Len(t) = n + 1
        /\ \A i \in 1..n : t[i] = told[i]
        /\ t[n + 1] = m
    BY <1>4, <1>5
  <2> HIDE DEF t, n
  <2>2. \A i \in 1..(n + 1) : i \in 1..n \/ i = n + 1 BY <2>1
  <2>3. \A i \in 1..Len(t) : AsWorkflow(t[i])
    BY <1>4, <1>5, <2>1, <2>2 DEF n
  <2>4. Sorted(t)
    <3> SUFFICES ASSUME NEW i \in 1..(n + 1), NEW j \in 1..(n + 1), i < j
                 PROVE  Before(t[i], t[j])
      BY <2>1 DEF Sorted
    <3>1. i \in 1..n BY <2>1
    <3>2. CASE j \in 1..n BY <1>4, <2>1, <3>1, <3>2 DEF Sorted, n
    <3>3. CASE j = n + 1
      <4>1. t[i] = told[i] /\ t[j] = m BY <2>1, <3>1, <3>3
      <4>2. next >= next BY <1>1
      <4> QED BY <1>4, <1>5, <3>1, <4>1, <4>2 DEF n, m
    <3> QED BY <2>2, <3>2, <3>3
  <2>5. \A i \in 1..Len(t), j \in 1..Len(B) : j >= next + 1 => Before(t[i], B[j])
    <3> SUFFICES ASSUME NEW i \in 1..(n + 1), NEW j \in 1..Len(B), j >= next + 1
                 PROVE  Before(t[i], B[j])
      BY <2>1
    <3>1. CASE i \in 1..n
      <4>1. j >= next BY <1>1, <1>5
      <4> QED BY <1>4, <2>1, <3>1, <4>1 DEF n
    <3>2. CASE i = n + 1 BY <1>6, <2>1, <3>2
    <3> QED BY <2>2, <3>1, <3>2
  <2>6. told' = t BY <1>8 DEF t
  <2>7. \A x, y : Before(x, y)' <=> Before(x, y) BY DEF Before, Rank
  <2>8. Sorted(told)' <=> Sorted(t) BY <2>6, <2>7 DEF Sorted
  <2>9. next + 1 \in Nat BY <1>1
  <2> QED BY <1>1, <1>2, <1>3, <2>1, <2>3, <2>4, <2>5, <2>6, <2>7, <2>8, <2>9 DEF ToldOK, B
<1> QED BY <1>2, <1>7, <1>8

LEMMA InitAssembled == InitAssembly => AssemblyOK
<1> SUFFICES ASSUME InitAssembly PROVE AssemblyOK
  OBVIOUS
<1>1. step = "parse" /\ saved = FALSE /\ told = <<>> BY DEF InitAssembly
<1>2. told \in Seq(Message) /\ Len(told) = 0 BY <1>1
<1>3. ToldOK BY <1>1, <1>2 DEF ToldOK, Sorted
<1> QED BY <1>1, <1>3, InitMade DEF AssemblyOK, RequestOK

\* Where the body and the output are what they were, so is what they satisfy.
LEMMA QuietKeepsRequest ==
    ASSUME RequestOK, UNCHANGED <<body, out, saved>>,
           step' \in {"link", "create"} => step' = step
    PROVE  RequestOK'
<1>1. /\ RowsOK(out)' <=> RowsOK(out)
      /\ Linked(out)' <=> Linked(out)
      /\ Available(out)' <=> Available(out)
      /\ Associated(out)' <=> Associated(out)
  BY SameBody
<1> QED BY <1>1 DEF RequestOK

LEMMA RowsKeepRequest ==
    ASSUME MadeOK, step = "parse", Accepted, step' = "link", UNCHANGED <<body, saved>>,
           out' = [out EXCEPT !.sources = ParseSources, !.applications = ParseApplications,
                              !.endpoints = ParseEndpoints]
    PROVE  RequestOK'
<1>1. DOMAIN out = Fields /\ body \in Bodies /\ ~saved /\ saved' = saved
  BY FieldsOf DEF MadeOK
<1> DEFINE s == ParseSources
           a == ParseApplications
           e == ParseEndpoints
<1>2. out' = [out EXCEPT !.sources = s, !.applications = a, !.endpoints = e]
  OBVIOUS
<1>3. out'.sources = s /\ out'.applications = a /\ out'.endpoints = e
  <2> HIDE DEF s, a, e
  <2> QED BY <1>1, <1>2 DEF Fields
<1>4. \A o : o.sources = ParseSources /\ o.applications = ParseApplications
             /\ o.endpoints = ParseEndpoints => RowsOK(o)
  BY <1>1, ParsedRows
<1>5. RowsOK(out') BY <1>3, <1>4, Zenon
<1>6. RowsOK(out)' BY <1>5, SameBody
<1> QED BY <1>1, <1>6 DEF RequestOK

LEMMA LinksKeepRequest ==
    ASSUME MadeOK, RequestOK, step = "link", step' = "create", UNCHANGED <<body, saved>>,
           \A a \in ToSet(body.auths) : LinkTo(a)[2] # 0,
           out' = [out EXCEPT !.auths = LinkUpAuthentications]
    PROVE  RequestOK'
<1>1. DOMAIN out = Fields /\ body \in Bodies /\ ~saved /\ existing \subseteq Existing
  BY FieldsOf DEF MadeOK
<1>2. ASSUME NEW o, NEW a, o = [out EXCEPT !.auths = a]
      PROVE  /\ o.auths = a /\ o.sources = out.sources /\ o.applications = out.applications
             /\ o.endpoints = out.endpoints
  BY <1>1, <1>2 DEF Fields
<1>3. /\ out'.auths = LinkUpAuthentications /\ out'.sources = out.sources
      /\ out'.applications = out.applications /\ out'.endpoints = out.endpoints
  BY <1>2
<1>4. RowsOK(out) BY DEF RequestOK
<1>5. \A o : o.auths = LinkUpAuthentications /\ o.sources = out.sources
             /\ o.applications = out.applications /\ o.endpoints = out.endpoints
             => RowsOK(o) /\ Linked(o)
  BY <1>1, <1>4, LinkedUp
<1>6. RowsOK(out') /\ Linked(out') BY <1>3, <1>5, Zenon
<1>7. RowsOK(out)' /\ Linked(out)' BY <1>6, SameBody
<1> QED BY <1>1, <1>7 DEF RequestOK

LEMMA CommitKeepsRequest ==
    ASSUME MadeOK, RequestOK, step = "create", UNCHANGED body,
           out' = [SetCorrespondingResourcesAsAvailable EXCEPT
                     !.assocs = ApplicationAuthentications]
    PROVE  RequestOK'
<1>1. DOMAIN out = Fields /\ body \in Bodies /\ Output(out)
  BY FieldsOf DEF MadeOK
<1>2. RowsOK(out) /\ Linked(out) BY DEF RequestOK
<1>3. Completed(out') BY <1>1, CommitCompletes
<1>4. \A o : Completed(o) => RowsOK(o) /\ Linked(o) /\ Available(o) /\ Associated(o)
  BY <1>1, <1>2, CommitLinks, CommitAvailable, CommitAssociates
<1>5. RowsOK(out') /\ Linked(out') /\ Available(out') /\ Associated(out')
  BY <1>3, <1>4, Zenon
<1> QED BY <1>5, SameBody DEF RequestOK

LEMMA StepAssembled ==
    ASSUME AssemblyOK, [NextAssembly]_(assemblyVars)
    PROVE  AssemblyOK'
<1>1. MadeOK /\ RequestOK /\ ToldOK /\ MadeOK' BY StepMade DEF AssemblyOK
<1>2. /\ saved => step \in {"send", "stopped"}
      /\ step \in {"parse", "link", "create"} => ~saved
  BY <1>1 DEF MadeOK
<1>3. CASE Fails /\ step \in {"parse", "link", "create"}
  <2>1. RequestOK' BY <1>1, <1>3, QuietKeepsRequest DEF Fails
  <2>2. ToldOK' BY <1>1, <1>2, <1>3, UnsavedKeepsTold DEF Fails
  <2> QED BY <1>1, <2>1, <2>2 DEF AssemblyOK
<1>4. CASE AssembleRows /\ ~Fails
  <2>1. RequestOK' BY <1>1, <1>4, RowsKeepRequest DEF AssembleRows
  <2>2. ToldOK' BY <1>1, <1>2, <1>4, UnsavedKeepsTold DEF AssembleRows
  <2> QED BY <1>1, <2>1, <2>2 DEF AssemblyOK
<1>5. CASE LinkUpAll /\ ~Fails
  <2>1. RequestOK' BY <1>1, <1>5, LinksKeepRequest DEF LinkUpAll
  <2>2. ToldOK' BY <1>1, <1>2, <1>5, UnsavedKeepsTold DEF LinkUpAll
  <2> QED BY <1>1, <2>1, <2>2 DEF AssemblyOK
<1>6. CASE CreateAuthentication /\ ~Fails
  <2>1. RequestOK' BY <1>1, <1>6, QuietKeepsRequest DEF CreateAuthentication
  <2>2. ToldOK' BY <1>1, <1>2, <1>6, UnsavedKeepsTold DEF CreateAuthentication
  <2> QED BY <1>1, <2>1, <2>2 DEF AssemblyOK
<1>7. CASE CommitAssembly /\ ~Fails
  <2>1. RequestOK' BY <1>1, <1>7, CommitKeepsRequest DEF CommitAssembly
  <2>2. ToldOK' BY <1>1, <1>2, <1>7, UnsavedKeepsTold DEF CommitAssembly
  <2> QED BY <1>1, <2>1, <2>2 DEF AssemblyOK
<1>8. CASE SendBulkMessage
  <2>1. RequestOK' BY <1>1, <1>8, QuietKeepsRequest DEF SendBulkMessage
  <2> QED BY <1>1, <1>8, <2>1, SendKeepsTold DEF AssemblyOK
<1>9. CASE StopAssembly
  <2>1. RequestOK' BY <1>1, <1>9, QuietKeepsRequest DEF StopAssembly
  <2>2. ToldOK' BY <1>1, <1>9, QuietKeepsTold DEF StopAssembly
  <2> QED BY <1>1, <2>1, <2>2 DEF AssemblyOK
<1>10. ASSUME NEW x \in Existing, DeleteExisting(x) PROVE AssemblyOK'
  <2>1. RequestOK' BY <1>1, <1>10, QuietKeepsRequest DEF DeleteExisting
  <2>2. ToldOK' BY <1>1, <1>10, QuietKeepsTold DEF DeleteExisting
  <2> QED BY <1>1, <2>1, <2>2 DEF AssemblyOK
<1>11. CASE UNCHANGED assemblyVars
  <2>1. RequestOK' BY <1>1, <1>11, QuietKeepsRequest DEF assemblyVars
  <2>2. ToldOK' BY <1>1, <1>11, QuietKeepsTold DEF assemblyVars
  <2> QED BY <1>1, <2>1, <2>2 DEF AssemblyOK
<1>12. Fails /\ (AssembleRows \/ LinkUpAll \/ CreateAuthentication \/ CommitAssembly) =>
         step \in {"parse", "link", "create"}
  BY DEF AssembleRows, LinkUpAll, CreateAuthentication, CommitAssembly
<1> QED BY <1>3, <1>4, <1>5, <1>6, <1>7, <1>8, <1>9, <1>10, <1>11, <1>12 DEF NextAssembly

LEMMA AssemblyGives == AssemblyOK => AssemblyInv
<1> SUFFICES ASSUME AssemblyOK PROVE AssemblyInv
  OBVIOUS
<1>1. body \in Bodies /\ MadeOK /\ ToldOK BY DEF AssemblyOK, MadeOK
<1>2. saved => RowsOK(out) /\ Linked(out) /\ Available(out) /\ Associated(out)
  BY DEF AssemblyOK, RequestOK
<1>3. LinkedAsAsked BY <1>1, <1>2, GivesLinked DEF LinkedAsAsked
<1>4. AuthenticationsHaveResources
  BY <1>1 DEF MadeOK, Made, AuthenticationsHaveResources
<1>5. OwnedTogether BY <1>1, <1>2, GivesOwned DEF OwnedTogether
<1>6. AvailableTogether BY <1>2 DEF Available, AvailableTogether
<1>7. AnnouncedInOrder
  <2>1. DOMAIN told = 1..Len(told) BY <1>1 DEF ToldOK
  <2> QED BY <1>1, <2>1 DEF ToldOK, Sorted, AsWorkflow, AnnouncedInOrder
<1> QED BY <1>3, <1>4, <1>5, <1>6, <1>7 DEF AssemblyInv

(* A bulk request that was committed is linked as it asked, has all of its  *)
(* authentications, gives all of it to the right owner and one status, and  *)
(* announces it once and in order: for every body, whatever fails, stops or *)
(* is deleted meanwhile (BulkAssembly, SendBulkMessages).                   *)
THEOREM AssemblySafe == SpecAssembly => []AssemblyInv
<1>1. InitAssembly => AssemblyOK BY InitAssembled
<1>2. AssemblyOK /\ [NextAssembly]_(assemblyVars) => AssemblyOK' BY StepAssembled
<1>3. AssemblyOK => AssemblyInv BY AssemblyGives
<1> QED BY <1>1, <1>2, <1>3, PTL DEF SpecAssembly
=============================================================================
