----------------------------- MODULE BulkCreate -----------------------------
(***************************************************************************)
(* POST /bulk_create next to the requests of Credentials. BulkAssembly     *)
(* opens a transaction and saves sources, applications and endpoints in    *)
(* it; but what it looks up, and the credentials it creates, go through    *)
(* the global connection pool. So a bulk request holds one connection and  *)
(* asks for a second, and its credentials are not rolled back with it.     *)
(***************************************************************************)
EXTENDS Credentials

CONSTANTS
    Bulks,    \* the clients that POST to /bulk_create
    AuthsOf,  \* the credentials each of them asks for
    Single,   \* what the other clients may be about
    Conns     \* the size of the pool, 20 in the code

ASSUME BulkAssumption ==
    /\ Bulks \subseteq Clients
    /\ AuthsOf \in [Bulks -> SUBSET (Auths \ (Secrets \cup Stored))]
    /\ \A b, c \in Bulks : b # c => AuthsOf[b] \cap AuthsOf[c] = {}
    /\ Single \subseteq Auths
    /\ Conns \in Nat

VARIABLES
    left,      \* the credentials a bulk request still has to create
    committed  \* the bulk requests whose transaction was committed

bulkVars == <<left, committed>>

InBulk == UNION {AuthsOf[b] : b \in Bulks}

InTx == {"parse", "save", "link", "auths", "bulk insert", "bulk undo", "rollback"}

\* Faulty variant: what a transaction looks up keeps its connection, too.
FreeOfTwo == Conns > 2 * Cardinality({b \in Bulks : pc[b] \in InTx})

\* A transaction keeps its connection; any other statement needs a free one.
Free == Conns > Cardinality({b \in Bulks : pc[b] \in InTx})

-----------------------------------------------------------------------------
Init ==
    /\ InitCredentials
    /\ left = AuthsOf
    /\ committed = {}

BeginTransaction(b) ==
    /\ Idle(b)
    /\ Free
    /\ Go(b, "parse")
    /\ UNCHANGED <<table, store, history, bulkVars>>

(* userResourceFromBulkCreateApplications and parseSources: types and names *)
(* are looked up through the pool, and may be refused.                     *)
Parse(b) ==
    /\ pc[b] = "parse"
    /\ Free
    /\ Go(b, "save") \/ Go(b, "rollback")
    /\ UNCHANGED <<table, store, history, bulkVars>>

\* The sources, applications and endpoints, in the transaction.
Save(b) ==
    /\ pc[b] = "save"
    /\ Go(b, "link") \/ Go(b, "rollback")
    /\ UNCHANGED <<table, store, history, bulkVars>>

\* linkUpAuthentications, and the lookups of applications and endpoints.
LinkUp(b) ==
    /\ pc[b] = "link"
    /\ Free
    /\ \/ Go(b, "auths") /\ used' = used \cup AuthsOf[b]
       \/ Go(b, "rollback") /\ used' = used
    /\ UNCHANGED <<rows, arn, store, history, bulkVars>>

-----------------------------------------------------------------------------
\* CreateSecret of the next credential, or a failure that ends it all.
CreateBulkSecret(b, a) ==
    /\ pc[b] = "auths"
    /\ a \in left[b]
    /\ \/ /\ pc' = [pc EXCEPT ![b] = "bulk insert"]
          /\ op' = [op EXCEPT ![b] = [kind |-> "bulk", id |-> a, pw |-> Given[a]]]
          /\ store' = [store EXCEPT ![a] = Given[a]]
       \/ MayFail /\ Given[a] # Nil /\ Go(b, "rollback") /\ store' = store
    /\ UNCHANGED <<table, history, bulkVars>>

\* Faulty variant: a credential that fails does not end the request.
InsertBulkRowOrNot(b) ==
    /\ pc[b] = "bulk insert"
    /\ Free
    /\ left' = [left EXCEPT ![b] = @ \ {op[b].id}]
    /\ Go(b, "auths")
    /\ \/ Inserted(op[b].id, op[b].pw)
       \/ MayFail /\ UNCHANGED <<rows, arn, wanted>>
    /\ UNCHANGED <<used, store, shared, clean, committed>>

\* The row goes through the pool: it is there before the transaction ends.
InsertBulkRow(b) ==
    /\ pc[b] = "bulk insert"
    /\ Free
    /\ \/ /\ Inserted(op[b].id, op[b].pw)
          /\ left' = [left EXCEPT ![b] = @ \ {op[b].id}]
          /\ Go(b, "auths")
       \/ MayFail /\ Go(b, "bulk undo") /\ UNCHANGED <<rows, arn, wanted, left>>
    /\ UNCHANGED <<used, store, shared, clean, committed>>

\* The secret of the row that failed is deleted. Those before it stay.
UndoBulk(b) ==
    /\ pc[b] = "bulk undo"
    /\ \/ store' = [store EXCEPT ![op[b].id] = Nil] /\ clean' = clean
       \/ op[b].pw # Nil /\ store' = store /\ clean' = FALSE
    /\ Go(b, "rollback")
    /\ UNCHANGED <<table, wanted, shared, bulkVars>>

-----------------------------------------------------------------------------
\* The application authentications, the availability overrides and COMMIT.
Commit(b) ==
    /\ pc[b] = "auths"
    /\ left[b] = {}
    /\ \/ committed' = committed \cup {b} /\ Reply(b)
       \/ MayFail /\ committed' = committed /\ Go(b, "rollback")
    /\ UNCHANGED <<table, store, history, left>>

Rollback(b) ==
    /\ pc[b] = "rollback"
    /\ Reply(b)
    /\ UNCHANGED <<table, store, history, bulkVars>>

BulkStep(b) ==
    \/ Parse(b) \/ Save(b) \/ LinkUp(b) \/ InsertBulkRow(b) \/ UndoBulk(b)
    \/ Commit(b) \/ Rollback(b)
    \/ \E a \in AuthsOf[b] : CreateBulkSecret(b, a)

(* One request after the other, on one of the credentials. The row that a   *)
(* bulk request creates is no other request's to create.                   *)
Request(r) ==
    \E kind \in {"create", "edit", "delete"}, a \in Single, pw \in Passwords \cup {Nil} :
        /\ kind = "create" => pw = Given[a] /\ a \notin InBulk
        /\ kind = "delete" => pw = Nil
        /\ Begin(r, kind, a, pw)

SingleStep(r) ==
    /\ (Free /\ DatabaseStep(r)) \/ StoreStep(r)
    /\ UNCHANGED bulkVars

Next ==
    \/ \E b \in Bulks : BeginTransaction(b) \/ BulkStep(b)
    \/ \E r \in Clients \ Bulks : (Request(r) /\ UNCHANGED bulkVars) \/ SingleStep(r)
    \/ \E r \in Clients : Fail(r) /\ UNCHANGED bulkVars
    \/ Active = {} /\ UNCHANGED <<vars, bulkVars>>

Spec == Init /\ [][Next]_<<vars, bulkVars>>

(* Every request runs in a goroutine of its own; the pool is a queue.      *)
Fairness ==
    /\ \A b \in Bulks : WF_<<vars, bulkVars>>(BulkStep(b))
    /\ \A r \in Clients \ Bulks : WF_<<vars, bulkVars>>(SingleStep(r))

-----------------------------------------------------------------------------
(* Everything has its type, nothing is written that no request asked for,  *)
(* and only credentials created with a password ever have an ARN.          *)
TypeOK ==
    /\ rows \subseteq used /\ used \subseteq Auths
    /\ arn \subseteq {a \in used : Given[a] # Nil}
    /\ store \in [Auths -> Passwords \cup {Nil}]
    /\ wanted \in [Auths -> Passwords \cup {Nil}]
    /\ \A r \in Clients : op[r].id \in used \cup {Nil}
    /\ left \in [Bulks -> SUBSET Auths]
    /\ committed \subseteq Bulks /\ clean \in BOOLEAN

(* What a request is about, at each of its statements.                      *)
Singles == Clients \ Bulks

Places ==
    {"idle", "done", "secret", "insert", "undo", "load", "get", "pluck", "update", "write",
     "row", "remove"} \cup InTx

Ops == [kind : {"none", "create", "edit", "delete", "bulk"},
        id : Auths \cup {Nil}, pw : Passwords \cup {Nil}]

Creating(r)  == pc[r] \in {"secret", "insert", "undo"}
Editing(r)   == pc[r] \in {"get", "pluck", "update", "write"}
Deleting(r)  == pc[r] \in {"row", "remove"}
Inserting(b) == pc[b] \in {"bulk insert", "bulk undo"}

SingleOK(r) ==
    IF pc[r] \in {"idle", "done"} THEN op[r] = None
    ELSE /\ Creating(r) \/ Editing(r) \/ Deleting(r) \/ pc[r] = "load"
         /\ op[r].id \in Single
         /\ op[r].kind \in {"create", "edit", "delete"}
         /\ op[r].kind = "create" <=> Creating(r)
         /\ Creating(r) => op[r].pw = Given[op[r].id] /\ op[r].id \notin InBulk
         /\ Editing(r) => op[r].kind = "edit"
         /\ pc[r] \in {"pluck", "update"} => op[r].pw # Nil

BulkOK(b) ==
    /\ pc[b] \in InTx \cup {"idle", "done"}
    /\ left[b] \subseteq AuthsOf[b]
    /\ pc[b] = "auths" \/ Inserting(b) => AuthsOf[b] \subseteq used
    /\ op[b] = None \/ op[b].id \in AuthsOf[b]
    /\ Inserting(b) => op[b].id \in left[b] /\ op[b].pw = Given[op[b].id]
    /\ AuthsOf[b] \ (left[b] \cup Single) \subseteq rows
    /\ b \in committed => left[b] = {}

RequestsOK ==
    /\ pc \in [Clients -> Places] /\ op \in [Clients -> Ops]
    /\ \A r \in Singles : SingleOK(r)
    /\ \A b \in Bulks : BulkOK(b)

(* A credential that is yet to be created is in no table, so that a request *)
(* about it gets no further than to look for its row; and one request       *)
(* creates it.                                                              *)
Unborn(a) ==
    \/ \E r \in Singles : Creating(r) /\ op[r].id = a
    \/ \E b \in Bulks : a \in left[b]

UnbornOK ==
    /\ \A a \in Auths : Unborn(a) =>
         /\ a \notin rows \cup arn
         /\ \A r \in Singles : op[r].id = a => ~Editing(r) /\ ~Deleting(r)
    /\ \A q, r \in Singles :
         Creating(q) /\ Creating(r) /\ op[q].id = op[r].id => q = r

(* What a request finds in the store when it comes to insert or to delete a *)
(* row, and what the store has for the rows, failures included.             *)
FoundOK(r) ==
    /\ pc[r] \in {"insert", "bulk insert"} => store[op[r].id] = op[r].pw
    /\ pc[r] = "remove" => op[r].id \in Secrets \/ op[r].id \notin rows
    /\ pc[r] = "row" /\ op[r].id \in Secrets => store[op[r].id] = Nil
    /\ Editing(r) \/ Deleting(r) => op[r].id \in arn \/ store[op[r].id] = Nil

RowOK(a) == (a \in arn \ Secrets => store[a] # Nil) /\ (a \notin arn => store[a] = Nil)

StoreOK == (\A r \in Clients : FoundOK(r)) /\ (\A a \in rows : RowOK(a))

(* While nothing has failed, a request is at work on what does not match.   *)
Undeleted(a) == \E r \in Singles : pc[r] = "row" /\ op[r].id = a

Leftover(a) ==
    \E r \in Clients :
        /\ op[r].id = a
        /\ \/ pc[r] \in {"insert", "undo", "bulk insert", "bulk undo"}
           \/ pc[r] = "remove" /\ a \notin Secrets

Rewritten(a) ==
    \E r \in Singles :
        /\ op[r].id = a
        /\ pc[r] \in {"pluck", "update"} \/ (pc[r] = "row" /\ a \in Secrets)

Matches(a) ==
    /\ a \in rows \cap arn /\ store[a] = Nil => Undeleted(a)
    /\ a \notin rows /\ store[a] # Nil => Leftover(a)
    /\ a \in (rows \cap arn) \ shared =>
         /\ store[a] = wanted[a] \/ Rewritten(a)
         /\ \A r \in Singles :
              pc[r] \in {"pluck", "update"} /\ op[r].id = a => op[r].pw = wanted[a]

MatchOK == \A a \in Auths : Matches(a)

(* Two requests at a time about a credential are known to have overlapped.  *)
Alone ==
    \A q, r \in Singles : op[q].id = op[r].id /\ op[r].id \notin shared \cup {Nil} => q = r

(* What was committed is complete: no bulk request answered with 201 lacks  *)
(* one of its credentials.                                                 *)
CommittedIsComplete == \A b \in committed : AuthsOf[b] \ Single \subseteq rows

(* With one connection more than there are bulk requests at a time, every  *)
(* request is answered: they do not wait on each other for ever.           *)
EveryRequestAnswered ==
    \A r \in Clients : (r \in Active) ~> (pc[r] = "done")

(* Rows and secrets belong together, whatever fails and overlaps: every row *)
(* has its secret and no secret is without its row, passwords are the last  *)
(* asked for, and what was committed is complete.                           *)
SecretsInv ==
    /\ TypeOK /\ RowHasSecret /\ NoSecretLeft /\ PasswordKept /\ CommittedIsComplete
    /\ RequestsOK /\ UnbornOK /\ StoreOK /\ Alone /\ (clean => MatchOK)
=============================================================================
