---------------------------- MODULE Credentials ----------------------------
(***************************************************************************)
(* Credentials in the AWS Secrets Manager store: a row of the table        *)
(* "authentications" whose password_hash is the ARN of a secret, and the   *)
(* secret. Both are written by every request, one after the other and      *)
(* without a transaction: requests interleave between the two, and one may *)
(* fail or stop there.                                                     *)
(*                                                                         *)
(* Two DAOs write them: that of the authentications of sources,            *)
(* applications and endpoints, and that of the secrets of a tenant. A      *)
(* credential gets a row and an ARN of its own when it is created, so a    *)
(* member of Auths stands for both.                                        *)
(***************************************************************************)
EXTENDS Naturals, FiniteSets

CONSTANTS
    Auths,      \* the credentials there ever are
    Secrets,    \* those of the secret DAO
    Stored,     \* those there are at the start
    Passwords,
    Given,      \* the password a credential is created with, or Nil
    Clients,    \* one request each (a bound)
    Nil,
    MayFail     \* failing statements, failing calls to AWS, crashes

ASSUME CredentialsAssumption ==
    /\ Secrets \subseteq Auths
    /\ Stored \subseteq Auths
    /\ Nil \notin Auths \cup Passwords
    /\ Given \in [Auths -> Passwords \cup {Nil}]
    /\ MayFail \in BOOLEAN

VARIABLES
    rows,    \* the rows of authentications
    arn,     \* those that ever had a password_hash
    used,    \* the credentials that were asked for
    store,   \* the value of each secret
    pc,      \* where each request is
    op,      \* what it asks for, with authentication.Password in memory
    wanted,  \* history: the password last asked for
    shared,  \* history: the credentials of requests that overlapped
    clean    \* history: no call to AWS failed, and no process stopped

vars == <<rows, arn, used, store, pc, op, wanted, shared, clean>>

table   == <<rows, arn, used>>
history == <<wanted, shared, clean>>

None == [kind |-> "none", id |-> Nil, pw |-> Nil]

Active  == {r \in Clients : pc[r] \notin {"idle", "done"}}
Idle(r) == pc[r] = "idle"

Go(r, where) == pc' = [pc EXCEPT ![r] = where] /\ op' = op
Reply(r)     == pc' = [pc EXCEPT ![r] = "done"] /\ op' = [op EXCEPT ![r] = None]

(* Which of the two goes first when a credential is deleted: the secret of  *)
(* a secret, the row of an authentication.                                 *)
SecretFirst(a) == a \in Secrets

-----------------------------------------------------------------------------
InitCredentials ==
    /\ rows = Stored
    /\ arn = {a \in Stored : Given[a] # Nil}
    /\ used = Stored
    /\ store = [a \in Auths |-> IF a \in Stored THEN Given[a] ELSE Nil]
    /\ pc = [r \in Clients |-> "idle"]
    /\ op = [r \in Clients |-> None]
    /\ wanted = store
    /\ shared = {}
    /\ clean = TRUE

(* A request about a; pw is Nil when it carries no password. The last one   *)
(* about a credential decides what its password should be.                 *)
Begin(r, kind, a, pw) ==
    /\ Idle(r)
    /\ (kind = "create") = (a \notin used)
    /\ op' = [op EXCEPT ![r] = [kind |-> kind, id |-> a, pw |-> pw]]
    /\ used' = used \cup {a}
    /\ shared' = IF \E q \in Active : op[q].id = a THEN shared \cup {a} ELSE shared
    /\ pc' = [pc EXCEPT ![r] = IF kind = "create" THEN "secret" ELSE "load"]
    /\ UNCHANGED <<rows, arn, store, wanted, clean>>

-----------------------------------------------------------------------------
\* CreateSecret, when there is a password.
CreateSecret(r) ==
    /\ pc[r] = "secret"
    /\ \/ Go(r, "insert") /\ store' = [store EXCEPT ![op[r].id] = op[r].pw]
       \/ MayFail /\ op[r].pw # Nil /\ Reply(r) /\ store' = store
    /\ UNCHANGED <<table, history>>

\* The row and its ARN are in the table.
Inserted(a, pw) ==
    /\ rows' = rows \cup {a}
    /\ arn' = IF pw # Nil THEN arn \cup {a} ELSE arn
    /\ wanted' = [wanted EXCEPT ![a] = pw]

(* The row. It is not inserted when its resource is not found (never so    *)
(* for a secret) or when the statement fails.                              *)
InsertRow(r) ==
    /\ pc[r] = "insert"
    /\ \/ Inserted(op[r].id, op[r].pw) /\ Reply(r)
       \/ /\ op[r].id \notin Secrets \/ MayFail
          /\ Go(r, "undo")
          /\ UNCHANGED <<rows, arn, wanted>>
    /\ UNCHANGED <<used, store, shared, clean>>

\* Faulty variant: the secret of a row that was not inserted stays.
UndoNothing(r) ==
    /\ pc[r] = "undo"
    /\ Reply(r)
    /\ UNCHANGED <<table, store, history>>

(* The secret of a row that was not inserted is deleted again. (The secret *)
(* DAO then returns the nil of a shadowed err: the client reads 201.)      *)
Undo(r) ==
    /\ pc[r] = "undo"
    /\ \/ store' = [store EXCEPT ![op[r].id] = Nil] /\ clean' = clean
       \/ MayFail /\ op[r].pw # Nil /\ store' = store /\ clean' = FALSE
    /\ Reply(r)
    /\ UNCHANGED <<table, wanted, shared>>

-----------------------------------------------------------------------------
AfterLoad(r) ==
    LET a == op[r].id IN
      CASE op[r].kind = "edit" /\ a \in arn -> "get"
        [] op[r].kind = "edit" /\ a \notin arn ->
             IF op[r].pw = Nil THEN "write" ELSE "pluck"
        [] op[r].kind = "delete" ->
             IF SecretFirst(a) /\ a \in arn THEN "remove" ELSE "row"

\* GetById of the database DAO, or the First of its Delete.
Load(r) ==
    /\ pc[r] = "load"
    /\ IF op[r].id \in rows THEN Go(r, AfterLoad(r)) ELSE Reply(r)
    /\ UNCHANGED <<table, store, history>>

\* Faulty variant: the password of the request is overwritten.
GetSecretLast(r) ==
    /\ pc[r] = "get"
    /\ IF store[op[r].id] = Nil
         THEN Reply(r) /\ wanted' = wanted
         ELSE /\ op' = [op EXCEPT ![r].pw = store[op[r].id]]
              /\ pc' = [pc EXCEPT ![r] = "pluck"]
              /\ wanted' = IF op[r].pw = Nil THEN wanted
                           ELSE [wanted EXCEPT ![op[r].id] = op[r].pw]
    /\ UNCHANGED <<table, store, shared, clean>>

(* GetSecret: the password comes to memory, and the request replaces it if  *)
(* it carries one. Either way the memory has a password now, and Update    *)
(* writes it back.                                                         *)
GetSecret(r) ==
    /\ pc[r] = "get"
    /\ IF store[op[r].id] = Nil
         THEN Reply(r) /\ wanted' = wanted
         ELSE /\ op' = [op EXCEPT ![r].pw = IF @ = Nil THEN store[op[r].id] ELSE @]
              /\ pc' = [pc EXCEPT ![r] = "pluck"]
              /\ wanted' = IF op[r].pw = Nil THEN wanted
                           ELSE [wanted EXCEPT ![op[r].id] = op[r].pw]
    /\ UNCHANGED <<table, store, shared, clean>>

(* Pluck of the ARN. No row, or a NULL: *arns[0] panics and the request    *)
(* ends with a 500.                                                        *)
PluckArn(r) ==
    /\ pc[r] = "pluck"
    /\ IF op[r].id \in rows \cap arn THEN Go(r, "update") ELSE Reply(r)
    /\ UNCHANGED <<table, store, history>>

\* UpdateSecret: an error when the secret is gone.
UpdateSecret(r) ==
    /\ pc[r] = "update"
    /\ \/ /\ store[op[r].id] # Nil
          /\ store' = [store EXCEPT ![op[r].id] = op[r].pw]
          /\ Go(r, "write")
          /\ clean' = clean
       \/ /\ store[op[r].id] = Nil \/ MayFail
          /\ store' = store
          /\ Reply(r)
          /\ clean' = (clean /\ store[op[r].id] = Nil)
    /\ UNCHANGED <<table, wanted, shared>>

\* Updates: the other columns; no row is not an error.
WriteRow(r) ==
    /\ pc[r] = "write"
    /\ Reply(r)
    /\ UNCHANGED <<table, store, history>>

-----------------------------------------------------------------------------
\* Delete, by key: a row that is gone by now is no error.
DeleteRow(r) ==
    /\ pc[r] = "row"
    /\ rows' = rows \ {op[r].id}
    /\ IF SecretFirst(op[r].id) \/ op[r].id \notin arn
         THEN Reply(r) ELSE Go(r, "remove")
    /\ UNCHANGED <<arn, used, store, history>>

\* DeleteSecret without recovery; deleting it again is no error.
RemoveSecret(r) ==
    /\ pc[r] = "remove"
    /\ \/ /\ store' = [store EXCEPT ![op[r].id] = Nil]
          /\ IF SecretFirst(op[r].id) THEN Go(r, "row") ELSE Reply(r)
          /\ clean' = clean
       \/ /\ MayFail
          /\ store' = store
          /\ Reply(r)
          /\ clean' = FALSE
    /\ UNCHANGED <<table, wanted, shared>>

(* A statement fails or the process stops. What the request already did    *)
(* stays.                                                                  *)
Fail(r) ==
    /\ MayFail
    /\ r \in Active
    /\ Reply(r)
    /\ clean' = FALSE
    /\ UNCHANGED <<table, store, wanted, shared>>

-----------------------------------------------------------------------------
\* The steps that need a connection of the database pool, and the others.
DatabaseStep(r) ==
    InsertRow(r) \/ Load(r) \/ PluckArn(r) \/ WriteRow(r) \/ DeleteRow(r)

StoreStep(r) ==
    CreateSecret(r) \/ Undo(r) \/ GetSecret(r) \/ UpdateSecret(r) \/ RemoveSecret(r)

AboutNow(a) == \E r \in Active : op[r].id = a

-----------------------------------------------------------------------------
(* A row never points to a secret that is gone: whoever reads a credential  *)
(* of a source finds its password. Failures, crashes and concurrent edits  *)
(* and deletions included. Tenant secrets are deleted the other way round, *)
(* so for them only while nothing failed and nobody is at them.            *)
RowHasSecret ==
    \A a \in rows \cap arn :
        (a \in Secrets => clean /\ ~AboutNow(a)) => store[a] # Nil

(* No secret is left in the store without a row, whichever requests failed  *)
(* half way, unless a call to AWS failed or the process stopped.           *)
NoSecretLeft ==
    clean => \A a \in Auths \ rows : store[a] # Nil => AboutNow(a)

(* A credential that is at rest and that no two requests were about at the  *)
(* same time has the password last asked for, also after edits that carried *)
(* none and read and wrote it back.                                        *)
PasswordKept ==
    clean => \A a \in (rows \cap arn) \ shared : ~AboutNow(a) => store[a] = wanted[a]
=============================================================================
