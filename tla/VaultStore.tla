----------------------------- MODULE VaultStore -----------------------------
(***************************************************************************)
(* The credentials of a tenant in Vault: one secret each, under the key    *)
(* <type>_<id of the resource>_<uid>, next to the rows in the database     *)
(* they belong to. Vault has no transactions and no query but the list of  *)
(* all keys: a credential is found by listing them, read, changed in       *)
(* memory and written back whole, and a write creates what is not there.   *)
(*                                                                         *)
(* A credential has three fields here: its name, which clients edit, and   *)
(* its status with an error, which the status listener reports. The error  *)
(* is stored but not read back. The cascade that removes rows is one step  *)
(* (its statements are in CascadeDelete); what it does with the            *)
(* credentials afterwards is here in full.                                 *)
(***************************************************************************)
EXTENDS Naturals, FiniteSets, ResourceRows

CONSTANTS
    Longer,      \* pairs of applications, the first id beginning with the second
    Uids,        \* a bound on the credentials ever created
    Names, Statuses, Errors,
    First,       \* the credentials at the start, by uid
    Workloads,   \* sets of orders; those of a behaviour come from one
    Requests,    \* orders served at the same time (a bound)
    MayFail      \* whether calls to Vault may fail

\* The secret of a credential: what ToVaultMap stores.
Secrets == [of : Resources, source : Sources, name : Names,
            status : Statuses \cup {Nil}, error : Errors \cup {Nil}]

\* What authFromVault reads of it: all but availability_status_error.
FromVault(s) == [s EXCEPT !.error = Nil]

Orders ==
    [kind : {"create"}, of : Resources, name : Names]
    \cup [kind : {"edit"}, uid : Uids, name : Names]
    \cup [kind : {"report"}, uid : Uids, status : Statuses, error : Errors]
    \cup [kind : {"delete"}, uid : Uids]
    \cup [kind : {"list"}, of : Resources \cup {Nil}]
    \cup [kind : {"cascade"}, of : Resources]

ASSUME VaultAssumption ==
    /\ Nil \notin Resources \cup Names \cup Statuses \cup Errors
    /\ Longer \subseteq Apps \X Apps
    /\ DOMAIN First \subseteq Uids /\ First \in [DOMAIN First -> Secrets]
    /\ \A w \in Workloads : w \subseteq Orders
    /\ MayFail \in BOOLEAN

VARIABLES
    rows,     \* the resources in the database
    secrets,  \* the secrets, by uid
    req,      \* what each request is doing
    workload, \* the orders of this behaviour
    gone,     \* the credentials that were deleted
    raced,    \* those that two orders were about at the same time
    strays,   \* those written when their resource was not there
    wrote,    \* the name and the status last written, by uid, with the error
              \* that the last write brought
    clean     \* whether no call has failed and the process has not died

vars == <<rows, secrets, req, workload, gone, raced, strays, wrote, clean>>
history == <<gone, raced, strays, wrote, clean>>

Idle == [pc |-> "idle"]

-----------------------------------------------------------------------------
SourceOfResource(r) == IF r \in Apps THEN SourceOf[r] ELSE r

About(o, u) ==
    IF o.kind \in {"edit", "report", "delete"} THEN o.uid = u
    ELSE o.kind = "cascade" /\ u \in DOMAIN secrets /\ secrets[u].of \in Under(o.of)

\* The keys that begin with <type>_<id>, without the underscore after it.
WithPrefix(r) ==
    {u \in DOMAIN secrets : secrets[u].of = r \/ <<secrets[u].of, r>> \in Longer}

(* What the three listings read: those of a source read every secret and    *)
(* then look at its source_id.                                              *)
ListKeys(of) == IF of \in Apps THEN WithPrefix(of) ELSE DOMAIN secrets

\* The list of all has the limit and the offset that the client asks for.
Pages(of) == IF of = Nil THEN SUBSET ListKeys(of) ELSE {ListKeys(of)}

Wanted(of, u) == of \notin Sources \/ secrets[u].source = of

\* A secret that a listing or a cascade is to find.
Fits(o, s) ==
    IF o.kind = "cascade" THEN s.of \in Under(o.of)
    ELSE IF o.of \in Apps THEN s.of = o.of
    ELSE o.of \in Sources => s.source = o.of

\* Faulty variant: the underscore after the id is forgotten here as well.
FindKeysByPrefix(rs) == UNION {WithPrefix(r) : r \in rs}

\* "<type>_<id>_" is part of the key.
FindKeys(rs) == {u \in DOMAIN secrets : secrets[u].of \in rs}

\* What a client and the listener write of a secret.
Content(s) == [name |-> s.name, status |-> s.status, error |-> s.error]
Contents == [name : Names, status : Statuses \cup {Nil}, error : Errors \cup {Nil}]

Without(u) == [v \in DOMAIN secrets \ {u} |-> secrets[v]]
With(f, u, x) == [v \in DOMAIN f \cup {u} |-> IF v = u THEN x ELSE f[v]]

-----------------------------------------------------------------------------
Init ==
    /\ rows = Resources
    /\ secrets = First
    /\ req = [q \in Requests |-> Idle]
    /\ workload \in Workloads
    /\ gone = {} /\ raced = {} /\ strays = {}
    /\ wrote = [u \in DOMAIN First |-> Content(First[u])]
    /\ clean = TRUE

At(q, kind, pc) == req[q].pc = pc /\ req[q].order.kind = kind
Becomes(q, r) == req' = [req EXCEPT ![q] = r]
End(q) == Becomes(q, Idle)
Refuse(q) == End(q) /\ UNCHANGED <<rows, secrets, history>>
Checked(q, pc) ==
    /\ Becomes(q, [req[q] EXCEPT !.pc = pc])
    /\ UNCHANGED <<rows, secrets, history>>

Active(q) == req[q].pc # "idle"

(* The uid of a credential is random: nobody knows it before it is there.   *)
Known(o) ==
    o.kind \in {"edit", "report", "delete"} => o.uid \in DOMAIN secrets \cup gone

Receive(q, o) ==
    /\ req[q].pc = "idle"
    /\ Known(o)
    /\ Becomes(q, [pc |-> "start", order |-> o, copy |-> Nil, todo |-> {}, found |-> {},
                   there |-> IF o.kind = "list" THEN {u \in DOMAIN secrets : Fits(o, secrets[u])}
                                                ELSE {}])
    /\ raced' = raced \cup {u \in Uids : About(o, u) /\
                              \E p \in Requests : Active(p) /\ About(req[p].order, u)}
    /\ UNCHANGED <<rows, secrets, gone, strays, wrote, clean>>

(* A panic in a goroutine of its own ends the process: every request at     *)
(* work ends where it is. (Vault's answer to a deletion has no body, so     *)
(* that the library returns a nil secret, which authFromVault dereferences; *)
(* and after an error BulkDelete reads the id of a nil credential.)         *)
Die ==
    /\ req' = [q \in Requests |-> Idle]
    /\ clean' = FALSE

-----------------------------------------------------------------------------
(* Creation. Only sources are not looked up.                                *)
CheckResource(q) ==
    LET r == req[q].order.of IN
    /\ At(q, "create", "start")
    /\ IF r \in Apps \ rows THEN Refuse(q) ELSE Checked(q, "write")

WriteNew(q) ==
    LET o     == req[q].order
        fresh == Uids \ (DOMAIN secrets \cup gone)
    IN
    /\ At(q, "create", "write")
    /\ \/ fresh = {} /\ Refuse(q)
       \/ \E u \in fresh :
            /\ secrets' = With(secrets, u,
                 [of |-> o.of, source |-> SourceOfResource(o.of),
                  name |-> o.name, status |-> Nil, error |-> Nil])
            /\ wrote' = With(wrote, u, [name |-> o.name, status |-> Nil, error |-> Nil])
            /\ strays' = IF o.of \in rows THEN strays ELSE strays \cup {u}
            /\ End(q)
            /\ UNCHANGED <<rows, gone, raced, clean>>

-----------------------------------------------------------------------------
(* Edition, by a client or a status message.                                *)

\* The key with the suffix uid; "not found" is the answer otherwise.
FindKey(q) ==
    /\ req[q].pc = "start"
    /\ req[q].order.kind \in {"edit", "report", "delete"}
    /\ IF req[q].order.uid \in DOMAIN secrets
         THEN Checked(q, IF req[q].order.kind = "delete" THEN "drop" ELSE "read")
         ELSE Refuse(q)

ReadKey(q) ==
    LET u == req[q].order.uid IN
    /\ req[q].pc = "read"
    /\ IF u \notin DOMAIN secrets THEN Refuse(q)
       ELSE /\ Becomes(q, [req[q] EXCEPT !.pc = "change", !.copy = FromVault(secrets[u])])
            /\ UNCHANGED <<rows, secrets, history>>

\* UpdateFromRequest and UpdateBy, of the credential or of what was written.
Changed(o, s) ==
    IF o.kind = "edit" THEN [s EXCEPT !.name = o.name]
                       ELSE [s EXCEPT !.status = o.status, !.error = o.error]

\* Faulty variant: an edition resets the status it does not know.
WriteBackPartly(q) ==
    LET o   == req[q].order
        new == Changed(o, req[q].copy)
    IN
    /\ req[q].pc = "change"
    /\ secrets' = With(secrets, o.uid, [new EXCEPT !.status = IF o.kind = "edit" THEN Nil ELSE @])
    /\ wrote' = With(wrote, o.uid, Changed(o, FromVault(wrote[o.uid])))
    /\ Becomes(q, [req[q] EXCEPT !.pc = "source"])
    /\ UNCHANGED <<rows, gone, raced, strays, clean>>

\* Update: the whole secret, there or not.
WriteBack(q) ==
    LET o   == req[q].order
        new == Changed(o, req[q].copy)
    IN
    /\ req[q].pc = "change"
    /\ secrets' = With(secrets, o.uid, new)
    /\ wrote' = With(wrote, o.uid, Changed(o, FromVault(wrote[o.uid])))
    /\ strays' = IF new.of \in rows THEN strays ELSE strays \cup {o.uid}
    /\ Becomes(q, [req[q] EXCEPT !.pc = "source"])
    /\ UNCHANGED <<rows, gone, raced, clean>>

(* The source for the event and the notification: without it the request    *)
(* is answered "not found" although the secret has been written.            *)
LoadSource(q) == req[q].pc = "source" /\ Refuse(q)

-----------------------------------------------------------------------------
(* Deletion by a client. The key is deleted whether it is still there or    *)
(* not, and the panic that follows is recovered by echo: 500.               *)
DropKey(q) ==
    LET u == req[q].order.uid IN
    /\ At(q, "delete", "drop")
    /\ secrets' = Without(u)
    /\ gone' = gone \cup {u}
    /\ End(q)
    /\ UNCHANGED <<rows, raced, strays, wrote, clean>>

-----------------------------------------------------------------------------
(* Listings: the resource, the keys, and then every secret in turn. One     *)
(* that was deleted in between fails the whole listing.                     *)
CheckListed(q) ==
    /\ At(q, "list", "start")
    /\ IF req[q].order.of \in Resources \ rows THEN Refuse(q)
       ELSE \E page \in Pages(req[q].order.of) :
              /\ Becomes(q, [req[q] EXCEPT !.pc = "each", !.todo = page,
                           !.there = IF req[q].order.of = Nil THEN @ \cap page ELSE @])
              /\ UNCHANGED <<rows, secrets, history>>

ReadEach(q, u) ==
    /\ At(q, "list", "each")
    /\ u \in req[q].todo
    /\ IF u \notin DOMAIN secrets THEN Refuse(q)
       ELSE /\ Becomes(q, [req[q] EXCEPT !.todo = @ \ {u},
                         !.found = IF Wanted(req[q].order.of, u) THEN @ \cup {u} ELSE @])
            /\ UNCHANGED <<rows, secrets, history>>

AnswerList(q) ==
    /\ At(q, "list", "each")
    /\ req[q].todo = {}
    /\ Refuse(q)

-----------------------------------------------------------------------------
(* Cascades.                                                                *)

\* The rows go first; a second cascade of the same resource finds nothing.
DeleteRows(q) ==
    LET r == req[q].order.of IN
    /\ At(q, "cascade", "start")
    /\ IF r \notin rows THEN Refuse(q)
       ELSE /\ rows' = rows \ Under(r)
            /\ Becomes(q, [req[q] EXCEPT !.pc = "ids"])
            /\ UNCHANGED <<secrets, history>>

\* Faulty variant: only the credentials of the resource itself are listed.
ListIdsOfResourceOnly(q) ==
    /\ At(q, "cascade", "ids")
    /\ Becomes(q, [req[q] EXCEPT !.pc = "skim", !.todo = FindKeys({req[q].order.of})])
    /\ UNCHANGED <<rows, secrets, history>>

ListIdsForResource(q) ==
    /\ At(q, "cascade", "ids")
    /\ Becomes(q, [req[q] EXCEPT !.pc = "skim", !.todo = FindKeys(Under(req[q].order.of))])
    /\ UNCHANGED <<rows, secrets, history>>

\* What cannot be read is left out, and only logged.
ReadListed(q, u) ==
    /\ req[q].pc = "skim"
    /\ u \in req[q].todo
    /\ Becomes(q, [req[q] EXCEPT !.todo = @ \ {u},
                 !.found = IF u \in DOMAIN secrets THEN @ \cup {u} ELSE @,
                 !.pc = IF req[q].todo = {u} THEN "wipe" ELSE @])
    /\ UNCHANGED <<rows, secrets, history>>

(* BulkDelete, one credential at a time: Delete looks for its key among     *)
(* all of them and deletes it. Vault's answer is not in the source: with    *)
(* the deleted secret the loop goes on, without it the process dies.        *)
WipeEach(q, u) ==
    /\ req[q].pc = "wipe"
    /\ u \in req[q].found
    /\ \/ /\ u \notin DOMAIN secrets
          /\ Die
          /\ UNCHANGED <<rows, secrets, gone, raced, strays, wrote>>
       \/ /\ u \in DOMAIN secrets
          /\ secrets' = Without(u)
          /\ gone' = gone \cup {u}
          /\ \/ Die
             \/ Becomes(q, [req[q] EXCEPT !.found = @ \ {u}]) /\ UNCHANGED clean
          /\ UNCHANGED <<rows, raced, strays, wrote>>

EndCascade(q) ==
    /\ \/ req[q].pc = "skim" /\ req[q].todo = {}
       \/ req[q].pc = "wipe" /\ req[q].found = {}
    /\ Refuse(q)

\* A call to Vault fails: the request ends with an error, or the process dies.
Fail(q) ==
    /\ MayFail
    /\ Active(q) /\ req[q].pc # "source"
    /\ IF req[q].pc = "wipe" THEN Die ELSE End(q) /\ clean' = FALSE
    /\ UNCHANGED <<rows, secrets, gone, raced, strays, wrote>>

-----------------------------------------------------------------------------
Step(q) ==
    \/ CheckResource(q) \/ WriteNew(q)
    \/ FindKey(q) \/ ReadKey(q) \/ WriteBack(q) \/ LoadSource(q) \/ DropKey(q)
    \/ CheckListed(q) \/ AnswerList(q)
    \/ DeleteRows(q) \/ ListIdsForResource(q) \/ EndCascade(q)
    \/ \E u \in Uids : ReadEach(q, u) \/ ReadListed(q, u) \/ WipeEach(q, u)
    \/ Fail(q)

Next ==
    /\ UNCHANGED workload
    /\ \E q \in Requests : Step(q) \/ \E o \in workload : Receive(q, o)

Spec == Init /\ [][Next]_vars

-----------------------------------------------------------------------------
PcOK(pc, kind) ==
    /\ kind = "create" => pc \in {"start", "write"}
    /\ kind \in {"edit", "report"} => pc \in {"start", "read", "change", "source"}
    /\ kind = "delete" => pc \in {"start", "drop"}
    /\ kind = "list" => pc \in {"start", "each"}
    /\ kind = "cascade" => pc \in {"start", "ids", "skim", "wipe"}

Working ==
    [pc : {"start", "write", "read", "change", "source", "drop", "each", "ids", "skim", "wipe"},
     order : UNION Workloads, copy : Secrets \cup {Nil},
     todo : SUBSET Uids, found : SUBSET Uids, there : SUBSET Uids]

TypeOK ==
    /\ rows \subseteq Resources
    /\ secrets \in [DOMAIN secrets -> Secrets] /\ DOMAIN secrets \subseteq Uids
    /\ req \in [Requests -> Working \cup {Idle}]
    /\ \A q \in Requests : Active(q) => PcOK(req[q].pc, req[q].order.kind)
    /\ workload \in Workloads
    /\ gone \cup raced \cup strays \subseteq Uids
    /\ wrote \in [DOMAIN secrets \cup gone -> Contents]
    /\ clean \in BOOLEAN

(* A deleted credential comes back only when an edition or a report that    *)
(* had read it before was under way at the same time.                       *)
BackOnlyIfRaced == \A u \in DOMAIN secrets \cap gone : u \in raced

(* The name a client wrote and the status the listener reported are both    *)
(* there, as long as no two orders about the credential overlapped. The     *)
(* error is there only until the next write, which erases it or brings one. *)
WrittenIsKept == \A u \in DOMAIN secrets \ raced : wrote[u] = Content(secrets[u])

(* A listing that is answered has every credential of the resource (or of   *)
(* the page asked for) that was there when it began and was not deleted     *)
(* meanwhile.                                                               *)
ListingCovers ==
    \A q \in Requests :
        Active(q) /\ At(q, "list", "each") /\ req[q].todo = {} =>
            req[q].there \ gone \subseteq req[q].found

(* What the invariants above rest on. An order is about a credential that   *)
(* is or was there, and two orders about one are a race.                    *)
Named(q) == Active(q) /\ req[q].order.kind \in {"edit", "report", "delete"}

NamedKnown == \A q \in Requests : Named(q) => Known(req[q].order)

PairsRaced ==
    \A p, q \in Requests : Named(p) /\ Active(q) /\ p # q =>
        (About(req[q].order, req[p].order.uid) => req[p].order.uid \in raced)

(* Outside of a race, what is changed in memory is what can be read of the  *)
(* secret.                                                                  *)
CopyFresh ==
    \A q \in Requests : req[q].pc = "change" =>
        /\ req[q].copy \in Secrets
        /\ \/ req[q].order.uid \in raced
           \/ /\ req[q].order.uid \in DOMAIN secrets
              /\ req[q].copy = FromVault(secrets[req[q].order.uid])

(* A credential stays with its resource.                                    *)
SamePlace(s, t) == s.of = t.of /\ s.source = t.source

CopiesAgree ==
    \A q \in Requests : req[q].pc = "change" =>
        /\ req[q].order.uid \in DOMAIN secrets =>
             SamePlace(req[q].copy, secrets[req[q].order.uid])
        /\ \A p \in Requests : req[p].pc = "change" /\ req[p].order.uid = req[q].order.uid =>
             SamePlace(req[q].copy, req[p].copy)

(* A credential that a listing or a cascade has found stays one of those    *)
(* it looks for, whatever is written back to its key.                       *)
Steady(o, u) ==
    /\ u \in DOMAIN secrets \cup gone
    /\ u \in DOMAIN secrets => Fits(o, secrets[u])
    /\ \A p \in Requests : req[p].pc = "change" /\ req[p].order.uid = u => Fits(o, req[p].copy)

ListingsSteady ==
    \A q \in Requests : Active(q) /\ req[q].order.kind = "list" =>
        /\ \A u \in req[q].there : Steady(req[q].order, u)
        /\ req[q].pc = "each" => req[q].there \ gone \subseteq req[q].found \cup req[q].todo

CascadesSteady ==
    \A q \in Requests : Active(q) /\ req[q].order.kind = "cascade" =>
        /\ \A u \in req[q].todo \cup req[q].found : Steady(req[q].order, u)
        /\ req[q].pc # "start" => rows \cap Under(req[q].order.of) = {}
        /\ req[q].pc \in {"start", "ids"} \/ (req[q].pc = "skim" /\ req[q].todo = {}) =>
              req[q].found = {}

(* A secret whose resource is gone is a stray or will be taken by a cascade *)
(* that is at work.                                                         *)
Doomed(q, u) ==
    \/ req[q].pc = "ids" /\ secrets[u].of \in Under(req[q].order.of)
    \/ req[q].pc = "skim" /\ u \in req[q].todo \cup req[q].found
    \/ req[q].pc = "wipe" /\ u \in req[q].found

LeftToCascades ==
    clean => \A u \in DOMAIN secrets \ strays :
                secrets[u].of \in rows \/ \E q \in Requests : Doomed(q, u)

(* When no cascade is at work, no secret is left whose resource is gone,    *)
(* except those written after it had gone, as long as no call failed and    *)
(* the process never died.                                                  *)
NothingLeftBehind ==
    clean /\ (\A q \in Requests : Active(q) => req[q].order.kind # "cascade") =>
        \A u \in DOMAIN secrets \ strays : secrets[u].of \in rows

(* All of that, for orders that interleave in any way.                      *)
VaultInv ==
    /\ TypeOK /\ BackOnlyIfRaced /\ WrittenIsKept /\ ListingCovers
    /\ NamedKnown /\ PairsRaced /\ CopyFresh /\ CopiesAgree
    /\ ListingsSteady /\ CascadesSteady /\ LeftToCascades /\ NothingLeftBehind

(* Only the order to delete it, or the end of its own resource, takes a     *)
(* secret away: a cascade never takes those of a resource whose id begins   *)
(* with the id of its own ("if we were looking for a string that contains   *)
(* Source_1 we could also match Source_11").                                *)
OnlyItsOwn ==
    [][\A u \in DOMAIN secrets \ DOMAIN secrets' :
          \/ secrets[u].of \notin rows
          \/ \E q \in Requests : At(q, "delete", "drop") /\ req[q].order.uid = u]_vars
=============================================================================
