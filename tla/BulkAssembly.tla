----------------------------- MODULE BulkAssembly -----------------------------
(***************************************************************************)
(* What one bulk request makes of its body: sources, and the applications, *)
(* endpoints and authentications that refer to them by name, all checked,  *)
(* linked, given to their owner and, for some pairs of types, set as       *)
(* available; and the messages that follow. BulkCreate has the connections *)
(* and the secrets of the same requests.                                   *)
(*                                                                         *)
(* A body is [user, sources, applications, endpoints, auths]: whether the  *)
(* request has a user, and sequences of                                    *)
(*   sources       [name, type, superkey]                                  *)
(*   applications  [source, type, name]: name is how the type is given     *)
(*   endpoints     [source, host]                                          *)
(*   auths         [of, id, name]: of an existing resource, if id is one   *)
(* The name of a type is <<type, "full">>, its path; <<type, "short">>, the *)
(* last part of it; or <<>> when the type is given by its id. The rows the *)
(* request creates are numbered from 1, existing resources have other ids. *)
(***************************************************************************)
EXTENDS Naturals, FiniteSets, SequencesExt

CONSTANTS
    Bodies,      \* what clients may ask for
    Existing,    \* <<kind, id>>: the resources there are, seen by the request
    Taken,       \* the names of the tenant's sources
    OwnedTypes,  \* the application types with resource ownership "user"
    Compatible,  \* <<application type, source type>>
    Override,    \* <<source type, application type>> without availability checks
    Within       \* <<name, host>>: the host contains the name, <<word>>

Kinds == {"Source", "Application", "Endpoint"}

IsSequence(s) == Len(s) \in Nat /\ DOMAIN s = 1..Len(s)

\* The id of what exists is not the number of a row.
ASSUME BulkAssemblyAssumption ==
    /\ Existing \subseteq Kinds \X Nat
    /\ \A b \in Bodies :
         /\ b.user \in BOOLEAN
         /\ IsSequence(b.sources) /\ IsSequence(b.applications)
         /\ IsSequence(b.endpoints) /\ IsSequence(b.auths)
         /\ \A s \in ToSet(b.sources) : s.superkey \in BOOLEAN
         /\ \A a \in ToSet(b.applications) :
              a.name \in {<<>>, <<a.type, "short">>, <<a.type, "full">>}
         /\ \A a \in ToSet(b.auths) : a.of \in Kinds
         /\ \A x \in Existing : /\ x[2] > Len(b.sources) /\ x[2] > Len(b.applications)
                               /\ x[2] > Len(b.endpoints)

VARIABLES
    body,       \* of the request
    step,       \* where it is
    out,        \* the output, in memory
    made,       \* the authentications there are, by their number
    next,       \* the authentication, then the message, whose turn it is
    saved,      \* the transaction is committed
    existing,
    deleted,    \* history: what was deleted before the request ended
    told        \* the messages sent

assemblyVars ==
    <<body, step, out, made, next, saved, existing, deleted, told>>

\* The numbers of a set, the smallest first.
Ascending(numbers) ==
    CHOOSE s \in [1..Cardinality(numbers) -> numbers] :
      \A i, j \in 1..Cardinality(numbers) : i < j => s[i] < s[j]

-----------------------------------------------------------------------------
(* Ownership: the lists of names of UserResource.                           *)

LastPart(name) == IF name = <<>> THEN <<>> ELSE <<name[1], "short">>

\* userResourceFromBulkCreateApplications.
OwnedApplications ==
    {a \in ToSet(body.applications) : body.user /\ a.type \in OwnedTypes}

OwnershipPresentForSource(n) == \E a \in OwnedApplications : a.source = n

\* Mutant: the name as it is.
OwnershipPresentForName(name) == \E a \in OwnedApplications : a.name = name

OwnershipPresentForApplication(name) ==
    \E a \in OwnedApplications : a.name = LastPart(name)

OwnershipPresentForSourceAndApplication(n, name) ==
    OwnershipPresentForSource(n) /\ OwnershipPresentForApplication(name)

-----------------------------------------------------------------------------
(* The rows of the transaction.                                             *)

SourcesNamed(n) == {i \in DOMAIN body.sources : body.sources[i].name = n}

ParseSources ==
    [i \in DOMAIN body.sources |-> LET s == body.sources[i] IN
       [name |-> s.name, type |-> s.type, superkey |-> s.superkey,
        owned |-> OwnershipPresentForSource(s.name), available |-> FALSE]]

ApplicationOf(a, i) ==
    [source |-> i, type |-> a.type, available |-> FALSE,
     owned |-> OwnershipPresentForSourceAndApplication(a.source, a.name)]

\* Mutant: it goes to the first source, whatever its name.
ParseToFirst ==
    [k \in DOMAIN body.applications |-> ApplicationOf(body.applications[k], 1)]

\* An application for every source of that name.
ParseApplications ==
    FlattenSeq([k \in DOMAIN body.applications |->
      LET a == body.applications[k]
          named == Ascending(SourcesNamed(a.source))
      IN  [j \in DOMAIN named |-> ApplicationOf(a, named[j])]])

\* The last source of that name.
ParseEndpoints ==
    [k \in DOMAIN body.endpoints |-> LET e == body.endpoints[k] IN
       [source |-> SelectLastInSeq(body.sources, LAMBDA s : s.name = e.source),
        host |-> e.host]]

\* What the validations accept: they see no row of the transaction. All is
\* linked when there are as many rows as were asked for.
Accepted ==
    /\ body.sources # <<>>
    /\ \A s \in ToSet(body.sources) : s.name \notin Taken
    /\ \A a \in ToSet(body.applications), i \in DOMAIN body.sources :
         i \in SourcesNamed(a.source) => <<a.type, body.sources[i].type>> \in Compatible
    /\ Len(ParseApplications) = Len(body.applications)
    /\ \A e \in ToSet(ParseEndpoints) : e.source # 0

-----------------------------------------------------------------------------
(* linkUpAuthentications.                                                   *)

\* By type, by host: the first one, or 0.
LinkupApplication(name) ==
    SelectInSeq(out.applications, LAMBDA a : name # <<>> /\ a.type = name[1])

LinkupEndpoint(name) ==
    SelectInSeq(out.endpoints, LAMBDA e : <<name, e.host>> \in Within)

\* An id that is not found counts as a name.
LinkTo(a) ==
    IF <<a.of, a.id>> \in existing
      THEN <<a.of, a.id>>
      ELSE <<a.of, CASE a.of = "Source"      -> 1
                     [] a.of = "Application" -> LinkupApplication(a.name)
                     [] a.of = "Endpoint"    -> LinkupEndpoint(a.name)>>

\* The source is the first one of the request; what exists has no owner here.
OwnedAuthentication(a) ==
    /\ <<a.of, a.id>> \notin existing
    /\ a.of # "Endpoint"
    /\ OwnershipPresentForSource(out.sources[1].name)
    /\ a.of = "Application" => OwnershipPresentForApplication(a.name)

LinkUpAuthentications ==
    [k \in DOMAIN body.auths |-> LET a == body.auths[k] IN
       [to |-> LinkTo(a), owned |-> OwnedAuthentication(a), available |-> FALSE]]

-----------------------------------------------------------------------------
(* The end of the transaction.                                              *)

\* Of the authentications of applications; an existing one is not looked at.
ApplicationAuthentications ==
    LET Of(n) == out.auths[n].to
        OfApplication == {n \in DOMAIN out.auths : Of(n)[1] = "Application"}
    IN  {[auth |-> n, application |-> Of(n)[2],
          owned |-> /\ Of(n) \notin Existing
                    /\ OwnershipPresentForApplication(
                         <<out.applications[Of(n)[2]].type, "full">>)] : n \in OfApplication}

ShouldSourceApplicationSetAvailable(s, a) == <<s.type, a.type>> \in Override

\* Mutant: whichever source of the request it is.
AvailableOfAny ==
    {k \in DOMAIN out.applications : \E s \in ToSet(out.sources) :
       ShouldSourceApplicationSetAvailable(s, out.applications[k])}

AvailableApplications ==
    {k \in DOMAIN out.applications :
       LET a == out.applications[k]
       IN  ShouldSourceApplicationSetAvailable(out.sources[a.source], a)}

SetCorrespondingResourcesAsAvailable ==
    LET apps    == AvailableApplications
        sources == {out.applications[k].source : k \in apps}
        now     == ({"Application"} \X apps) \cup ({"Source"} \X sources)
    IN  [out EXCEPT
           !.sources = [i \in DOMAIN @ |-> [@[i] EXCEPT !.available = i \in sources]],
           !.applications = [k \in DOMAIN @ |-> [@[k] EXCEPT !.available = k \in apps]],
           !.auths = [n \in DOMAIN @ |-> [@[n] EXCEPT !.available = out.auths[n].to \in now]]]

\* A message is <<event, kind, number>>.
Create(kind, numbers) ==
    [k \in 1..Cardinality(numbers) |-> <<"create", kind, Ascending(numbers)[k]>>]

\* Mutant: applications of a superkey source are announced like the others.
AnnounceApplications == Create("Application", DOMAIN out.applications)

\* The workflow of the first source decides for all of them.
ApplicationMessages ==
    IF out.sources[1].superkey
      THEN [k \in DOMAIN out.applications |-> <<"superkey", "Application", k>>]
      ELSE Create("Application", DOMAIN out.applications)

BulkMessages ==
    Create("Source", DOMAIN out.sources) \o Create("Endpoint", DOMAIN out.endpoints)
      \o ApplicationMessages
      \o Create("ApplicationAuthentication", {x.auth : x \in out.assocs})
      \o Create("Authentication", DOMAIN out.auths)

-----------------------------------------------------------------------------
Empty == [sources |-> <<>>, applications |-> <<>>, endpoints |-> <<>>,
          auths |-> <<>>, assocs |-> {}]

InitAssembly ==
    /\ body \in Bodies
    /\ step = "parse" /\ out = Empty /\ made = {} /\ next = 1
    /\ saved = FALSE /\ existing = Existing /\ deleted = {} /\ told = <<>>

Fails == step' = "failed" /\ UNCHANGED <<body, out, made, next, saved, existing, deleted, told>>

\* Sources, applications and endpoints.
AssembleRows ==
    /\ step = "parse"
    /\ \/ Fails
       \/ /\ Accepted
          /\ step' = "link"
          /\ out' = [out EXCEPT !.sources = ParseSources, !.applications = ParseApplications,
                                !.endpoints = ParseEndpoints]
          /\ UNCHANGED <<body, made, next, saved, existing, deleted, told>>

LinkUpAll ==
    /\ step = "link"
    /\ \/ Fails
       \/ /\ \A a \in ToSet(body.auths) : LinkTo(a)[2] # 0
          /\ step' = "create"
          /\ out' = [out EXCEPT !.auths = LinkUpAuthentications]
          /\ UNCHANGED <<body, made, next, saved, existing, deleted, told>>

\* Mutant: one that fails does not end the request.
CreateAuthenticationOrNot ==
    /\ step = "create" /\ next \in DOMAIN out.auths
    /\ made' \in {made, made \cup {next}} /\ next' = next + 1
    /\ UNCHANGED <<body, step, out, saved, existing, deleted, told>>

\* Not in the transaction: it stays there when that is rolled back.
CreateAuthentication ==
    /\ step = "create" /\ next \in DOMAIN out.auths
    /\ \/ Fails
       \/ /\ made' = made \cup {next} /\ next' = next + 1
          /\ UNCHANGED <<body, step, out, saved, existing, deleted, told>>

\* An association refers to its application: one that is gone is an error.
CommitAssembly ==
    /\ step = "create" /\ next \notin DOMAIN out.auths
    /\ \/ Fails
       \/ /\ \A x \in ToSet(out.auths) :
               x.to[1] = "Application" => x.to \in existing \/ x.to \notin Existing
          /\ saved' = TRUE /\ step' = "send" /\ next' = 1
          /\ out' = [SetCorrespondingResourcesAsAvailable EXCEPT
                       !.assocs = ApplicationAuthentications]
          /\ UNCHANGED <<body, made, existing, deleted, told>>

\* The goroutine of SendBulkMessages: what fails is logged.
SendBulkMessage ==
    /\ step = "send" /\ next \in DOMAIN BulkMessages
    /\ told' \in {told, Append(told, BulkMessages[next])}
    /\ next' = next + 1
    /\ UNCHANGED <<body, step, out, made, saved, existing, deleted>>

\* The process ends: a transaction is rolled back, messages are not sent.
StopAssembly ==
    /\ step \in {"parse", "link", "create", "send"}
    /\ step' = "stopped"
    /\ UNCHANGED <<body, out, made, next, saved, existing, deleted, told>>

\* Another request: the resource and the authentications it has by now.
DeleteExisting(x) ==
    /\ step \in {"parse", "link", "create"} /\ x \in existing
    /\ existing' = existing \ {x} /\ deleted' = deleted \cup {x}
    /\ made' = {n \in made : out.auths[n].to # x}
    /\ UNCHANGED <<body, step, out, next, saved, told>>

Ended ==
    \/ step \in {"failed", "stopped"}
    \/ step = "send" /\ next \notin DOMAIN BulkMessages

NextAssembly ==
    \/ AssembleRows \/ LinkUpAll \/ CreateAuthentication \/ CommitAssembly
    \/ SendBulkMessage \/ StopAssembly
    \/ \E x \in Existing : DeleteExisting(x)

SpecAssembly == InitAssembly /\ [][NextAssembly]_assemblyVars

-----------------------------------------------------------------------------
(* If its sources have different names, a committed request has exactly the *)
(* applications and endpoints asked for, each under its source; and each    *)
(* authentication belongs to what it was asked for: the resource with that  *)
(* id, an application of that type, an endpoint of that host.               *)
LinkedAsAsked ==
    saved =>
      /\ \A k \in DOMAIN out.auths :
           LET a == body.auths[k]  to == out.auths[k].to
           IN  /\ to[1] = a.of
               /\ to \in Existing => to[2] = a.id
               /\ to \notin Existing /\ a.of = "Application" =>
                    out.applications[to[2]].type = a.name[1]
               /\ to \notin Existing /\ a.of = "Endpoint" =>
                    <<a.name, out.endpoints[to[2]].host>> \in Within
      /\ (\A s \in ToSet(body.sources) : Cardinality(SourcesNamed(s.name)) = 1) =>
           /\ Len(out.applications) = Len(body.applications)
           /\ \A k \in DOMAIN out.applications :
                LET a == out.applications[k]
                IN  /\ out.sources[a.source].name = body.applications[k].source
                    /\ a.type = body.applications[k].type
           /\ \A k \in DOMAIN out.endpoints :
                out.sources[out.endpoints[k].source].name = body.endpoints[k].source

(* A committed request has all of its authentications, and an authentication *)
(* has its resource, but for what was deleted while the request was served   *)
(* and what a request that failed or stopped leaves behind.                  *)
AuthenticationsHaveResources ==
    /\ saved => \A n \in DOMAIN out.auths : n \in made \/ out.auths[n].to \in deleted
    /\ \A n \in made : LET to == out.auths[n].to IN
         \/ to \in existing \cup deleted
         \/ to \notin Existing /\ (saved \/ step \in {"create", "failed", "stopped"})

(* What a user creates of a type with ownership is that user's down to the  *)
(* association, and nothing else is: if the request has one source and      *)
(* gives the types by their short names.                                     *)
OwnedTogether ==
    LET Short(name) == name = LastPart(name) /\ name # <<>>
        plain == /\ Len(body.sources) = 1
                 /\ \A a \in ToSet(body.applications) : Short(a.name)
    IN  saved /\ plain =>
          /\ \A k \in DOMAIN out.applications :
               out.applications[k].owned <=> body.user /\ out.applications[k].type \in OwnedTypes
          /\ out.sources[1].owned <=> \E a \in ToSet(out.applications) : a.owned
          /\ \A x \in ToSet(out.auths) : x.to \notin Existing =>
               (x.owned <=> \/ x.to[1] = "Source" /\ out.sources[1].owned
                            \/ x.to[1] = "Application" /\ out.applications[x.to[2]].owned)
          /\ \A x \in out.assocs : <<"Application", x.application>> \notin Existing =>
               (x.owned <=> out.applications[x.application].owned)

(* A source is set as available with one of its applications, an            *)
(* authentication with the source or the application it is of; and no       *)
(* application is that has its availability checked.                         *)
AvailableTogether ==
    saved =>
      /\ \A i \in DOMAIN out.sources :
           out.sources[i].available <=>
             \E a \in ToSet(out.applications) : a.source = i /\ a.available
      /\ \A a \in ToSet(out.applications) :
           a.available <=> <<out.sources[a.source].type, a.type>> \in Override
      /\ \A x \in ToSet(out.auths) :
           x.available <=>
             /\ x.to \notin Existing
             /\ \/ x.to[1] = "Source" /\ out.sources[x.to[2]].available
                \/ x.to[1] = "Application" /\ out.applications[x.to[2]].available

Rank(kind) ==
    CASE kind = "Source" -> 1 [] kind = "Endpoint" -> 2 [] kind = "Application" -> 3
      [] kind = "ApplicationAuthentication" -> 4 [] kind = "Authentication" -> 5

Before(m, n) == Rank(m[2]) < Rank(n[2]) \/ (m[2] = n[2] /\ m[3] < n[3])

(* Only what is committed is announced, once, parents first: the source     *)
(* before the rest, an application before its association and that before   *)
(* the authentication. An application of a superkey source is never         *)
(* announced here, unless the sources of the request differ in that.        *)
AnnouncedInOrder ==
    /\ told # <<>> => saved
    /\ \A i, j \in DOMAIN told : i < j => Before(told[i], told[j])
    /\ \A i \in DOMAIN told : told[i][2] = "Application" =>
         \/ \E s, t \in ToSet(out.sources) : s.superkey # t.superkey
         \/ LET a == out.applications[told[i][3]]
            IN  out.sources[a.source].superkey <=> told[i][1] = "superkey"

\* Whatever fails, ends or is deleted meanwhile: the body of a bulk request
\* is linked as asked, completely, to the right owner and with one status,
\* and announced in order (BulkAssembly, SendBulkMessages).
AssemblyInv ==
    /\ LinkedAsAsked /\ AuthenticationsHaveResources
    /\ OwnedTogether /\ AvailableTogether /\ AnnouncedInOrder
=============================================================================
