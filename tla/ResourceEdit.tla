---------------------------- MODULE ResourceEdit ----------------------------
(***************************************************************************)
(* The requests that change the rows of sources and applications in place: *)
(* creation, PATCH, pause and unpause, the availability check of a source  *)
(* through its connections, and the propagation of the status of an        *)
(* application to its source.                                              *)
(*                                                                         *)
(* A PATCH and a check read the whole row, work on the Go struct and write *)
(* it back with gorm's Updates, which writes every field of the struct     *)
(* that is not its zero value. Nothing locks the row in between and there  *)
(* is no version column. Requests interleave at every database statement;  *)
(* a transaction of two updates that only locks rows in one order is one   *)
(* step. The rows are those the requester can see.                         *)
(***************************************************************************)
EXTENDS FiniteSets, ResourceRows

CONSTANTS
    Absent,      \* resources not created yet
    InitialRow,  \* the rows at the start: [Resources -> Row]
    Clients,     \* who sends a request
    Operations,  \* what they may send
    Values,      \* what a column can hold
    Pings        \* the outcomes of one ping of a connection

\* config stands for name or extra, seen for last_available_at.
Fields == {"config", "status", "error", "checked", "seen", "paused"}
Row    == [Fields -> Values \cup {Nil}]

Kinds == {"create", "edit", "pause", "unpause", "check"}

ASSUME EditAssumption ==
    /\ Absent \subseteq Resources
    /\ \A a \in Apps \ Absent : SourceOf[a] \notin Absent
    /\ InitialRow \in [Resources -> Row]
    /\ Nil \notin Values
    /\ {"paused", "available", "unavailable", "in_progress"} \subseteq Values
    /\ \A o \in Operations :
         /\ o.kind \in Kinds /\ o.id \in Resources
         /\ DOMAIN o.input \subseteq Fields \ {"paused"}
         /\ \A f \in DOMAIN o.input : o.input[f] \in Values
         /\ o.kind = "create" => o.id \in Sources /\ "config" \in DOMAIN o.input
    /\ \A p \in Pings : p.status \in {"available", "unavailable"} /\ p.at \in Values

VARIABLES
    live,     \* the rows there are
    removed,  \* the rows that were deleted
    row,      \* their columns
    pc,       \* where the request of each client is
    op,       \* what it was asked
    copy,     \* the struct it works on
    prev      \* previousStatus

editVars == <<live, removed, row, pc, op, copy, prev>>

NoOp  == [kind |-> "none", id |-> Nil, input |-> Nil]
Empty == [f \in Fields |-> Nil]

-----------------------------------------------------------------------------
(* Updates with a struct: its non-zero fields.                             *)
Updates(old, struct) ==
    [f \in Fields |-> IF struct[f] = Nil THEN old[f] ELSE struct[f]]

(* UpdateFromRequestPaused, where last_checked_at is stored in the field   *)
(* of last_available_at.                                                   *)
PatchedPaused(struct, input) ==
    [f \in Fields |->
        IF f = "seen" /\ "checked" \in DOMAIN input THEN input["checked"]
        ELSE IF f \in DOMAIN input \ {"checked"} THEN input[f]
        ELSE struct[f]]

\* UpdateFromRequest.
Patched(struct, input) ==
    [f \in Fields |-> IF f \in DOMAIN input THEN input[f] ELSE struct[f]]

\* NameExistsInCurrentTenant.
NameExists(name) == \E s \in live \cap Sources : row[s]["config"] = name

-----------------------------------------------------------------------------
InitEdit ==
    /\ live = Resources \ Absent
    /\ removed = {}
    /\ row = InitialRow
    /\ pc = [r \in Clients |-> "idle"]
    /\ op = [r \in Clients |-> NoOp]
    /\ copy = [r \in Clients |-> Empty]
    /\ prev = [r \in Clients |-> Nil]

Begin(r, o) ==
    /\ pc[r] = "idle"
    /\ o.kind = "create" => \A q \in Clients : op[q].id # o.id
    /\ op' = [op EXCEPT ![r] = o]
    /\ pc' = [pc EXCEPT ![r] = IF o.kind = "create" THEN "validate" ELSE "load"]
    /\ UNCHANGED <<live, removed, row, copy, prev>>

GoTo(r, how) == pc' = [pc EXCEPT ![r] = how]

(* GetById, Exists or GetByIdWithPreload. A PATCH of a paused resource      *)
(* whose body holds anything but status and dates does not bind.            *)
Load(r) ==
    LET id    == op[r].id
        input == op[r].input
    IN  /\ pc[r] = "load"
        /\ IF id \notin live
             THEN GoTo(r, "refused") /\ UNCHANGED <<copy, prev>>
           ELSE IF op[r].kind \in {"pause", "unpause"}
             THEN GoTo(r, op[r].kind) /\ UNCHANGED <<copy, prev>>
           ELSE IF op[r].kind = "edit" /\ row[id]["paused"] # Nil
                   /\ "config" \in DOMAIN input
             THEN GoTo(r, "refused") /\ UNCHANGED <<copy, prev>>
           ELSE /\ copy' = [copy EXCEPT ![r] = row[id]]
                /\ prev' = [prev EXCEPT ![r] = row[id]["status"]]
                /\ GoTo(r, IF op[r].kind = "check" THEN "ping"
                           ELSE IF "config" \in DOMAIN input /\ id \in Sources
                             THEN "validate" ELSE "write")
    /\ UNCHANGED <<live, removed, row, op>>

\* The query of ValidateSourceCreationRequest and ValidateSourceEditRequest.
Validate(r) ==
    /\ pc[r] = "validate"
    /\ GoTo(r, IF NameExists(op[r].input["config"]) THEN "refused"
               ELSE IF op[r].kind = "create" THEN "insert" ELSE "write")
    /\ UNCHANGED <<live, removed, row, op, copy, prev>>

\* SourceCreate: the INSERT. Sources start "in_progress".
Insert(r) ==
    /\ pc[r] = "insert"
    /\ op[r].id \notin live \cup removed
    /\ live' = live \cup {op[r].id}
    /\ row' = [row EXCEPT ![op[r].id] =
                 Patched([Empty EXCEPT !["status"] = "in_progress"], op[r].input)]
    /\ GoTo(r, "done")
    /\ UNCHANGED <<removed, op, copy, prev>>

\* Faulty variant: every column is written, as with Select("*").
WriteEveryColumn(r) ==
    LET id  == op[r].id
        new == IF copy[r]["paused"] # Nil THEN PatchedPaused(copy[r], op[r].input)
                                          ELSE Patched(copy[r], op[r].input)
    IN  /\ pc[r] = "write"
        /\ row' = IF id \in live THEN [row EXCEPT ![id] = new] ELSE row
        /\ copy' = [copy EXCEPT ![r] = new]
        /\ GoTo(r, IF id \in Apps /\ "status" \in DOMAIN op[r].input
                       /\ new["status"] # prev[r]
                      THEN "propagate" ELSE "done")
        /\ UNCHANGED <<live, removed, op, prev>>

\* Faulty variant: Save, which inserts the row when there is none.
WriteOrInsert(r) ==
    LET id  == op[r].id
        new == IF copy[r]["paused"] # Nil THEN PatchedPaused(copy[r], op[r].input)
                                          ELSE Patched(copy[r], op[r].input)
    IN  /\ pc[r] = "write"
        /\ row' = [row EXCEPT ![id] = Updates(row[id], new)]
        /\ live' = live \cup {id}
        /\ copy' = [copy EXCEPT ![r] = new]
        /\ GoTo(r, "done")
        /\ UNCHANGED <<removed, op, prev>>

(* The UPDATE of SourceEdit and ApplicationEdit. No row is not an error.    *)
(* The event of the request follows, with the struct as its payload.        *)
Write(r) ==
    LET id  == op[r].id
        new == IF copy[r]["paused"] # Nil THEN PatchedPaused(copy[r], op[r].input)
                                          ELSE Patched(copy[r], op[r].input)
    IN  /\ pc[r] = "write"
        /\ row' = IF id \in live THEN [row EXCEPT ![id] = Updates(@, new)] ELSE row
        /\ copy' = [copy EXCEPT ![r] = new]
        /\ GoTo(r, IF id \in Apps /\ "status" \in DOMAIN op[r].input
                       /\ new["status"] # prev[r]
                      THEN "propagate" ELSE "done")
        /\ UNCHANGED <<live, removed, op, prev>>

\* UpdateSourceFromApplicationAvailabilityStatus.
Propagate(r) ==
    LET s      == SourceOf[op[r].id]
        struct == [f \in Fields |->
                     IF f \in {"status", "checked", "seen"} THEN copy[r][f] ELSE Nil]
    IN  /\ pc[r] = "propagate"
        /\ row' = IF s \in live THEN [row EXCEPT ![s] = Updates(@, struct)] ELSE row
        /\ GoTo(r, "done")
        /\ UNCHANGED <<live, removed, op, copy, prev>>

(* pingRHC and updateRhcStatus, once per connection of the source: the     *)
(* struct of the whole source is written back each time.                   *)
Ping(r, p) ==
    LET id  == op[r].id
        new == [copy[r] EXCEPT !["status"] = p.status, !["checked"] = p.at,
                   !["seen"] = IF p.status = "available" THEN p.at ELSE @]
    IN  /\ pc[r] = "ping"
        /\ copy' = [copy EXCEPT ![r] = new]
        /\ row' = IF id \in live THEN [row EXCEPT ![id] = Updates(@, new)] ELSE row
        /\ UNCHANGED <<live, removed, pc, op, prev>>

\* The last connection was pinged, or those left do not answer.
EndCheck(r) ==
    /\ pc[r] = "ping"
    /\ GoTo(r, "done")
    /\ UNCHANGED <<live, removed, row, op, copy, prev>>

\* Pause of a source (one transaction) or of an application.
Pause(r) ==
    /\ pc[r] = "pause"
    /\ row' = [x \in Resources |->
                 IF x \in Under(op[r].id) \cap live
                   THEN [row[x] EXCEPT !["paused"] = "paused"] ELSE row[x]]
    /\ GoTo(r, "done")
    /\ UNCHANGED <<live, removed, op, copy, prev>>

Unpause(r) ==
    /\ pc[r] = "unpause"
    /\ row' = [x \in Resources |->
                 IF x \in Under(op[r].id) \cap live
                   THEN [row[x] EXCEPT !["paused"] = Nil] ELSE row[x]]
    /\ GoTo(r, "done")
    /\ UNCHANGED <<live, removed, op, copy, prev>>

(* A cascade removes a source with its applications, or an application     *)
(* (module CascadeDelete).                                                 *)
Remove(x) ==
    /\ x \in live
    /\ live' = live \ Under(x)
    /\ removed' = removed \cup (Under(x) \cap live)
    /\ UNCHANGED <<row, pc, op, copy, prev>>

-----------------------------------------------------------------------------
EditStep(r) ==
    \/ Load(r) \/ Validate(r) \/ Insert(r) \/ Write(r) \/ Propagate(r)
    \/ \E p \in Pings : Ping(r, p)
    \/ EndCheck(r) \/ Pause(r) \/ Unpause(r)

Resting ==
    /\ \A r \in Clients : pc[r] \in {"idle", "done", "refused"}
    /\ UNCHANGED editVars

NextEdit ==
    \/ \E r \in Clients : EditStep(r) \/ \E o \in Operations : Begin(r, o)
    \/ \E x \in Resources : Remove(x)
    \/ Resting

SpecEdit == InitEdit /\ [][NextEdit]_editVars

-----------------------------------------------------------------------------
EditTypeOK ==
    /\ live \subseteq Resources
    /\ removed \subseteq Resources
    /\ row \in [Resources -> Row]
    /\ pc \in [Clients -> {"idle", "load", "validate", "insert", "write",
                            "propagate", "ping", "pause", "unpause", "done",
                            "refused"}]
    /\ op \in [Clients -> Operations \cup {NoOp}]
    /\ copy \in [Clients -> Row]
    /\ prev \in [Clients -> Values \cup {Nil}]
    /\ \A r \in Clients :
         /\ pc[r] # "idle" => op[r] \in Operations
         /\ pc[r] = "propagate" => op[r].id \in Apps
         /\ pc[r] \in {"validate", "insert"} => op[r].id \in Sources

(* Only an unpause request resumes a resource: no PATCH, check or          *)
(* propagation that read the row before the pause undoes it by writing it  *)
(* back. (NULL is a zero value, which Updates leaves out.)                 *)
PauseSticks ==
    [][\A x \in live : row[x]["paused"] # Nil /\ row'[x]["paused"] = Nil =>
          \E r \in Clients : pc[r] = "unpause" /\ x \in Under(op[r].id)]_editVars

(* A row that was deleted does not come back when a request that read it   *)
(* before the deletion writes it.                                          *)
NoResurrection == removed \cap live = {}

(* ... and every row and request keeps its type.                            *)
EditInv == EditTypeOK /\ NoResurrection
=============================================================================
