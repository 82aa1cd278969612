--------------------------- MODULE WriteBackProofs ---------------------------
(***************************************************************************)
(* The two components where a row or a secret is read whole, changed in    *)
(* memory and written back whole: ResourceEdit, whose rows are in the      *)
(* database, and VaultStore, whose credentials are in Vault.               *)
(*                                                                         *)
(* Of the first, that requests, interleaved in any way, bring no deleted   *)
(* row back and resume no paused resource: an UPDATE of no row inserts     *)
(* none. Of the second, where a write creates what is not there, that what *)
(* goes wrong does so only between two orders about the same credential.   *)
(* The argument: outside of a race what a request has in memory is what    *)
(* can be read of the secret (CopyFresh), a credential stays with its      *)
(* resource (CopiesAgree), so that what a cascade has found is its own     *)
(* (CascadesSteady), and what it has not removed yet is what it has still  *)
(* to find (LeftToCascades).                                               *)
(***************************************************************************)
EXTENDS ResourceEdit, VaultStore, TLAPS

-----------------------------------------------------------------------------
(* gorm's Updates: the row stays a row, and no column becomes NULL.        *)
LEMMA UpdatesFacts ==
    ASSUME EditAssumption, NEW old \in Row, NEW struct \in [Fields -> Values \cup {Nil}]
    PROVE  /\ Updates(old, struct) \in Row
           /\ \A f \in Fields : old[f] # Nil => Updates(old, struct)[f] # Nil
BY DEF Updates, Row

(* The struct after the body of a request was applied to it.               *)
LEMMA PatchedFacts ==
    ASSUME EditAssumption, NEW struct \in Row, NEW o \in Operations
    PROVE  /\ Patched(struct, o.input) \in Row
           /\ PatchedPaused(struct, o.input) \in Row
<1>1. \A f \in DOMAIN o.input : o.input[f] \in Values
  BY DEF EditAssumption
<1> QED BY <1>1 DEF Patched, PatchedPaused, Row

LEMMA EmptyIsRow == Empty \in Row
BY DEF Empty, Row

LEMMA InitInv == ASSUME EditAssumption PROVE InitEdit => EditInv
BY EmptyIsRow DEF EditAssumption, InitEdit, EditInv, EditTypeOK, NoResurrection

(* What each operation writes is a row, and it writes no NULL: only        *)
(* Unpause does, and only INSERT adds a row.                               *)
LEMMA InsertKeeps ==
    ASSUME EditAssumption, EditInv, NEW r \in Clients, Insert(r)
    PROVE  EditInv' /\ \A x \in live : row'[x] = row[x]
<1> USE DEF EditInv, EditTypeOK, NoResurrection
<1>1. op[r] \in Operations /\ op[r].id \in Resources
  BY DEF EditAssumption, Insert
<1>2. [Empty EXCEPT !["status"] = "in_progress"] \in Row
  BY EmptyIsRow DEF EditAssumption, Row
<1>3. Patched([Empty EXCEPT !["status"] = "in_progress"], op[r].input) \in Row
  BY <1>1, <1>2, PatchedFacts
<1>4. row' \in [Resources -> Row] /\ \A x \in live : row'[x] = row[x]
  BY <1>1, <1>3 DEF Insert
<1> QED BY <1>1, <1>4 DEF Insert, GoTo

LEMMA WriteKeeps ==
    ASSUME EditAssumption, EditInv, NEW r \in Clients, Write(r)
    PROVE  EditInv' /\ \A x \in live : row[x]["paused"] # Nil => row'[x]["paused"] # Nil
<1> USE DEF EditInv, EditTypeOK, NoResurrection
<1> DEFINE id  == op[r].id
           new == IF copy[r]["paused"] # Nil THEN PatchedPaused(copy[r], op[r].input)
                                             ELSE Patched(copy[r], op[r].input)
<1>1. op[r] \in Operations /\ id \in Resources
  BY DEF EditAssumption, Write
<1>2. new \in Row
  BY <1>1, PatchedFacts
<1>3. /\ row' = IF id \in live THEN [row EXCEPT ![id] = Updates(@, new)] ELSE row
      /\ copy' = [copy EXCEPT ![r] = new]
      /\ \/ pc' = [pc EXCEPT ![r] = "done"]
         \/ id \in Apps /\ pc' = [pc EXCEPT ![r] = "propagate"]
      /\ UNCHANGED <<live, removed, op, prev>>
  BY DEF Write, GoTo
<1> HIDE DEF new
<1>4. /\ Updates(row[id], new) \in Row
      /\ (row[id]["paused"] # Nil => Updates(row[id], new)["paused"] # Nil)
  BY <1>1, <1>2, UpdatesFacts DEF Row, Fields
<1> QED BY <1>1, <1>2, <1>3, <1>4

LEMMA PropagateKeeps ==
    ASSUME EditAssumption, EditInv, NEW r \in Clients, Propagate(r)
    PROVE  EditInv' /\ \A x \in live : row[x]["paused"] # Nil => row'[x]["paused"] # Nil
<1> USE DEF EditInv, EditTypeOK, NoResurrection
<1> DEFINE s      == SourceOf[op[r].id]
           struct == [f \in Fields |->
                        IF f \in {"status", "checked", "seen"} THEN copy[r][f] ELSE Nil]
<1>1. s \in Resources
  BY ResourceAssumption DEF EditAssumption, Propagate, Resources
<1>2. struct \in [Fields -> Values \cup {Nil}]
  BY DEF Row
<1>3. /\ pc[r] = "propagate"
      /\ row' = IF s \in live THEN [row EXCEPT ![s] = Updates(@, struct)] ELSE row
      /\ pc' = [pc EXCEPT ![r] = "done"]
      /\ UNCHANGED <<live, removed, op, copy, prev>>
  BY DEF Propagate, GoTo
<1> HIDE DEF struct
<1>4. /\ Updates(row[s], struct) \in Row
      /\ (row[s]["paused"] # Nil => Updates(row[s], struct)["paused"] # Nil)
  BY <1>1, <1>2, UpdatesFacts DEF Fields
<1>5. row' \in [Resources -> Row]
  BY <1>1, <1>3, <1>4
<1>6. \A x \in live : row[x]["paused"] # Nil => row'[x]["paused"] # Nil
  BY <1>1, <1>3, <1>4
<1> QED BY <1>3, <1>5, <1>6

LEMMA PingKeeps ==
    ASSUME EditAssumption, EditInv, NEW r \in Clients, NEW p \in Pings, Ping(r, p)
    PROVE  EditInv' /\ \A x \in live : row[x]["paused"] # Nil => row'[x]["paused"] # Nil
<1> USE DEF EditInv, EditTypeOK, NoResurrection
<1> DEFINE id  == op[r].id
           new == [copy[r] EXCEPT !["status"] = p.status, !["checked"] = p.at,
                      !["seen"] = IF p.status = "available" THEN p.at ELSE @]
<1>1. id \in Resources
  BY DEF EditAssumption, Ping
<1>2. new \in Row
  BY DEF EditAssumption, Row, Fields
<1>3. /\ row' = IF id \in live THEN [row EXCEPT ![id] = Updates(@, new)] ELSE row
      /\ copy' = [copy EXCEPT ![r] = new]
      /\ UNCHANGED <<live, removed, pc, op, prev>>
  BY DEF Ping
<1> HIDE DEF new
<1>4. /\ Updates(row[id], new) \in Row
      /\ (row[id]["paused"] # Nil => Updates(row[id], new)["paused"] # Nil)
  BY <1>1, <1>2, UpdatesFacts DEF Row, Fields
<1> QED BY <1>1, <1>2, <1>3, <1>4

LEMMA PauseKeeps ==
    ASSUME EditAssumption, EditInv, NEW r \in Clients, Pause(r)
    PROVE  EditInv' /\ \A x \in live : row[x]["paused"] # Nil => row'[x]["paused"] # Nil
<1> USE DEF EditInv, EditTypeOK, NoResurrection
<1>1. \A x \in Resources : [row[x] EXCEPT !["paused"] = "paused"] \in Row
  BY DEF EditAssumption, Row
<1>2. row' \in [Resources -> Row]
  BY <1>1 DEF Pause
<1>3. \A x \in live : row[x]["paused"] # Nil => row'[x]["paused"] # Nil
  BY DEF EditAssumption, Pause, Row, Fields
<1> QED BY <1>2, <1>3 DEF Pause, GoTo

LEMMA UnpauseKeeps ==
    ASSUME EditAssumption, EditInv, NEW r \in Clients, Unpause(r)
    PROVE  /\ EditInv'
           /\ pc[r] = "unpause"
           /\ \A x \in live \ Under(op[r].id) : row'[x] = row[x]
<1> USE DEF EditInv, EditTypeOK, NoResurrection
<1>1. \A x \in Resources : [row[x] EXCEPT !["paused"] = Nil] \in Row
  BY DEF Row
<1>2. row' \in [Resources -> Row]
  BY <1>1 DEF Unpause
<1> QED BY <1>2 DEF Unpause, GoTo

(* The steps that write no row.                                            *)
LEMMA OthersKeep ==
    ASSUME EditAssumption, EditInv,
           \/ \E r \in Clients : \/ Load(r) \/ Validate(r) \/ EndCheck(r)
                                  \/ \E o \in Operations : Begin(r, o)
           \/ \E x \in Resources : Remove(x)
           \/ UNCHANGED editVars
    PROVE  EditInv' /\ row' = row
<1> USE DEF EditInv, EditTypeOK, NoResurrection
<1>1. ASSUME NEW r \in Clients, Load(r)
      PROVE  EditInv' /\ row' = row
  <2>1. op[r] \in Operations
    BY <1>1 DEF Load
  <2>2. copy' \in [Clients -> Row] /\ prev' \in [Clients -> Values \cup {Nil}]
    <3>1. CASE op[r].id \in live /\ copy' = [copy EXCEPT ![r] = row[op[r].id]]
               /\ prev' = [prev EXCEPT ![r] = row[op[r].id]["status"]]
      <4>1. row[op[r].id] \in Row
        BY <3>1
      <4>2. row[op[r].id]["status"] \in Values \cup {Nil}
        BY <4>1 DEF Row, Fields
      <4> QED BY <3>1, <4>1, <4>2
    <3>2. CASE UNCHANGED <<copy, prev>>
      BY <3>2
    <3> QED BY <1>1, <3>1, <3>2 DEF Load
  <2>3. CASE pc' = [pc EXCEPT ![r] = "validate"] /\ op[r].id \in Sources
    BY <1>1, <2>1, <2>2, <2>3 DEF Load
  <2>4. CASE \E how \in {"refused", "pause", "unpause", "ping", "write"} :
                pc' = [pc EXCEPT ![r] = how]
    BY <1>1, <2>1, <2>2, <2>4 DEF Load
  <2>5. op[r].kind \in Kinds
    BY <2>1 DEF EditAssumption
  <2> QED BY <1>1, <2>3, <2>4, <2>5 DEF Load, GoTo
<1>2. ASSUME NEW r \in Clients, Validate(r) \/ EndCheck(r)
      PROVE  EditInv' /\ row' = row
  BY <1>2 DEF Validate, EndCheck, GoTo
<1>3. ASSUME NEW r \in Clients, NEW o \in Operations, Begin(r, o)
      PROVE  EditInv' /\ row' = row
  BY <1>3 DEF EditAssumption, Begin
<1>4. ASSUME NEW x \in Resources, Remove(x)
      PROVE  EditInv' /\ row' = row
  BY <1>4 DEF Remove, Under, Resources
<1>5. CASE UNCHANGED editVars
  BY <1>5 DEF editVars
<1> QED BY <1>1, <1>2, <1>3, <1>4, <1>5

LEMMA StepInv ==
    ASSUME EditAssumption, EditInv, [NextEdit]_editVars
    PROVE  EditInv'
BY InsertKeeps, WriteKeeps, PropagateKeeps, PingKeeps, PauseKeeps, UnpauseKeeps, OthersKeep
   DEF NextEdit, EditStep, Resting

(* A request that read a row before a cascade deleted it does not bring it *)
(* back when it writes the struct, whatever else runs: an UPDATE of no row *)
(* inserts none. Every row and every request keeps its type.               *)
THEOREM EditSafe == SpecEdit => []EditInv
BY EditAssumption, InitInv, StepInv, PTL DEF SpecEdit

LEMMA StepPause ==
    ASSUME EditAssumption, EditInv, [NextEdit]_editVars, NEW x \in live,
           row[x]["paused"] # Nil, row'[x]["paused"] = Nil
    PROVE  \E r \in Clients : pc[r] = "unpause" /\ x \in Under(op[r].id)
BY InsertKeeps, WriteKeeps, PropagateKeeps, PingKeeps, PauseKeeps, UnpauseKeeps, OthersKeep
   DEF NextEdit, EditStep, Resting

(* Only an unpause request resumes a paused resource: a PATCH, a check or  *)
(* a propagation that read the row before the pause leaves it paused when  *)
(* it writes the whole struct back.                                        *)
THEOREM PauseSafe == SpecEdit => PauseSticks
<1>1. EditInv /\ [NextEdit]_editVars =>
         [\A x \in live : row[x]["paused"] # Nil /\ row'[x]["paused"] = Nil =>
            \E r \in Clients : pc[r] = "unpause" /\ x \in Under(op[r].id)]_editVars
  BY EditAssumption, StepPause
<1> QED BY <1>1, EditSafe, PTL DEF SpecEdit, PauseSticks

-----------------------------------------------------------------------------
(* The parts of VaultInv that the others rest on.                          *)
VInner ==
    /\ TypeOK /\ BackOnlyIfRaced /\ WrittenIsKept /\ ListingCovers
    /\ NamedKnown /\ PairsRaced /\ CopyFresh /\ CopiesAgree
    /\ ListingsSteady /\ CascadesSteady /\ LeftToCascades

\* The fields that an order of each kind has.
LEMMA VOrderFields ==
    ASSUME NEW o \in Orders
    PROVE  /\ o.kind \in {"create", "edit", "report", "delete", "list", "cascade"}
           /\ o.kind \in {"edit", "report", "delete"} => o.uid \in Uids
           /\ o.kind \in {"create", "edit"} => o.name \in Names
           /\ o.kind = "report" => o.status \in Statuses /\ o.error \in Errors
           /\ o.kind \in {"create", "cascade"} => o.of \in Resources
           /\ o.kind = "list" => o.of \in Resources \cup {Nil}
BY DEF Orders

\* What a request at work has the type of.
LEMMA VWorkingFields ==
    ASSUME VaultAssumption, TypeOK, NEW q \in Requests, Active(q)
    PROVE  /\ req[q] \in Working
           /\ req[q].order \in Orders
           /\ req[q].copy \in Secrets \cup {Nil}
           /\ req[q].todo \subseteq Uids /\ req[q].found \subseteq Uids
           /\ req[q].there \subseteq Uids
           /\ PcOK(req[q].pc, req[q].order.kind)
<1>1. req[q] \in Working \cup {Idle} BY DEF TypeOK
<1>2. req[q] \in Working BY <1>1 DEF Active, Idle
<1>3. req[q].order \in UNION Workloads BY <1>2 DEF Working
<1>4. req[q].order \in Orders BY <1>3 DEF VaultAssumption
<1> QED BY <1>2, <1>4 DEF Working, TypeOK

\* A step of q changes what q does and nothing of what the others do.
LEMMA VBecomes ==
    ASSUME TypeOK, NEW q \in Requests, NEW r, Becomes(q, r)
    PROVE  /\ req'[q] = r
           /\ \A p \in Requests : p # q => req'[p] = req[p]
           /\ DOMAIN req' = Requests
BY DEF TypeOK, Becomes

LEMMA VReqType ==
    ASSUME TypeOK, NEW q \in Requests, NEW r \in Working \cup {Idle}, Becomes(q, r),
           r.pc # "idle" => PcOK(r.pc, r.order.kind)
    PROVE  /\ req' \in [Requests -> Working \cup {Idle}]
           /\ \A p \in Requests : Active(p)' => PcOK(req'[p].pc, req'[p].order.kind)
<1>1. /\ req'[q] = r
      /\ \A p \in Requests : p # q => req'[p] = req[p]
  BY VBecomes
<1>2. req' \in [Requests -> Working \cup {Idle}]
  BY DEF TypeOK, Becomes
<1>3. ASSUME NEW p \in Requests, Active(p)'
      PROVE  PcOK(req'[p].pc, req'[p].order.kind)
  <2>1. CASE p = q BY <1>1, <1>3, <2>1 DEF Active
  <2>2. CASE p # q BY <1>1, <1>3, <2>2 DEF Active, TypeOK
  <2> QED BY <2>1, <2>2
<1> QED BY <1>2, <1>3

\* A secret changed in memory is still one, of the same resource and source.
LEMMA VChanged ==
    ASSUME VaultAssumption, NEW s \in Secrets, NEW o \in Orders, o.kind \in {"edit", "report"}
    PROVE  /\ Changed(o, s) \in Secrets
           /\ Changed(o, s).of = s.of /\ Changed(o, s).source = s.source
           /\ \A x : Fits(x, s) => Fits(x, Changed(o, s))
<1>1. /\ o.kind = "edit" => o.name \in Names
      /\ o.kind = "report" => o.status \in Statuses /\ o.error \in Errors
  BY VOrderFields
<1>2. /\ Changed(o, s) \in Secrets
      /\ Changed(o, s).of = s.of /\ Changed(o, s).source = s.source
  BY <1>1 DEF Changed, Secrets
<1> QED BY <1>2 DEF Fits

\* What is read of a secret is one, of the same resource and source.
LEMMA VFromVault ==
    ASSUME VaultAssumption, NEW s \in Secrets
    PROVE  /\ FromVault(s) \in Secrets
           /\ FromVault(s).of = s.of /\ FromVault(s).source = s.source
           /\ \A x : Fits(x, s) => Fits(x, FromVault(s))
<1>1. /\ FromVault(s) \in Secrets
      /\ FromVault(s).of = s.of /\ FromVault(s).source = s.source
  BY DEF FromVault, Secrets
<1> QED BY <1>1 DEF Fits

LEMMA VMarked ==
    ASSUME NEW w \in Contents, NEW o \in Orders, o.kind \in {"edit", "report"}
    PROVE  Changed(o, FromVault(w)) \in Contents
<1>1. /\ o.kind = "edit" => o.name \in Names
      /\ o.kind = "report" => o.status \in Statuses /\ o.error \in Errors
  BY VOrderFields
<1> QED BY <1>1 DEF Changed, FromVault, Contents

\* What is written of a secret that was read and changed.
LEMMA VContent ==
    ASSUME NEW s \in Secrets, NEW o
    PROVE  Content(Changed(o, FromVault(s))) = Changed(o, FromVault(Content(s)))
<1>1. CASE o.kind = "edit" BY <1>1 DEF Content, Changed, FromVault, Secrets
<1>2. CASE o.kind # "edit" BY <1>2 DEF Content, Changed, FromVault, Secrets
<1> QED BY <1>1, <1>2

LEMMA VInit == ASSUME VaultAssumption, Init PROVE VInner /\ NothingLeftBehind
<1>1. \A q \in Requests : req[q] = [pc |-> "idle"] BY DEF Init, Idle
<1>2. TypeOK
  <2>1. wrote \in [DOMAIN secrets \cup gone -> Contents]
    BY DEF Init, VaultAssumption, Secrets, Content, Contents
  <2> QED BY <1>1, <2>1 DEF Init, TypeOK, VaultAssumption, Idle, Active
<1>3. BackOnlyIfRaced /\ WrittenIsKept BY DEF Init, BackOnlyIfRaced, WrittenIsKept
<1>4. /\ ListingCovers /\ NamedKnown /\ PairsRaced /\ CopyFresh /\ CopiesAgree
      /\ ListingsSteady /\ CascadesSteady
  BY <1>1 DEF ListingCovers, NamedKnown, PairsRaced, CopyFresh, CopiesAgree, ListingsSteady,
              CascadesSteady, Active, Named
<1>5. \A u \in DOMAIN secrets : secrets[u].of \in rows
  BY DEF Init, VaultAssumption, Secrets
<1> QED BY <1>2, <1>3, <1>4, <1>5 DEF VInner, LeftToCascades, NothingLeftBehind
-----------------------------------------------------------------------------
\* Steps that only change what a request is doing.
LEMMA VQuietType ==
    ASSUME VaultAssumption, TypeOK, NEW q \in Requests, NEW r \in Working \cup {Idle},
           Becomes(q, r), r.pc # "idle" => PcOK(r.pc, r.order.kind),
           UNCHANGED <<rows, secrets, history, workload>>
    PROVE  TypeOK'
<1>1. /\ req' \in [Requests -> Working \cup {Idle}]
      /\ \A p \in Requests : Active(p)' => PcOK(req'[p].pc, req'[p].order.kind)
  BY VReqType
<1>2. /\ rows' = rows /\ secrets' = secrets /\ gone' = gone /\ raced' = raced
      /\ strays' = strays /\ wrote' = wrote /\ clean' = clean /\ workload' = workload
  BY DEF history
<1> QED BY <1>1, <1>2 DEF TypeOK

LEMMA VIdle == Idle.pc = "idle" /\ Idle \in Working \cup {Idle}
BY DEF Idle

\* The requests after a step of q that ends it.
LEMMA VEndType ==
    ASSUME TypeOK, NEW q \in Requests, End(q)
    PROVE  /\ req' \in [Requests -> Working \cup {Idle}]
           /\ \A p \in Requests : Active(p)' => PcOK(req'[p].pc, req'[p].order.kind)
<1>1. Becomes(q, Idle) BY DEF End
<1> QED BY <1>1, VIdle, VReqType

LEMMA VDieType ==
    ASSUME Die
    PROVE  /\ req' \in [Requests -> Working \cup {Idle}]
           /\ \A p \in Requests : ~Active(p)'
           /\ clean' = FALSE
BY DEF Die, Idle, Active

LEMMA VRefuseType ==
    ASSUME VaultAssumption, TypeOK, NEW q \in Requests, Refuse(q), workload' = workload
    PROVE  TypeOK'
<1>1. Becomes(q, Idle) /\ UNCHANGED <<rows, secrets, history, workload>> BY DEF Refuse, End
<1> QED BY <1>1, VIdle, VQuietType

LEMMA VFitsSets ==
    ASSUME VaultAssumption, TypeOK
    PROVE  /\ \A x : ListKeys(x) \subseteq Uids
           /\ \A S : FindKeys(S) \subseteq Uids
BY DEF TypeOK, ListKeys, WithPrefix, FindKeys

LEMMA VStepType ==
    ASSUME VaultAssumption, TypeOK, CopyFresh, NamedKnown,
           NEW q \in Requests, Step(q), workload' = workload
    PROVE  TypeOK'
<1> DEFINE o == req[q].order
<1>1. Active(q)
  BY DEF Step, CheckResource, WriteNew, FindKey, ReadKey, WriteBack, LoadSource, DropKey,
         CheckListed, AnswerList, DeleteRows, ListIdsForResource, EndCascade, ReadEach,
         ReadListed, WipeEach, Fail, At, Active
<1>2. /\ req[q] \in Working /\ o \in Orders
      /\ req[q].copy \in Secrets \cup {Nil}
      /\ req[q].todo \subseteq Uids /\ req[q].found \subseteq Uids
      /\ PcOK(req[q].pc, o.kind)
  BY <1>1, VWorkingFields
<1>3. ASSUME NEW to \in {"write", "read", "drop"}, Checked(q, to), PcOK(to, o.kind)
      PROVE  TypeOK'
  <2> DEFINE r == [req[q] EXCEPT !.pc = to]
  <2>1. /\ r \in Working /\ r.pc = to /\ r.order = o
    BY <1>2, <1>3 DEF Working
  <2>2. Becomes(q, r) /\ UNCHANGED <<rows, secrets, history, workload>>
    BY <1>3 DEF Checked
  <2> HIDE DEF r
  <2> QED BY <2>1, <2>2, <1>3, VQuietType
<1>4. CASE CheckResource(q)
  BY <1>3, <1>4, VRefuseType DEF CheckResource, At, PcOK
<1>5. CASE WriteNew(q)
  <2>1. CASE Refuse(q) BY <2>1, VRefuseType
  <2>2. ASSUME NEW u \in Uids \ (DOMAIN secrets \cup gone),
               secrets' = With(secrets, u,
                 [of |-> o.of, source |-> SourceOfResource(o.of),
                  name |-> o.name, status |-> Nil, error |-> Nil]),
               wrote' = With(wrote, u, [name |-> o.name, status |-> Nil, error |-> Nil]),
               strays' = IF o.of \in rows THEN strays ELSE strays \cup {u},
               End(q), UNCHANGED <<rows, gone, raced, clean>>, o.kind = "create"
        PROVE  TypeOK'
    <3>1. o.of \in Resources /\ o.name \in Names BY <1>2, <2>2, VOrderFields
    <3>2. SourceOfResource(o.of) \in Sources
      BY <3>1, ResourceAssumption DEF SourceOfResource, Resources
    <3>3. [of |-> o.of, source |-> SourceOfResource(o.of), name |-> o.name, status |-> Nil,
           error |-> Nil] \in Secrets
      BY <3>1, <3>2 DEF Secrets
    <3>4. [name |-> o.name, status |-> Nil, error |-> Nil] \in Contents
      BY <3>1 DEF Contents
    <3>5. /\ secrets' \in [DOMAIN secrets \cup {u} -> Secrets]
          /\ DOMAIN secrets' = DOMAIN secrets \cup {u}
      BY <3>3, <2>2 DEF With, TypeOK
    <3>6. wrote' \in [DOMAIN secrets \cup gone \cup {u} ->
                        Contents]
      BY <3>4, <2>2 DEF With, TypeOK
    <3> QED BY <2>2, <3>5, <3>6, VEndType DEF TypeOK
  <2> QED BY <1>5, <2>1, <2>2 DEF WriteNew, At
<1>6. CASE FindKey(q)
  BY <1>3, <1>6, VRefuseType DEF FindKey, PcOK
<1>7. CASE ReadKey(q)
  <2>1. CASE Refuse(q) BY <2>1, VRefuseType
  <2>2. CASE o.uid \in DOMAIN secrets /\ ~Refuse(q)
    <3> DEFINE r == [req[q] EXCEPT !.pc = "change", !.copy = FromVault(secrets[o.uid])]
    <3>1. FromVault(secrets[o.uid]) \in Secrets BY <2>2, VFromVault DEF TypeOK
    <3>2. o.kind \in {"edit", "report"}
      BY <1>2, <1>7, VOrderFields DEF ReadKey, PcOK
    <3>3. r \in Working /\ r.pc = "change" /\ r.order = o /\ PcOK("change", o.kind)
      BY <1>2, <3>1, <3>2 DEF Working, PcOK
    <3>4. Becomes(q, r) /\ UNCHANGED <<rows, secrets, history, workload>>
      BY <1>7, <2>2 DEF ReadKey
    <3> HIDE DEF r
    <3> QED BY <3>3, <3>4, VQuietType
  <2> QED BY <1>7, <2>1, <2>2 DEF ReadKey
<1>8. CASE WriteBack(q)
  <2> DEFINE r == [req[q] EXCEPT !.pc = "source"]
             u == o.uid
  <2>1. req[q].pc = "change" /\ req[q].copy \in Secrets BY <1>8 DEF WriteBack, CopyFresh
  <2>2. o.kind \in {"edit", "report"} BY <1>2, <2>1, VOrderFields DEF PcOK
  <2>3. r \in Working /\ r.pc = "source" /\ r.order = o /\ PcOK("source", o.kind)
    BY <1>2, <2>2 DEF Working, PcOK
  <2>4. Changed(o, req[q].copy) \in Secrets BY <1>2, <2>1, <2>2, VChanged
  <2>5. u \in DOMAIN secrets \cup gone /\ u \in Uids
    BY <1>1, <1>2, <2>2, VOrderFields DEF NamedKnown, Known, Named
  <2>6. Changed(o, FromVault(wrote[u])) \in Contents
    BY <1>2, <2>2, <2>5, VMarked DEF TypeOK
  <2>7. /\ Becomes(q, r)
        /\ secrets' = With(secrets, u, Changed(o, req[q].copy))
        /\ wrote' = With(wrote, u, Changed(o, FromVault(wrote[u])))
        /\ strays' \subseteq strays \cup {u}
        /\ rows' = rows /\ gone' = gone /\ raced' = raced /\ clean' = clean
    BY <1>8 DEF WriteBack
  <2>8. /\ req' \in [Requests -> Working \cup {Idle}]
        /\ \A p \in Requests : Active(p)' => PcOK(req'[p].pc, req'[p].order.kind)
    <3> HIDE DEF r
    <3> QED BY <2>3, <2>7, VReqType
  <2> DEFINE s == Changed(o, req[q].copy)
             w == Changed(o, FromVault(wrote[u]))
  <2>9. /\ secrets' \in [DOMAIN secrets \cup {u} -> Secrets]
        /\ DOMAIN secrets' = DOMAIN secrets \cup {u}
    <3>1. s \in Secrets /\ secrets' = With(secrets, u, s) BY <2>4, <2>7
    <3> HIDE DEF s
    <3> QED BY <3>1 DEF With, TypeOK
  <2>10. wrote' \in [DOMAIN secrets \cup gone -> Contents]
    <3>1. w \in Contents /\ wrote' = With(wrote, u, w)
      BY <2>6, <2>7
    <3>2. wrote' \in [DOMAIN secrets \cup gone \cup {u} ->
                        Contents]
      <4> HIDE DEF w, u
      <4> QED BY <3>1 DEF With, TypeOK
    <3>3. DOMAIN secrets \cup gone \cup {u} = DOMAIN secrets \cup gone
      BY <2>5
    <3> HIDE DEF u, w
    <3> QED BY <3>2, <3>3, Zenon
  <2> HIDE DEF u, r
  <2>11. DOMAIN secrets' \cup gone' = DOMAIN secrets \cup gone
    BY <2>5, <2>7, <2>9
  <2>12. wrote' \in [DOMAIN secrets' \cup gone' -> Contents]
    BY <2>10, <2>11
  <2>13. secrets' \in [DOMAIN secrets' -> Secrets] /\ DOMAIN secrets' \subseteq Uids
    BY <2>5, <2>9 DEF TypeOK
  <2>14. strays' \subseteq Uids BY <2>5, <2>7 DEF TypeOK
  <2> QED BY <2>7, <2>8, <2>12, <2>13, <2>14 DEF TypeOK
<1>9. CASE LoadSource(q) BY <1>9, VRefuseType DEF LoadSource
<1>10. CASE DropKey(q)
  <2> DEFINE u == o.uid
  <2>1. o.kind = "delete" BY <1>10 DEF DropKey, At
  <2>2. u \in DOMAIN secrets \cup gone /\ u \in Uids
    BY <1>1, <1>2, <2>1, VOrderFields DEF NamedKnown, Known, Named
  <2>3. /\ secrets' = Without(u) /\ gone' = gone \cup {u} /\ End(q)
        /\ rows' = rows /\ raced' = raced /\ strays' = strays /\ wrote' = wrote /\ clean' = clean
    BY <1>10 DEF DropKey
  <2> HIDE DEF u
  <2>4. /\ secrets' \in [DOMAIN secrets \ {u} -> Secrets]
        /\ DOMAIN secrets' = DOMAIN secrets \ {u}
    BY <2>3 DEF Without, TypeOK
  <2>5. DOMAIN secrets' \cup gone' = DOMAIN secrets \cup gone
    BY <2>2, <2>3, <2>4
  <2> QED BY <2>2, <2>3, <2>4, <2>5, VEndType DEF TypeOK
<1>11. CASE CheckListed(q)
  <2>1. CASE Refuse(q) BY <2>1, VRefuseType
  <2>2. CASE ~Refuse(q)
    <3> DEFINE R(page) == [req[q] EXCEPT !.pc = "each", !.todo = page,
                             !.there = IF o.of = Nil THEN @ \cap page ELSE @]
    <3>1. PICK page \in Pages(o.of) : Becomes(q, R(page)) /\ UNCHANGED <<rows, secrets, history>>
      BY <1>11, <2>2 DEF CheckListed
    <3> DEFINE r == R(page)
    <3>2. page \subseteq Uids BY VFitsSets DEF Pages
    <3>3. r \in Working /\ r.pc = "each" /\ r.order = o /\ PcOK("each", o.kind)
      BY <1>2, <1>11, <3>2 DEF Working, PcOK, CheckListed, At
    <3>4. Becomes(q, r) BY <3>1
    <3> HIDE DEF r
    <3> QED BY <3>1, <3>3, <3>4, VQuietType
  <2> QED BY <2>1, <2>2
<1>12. CASE AnswerList(q) BY <1>12, VRefuseType DEF AnswerList
<1>13. CASE DeleteRows(q)
  <2>1. CASE Refuse(q) BY <2>1, VRefuseType
  <2>2. CASE ~Refuse(q)
    <3> DEFINE r == [req[q] EXCEPT !.pc = "ids"]
    <3>1. r \in Working /\ r.pc = "ids" /\ r.order = o /\ PcOK("ids", o.kind)
      BY <1>2, <1>13 DEF Working, PcOK, DeleteRows, At
    <3>2. /\ Becomes(q, r) /\ rows' = rows \ Under(o.of)
          /\ secrets' = secrets /\ gone' = gone /\ raced' = raced
          /\ strays' = strays /\ wrote' = wrote /\ clean' = clean
      BY <1>13, <2>2 DEF DeleteRows, history
    <3>3. /\ req' \in [Requests -> Working \cup {Idle}]
          /\ \A p \in Requests : Active(p)' => PcOK(req'[p].pc, req'[p].order.kind)
      <4> HIDE DEF r
      <4> QED BY <3>1, <3>2, VReqType
    <3> QED BY <3>2, <3>3 DEF TypeOK
  <2> QED BY <2>1, <2>2
<1>14. CASE ListIdsForResource(q)
  <2> DEFINE r == [req[q] EXCEPT !.pc = "skim", !.todo = FindKeys(Under(o.of))]
  <2>1. r \in Working /\ r.pc = "skim" /\ r.order = o /\ PcOK("skim", o.kind)
    BY <1>2, <1>14, VFitsSets DEF Working, PcOK, ListIdsForResource, At
  <2>2. Becomes(q, r) /\ UNCHANGED <<rows, secrets, history, workload>>
    BY <1>14 DEF ListIdsForResource
  <2> HIDE DEF r
  <2> QED BY <2>1, <2>2, VQuietType
<1>15. CASE EndCascade(q) BY <1>15, VRefuseType DEF EndCascade
<1>16. ASSUME NEW u \in Uids, ReadEach(q, u) PROVE TypeOK'
  <2>1. CASE Refuse(q) BY <2>1, VRefuseType
  <2>2. CASE ~Refuse(q)
    <3> DEFINE r == [req[q] EXCEPT !.todo = @ \ {u},
                       !.found = IF Wanted(o.of, u) THEN @ \cup {u} ELSE @]
    <3>1. r \in Working /\ r.pc = "each" /\ r.order = o /\ PcOK("each", o.kind)
      BY <1>2, <1>16 DEF Working, PcOK, ReadEach, At
    <3>2. Becomes(q, r) /\ UNCHANGED <<rows, secrets, history, workload>>
      BY <1>16, <2>2 DEF ReadEach
    <3> HIDE DEF r
    <3> QED BY <3>1, <3>2, VQuietType
  <2> QED BY <2>1, <2>2
<1>17. ASSUME NEW u \in Uids, ReadListed(q, u) PROVE TypeOK'
  <2> DEFINE r == [req[q] EXCEPT !.todo = @ \ {u},
                     !.found = IF u \in DOMAIN secrets THEN @ \cup {u} ELSE @,
                     !.pc = IF req[q].todo = {u} THEN "wipe" ELSE @]
  <2>1. o.kind = "cascade" BY <1>2, <1>17, VOrderFields DEF ReadListed, PcOK
  <2>2. r \in Working /\ r.pc \in {"skim", "wipe"} /\ r.order = o /\ PcOK(r.pc, o.kind)
    BY <1>2, <1>17, <2>1 DEF Working, PcOK, ReadListed
  <2>3. Becomes(q, r) /\ UNCHANGED <<rows, secrets, history, workload>>
    BY <1>17 DEF ReadListed
  <2> HIDE DEF r
  <2> QED BY <2>2, <2>3, VQuietType
<1>18. ASSUME NEW u \in Uids, WipeEach(q, u) PROVE TypeOK'
  <2> DEFINE r == [req[q] EXCEPT !.found = @ \ {u}]
  <2>1. r \in Working /\ r.pc = "wipe" /\ r.order = o /\ PcOK("wipe", o.kind)
    BY <1>2, <1>18 DEF Working, PcOK, WipeEach
  <2>2. /\ rows' = rows /\ raced' = raced /\ strays' = strays /\ wrote' = wrote
        /\ \/ secrets' = secrets /\ gone' = gone
           \/ u \in DOMAIN secrets /\ secrets' = Without(u) /\ gone' = gone \cup {u}
    BY <1>18 DEF WipeEach
  <2>3. Die \/ (Becomes(q, r) /\ clean' = clean) BY <1>18 DEF WipeEach
  <2>4. /\ req' \in [Requests -> Working \cup {Idle}]
        /\ \A p \in Requests : Active(p)' => PcOK(req'[p].pc, req'[p].order.kind)
        /\ clean' \in BOOLEAN
    <3> HIDE DEF r
    <3>1. CASE Die BY <3>1, VDieType
    <3>2. CASE Becomes(q, r) /\ clean' = clean
      BY <2>1, <3>2, VReqType DEF TypeOK
    <3> QED BY <2>3, <3>1, <3>2
  <2>5. /\ secrets' \in [DOMAIN secrets' -> Secrets] /\ DOMAIN secrets' \subseteq Uids
        /\ DOMAIN secrets' \cup gone' = DOMAIN secrets \cup gone /\ gone' \subseteq Uids
    BY <2>2 DEF Without, TypeOK
  <2> QED BY <2>2, <2>4, <2>5 DEF TypeOK
<1>19. CASE Fail(q)
  <2>1. /\ rows' = rows /\ secrets' = secrets /\ gone' = gone /\ raced' = raced
        /\ strays' = strays /\ wrote' = wrote
        /\ Die \/ (End(q) /\ clean' = FALSE)
    BY <1>19 DEF Fail
  <2>2. /\ req' \in [Requests -> Working \cup {Idle}]
        /\ \A p \in Requests : Active(p)' => PcOK(req'[p].pc, req'[p].order.kind)
        /\ clean' = FALSE
    BY <2>1, VDieType, VEndType
  <2> QED BY <2>1, <2>2 DEF TypeOK
<1> QED
  BY <1>4, <1>5, <1>6, <1>7, <1>8, <1>9, <1>10, <1>11, <1>12, <1>13, <1>14, <1>15, <1>16,
     <1>17, <1>18, <1>19 DEF Step

LEMMA VReceiveType ==
    ASSUME VaultAssumption, TypeOK, NEW q \in Requests, NEW o \in workload, Receive(q, o),
           workload' = workload
    PROVE  TypeOK'
<1> DEFINE there == IF o.kind = "list" THEN {u \in DOMAIN secrets : Fits(o, secrets[u])} ELSE {}
           r == [pc |-> "start", order |-> o, copy |-> Nil, todo |-> {}, found |-> {},
                 there |-> there]
<1>1. o \in UNION Workloads /\ o \in Orders BY DEF TypeOK, VaultAssumption
<1>2. there \subseteq Uids BY DEF TypeOK
<1>3. r \in Working /\ r.pc = "start" /\ r.order = o
  <2> HIDE DEF there
  <2> QED BY <1>1, <1>2 DEF Working
<1>4. PcOK("start", o.kind) BY <1>1, VOrderFields DEF PcOK
<1>5. /\ Becomes(q, r) /\ rows' = rows /\ secrets' = secrets /\ gone' = gone
      /\ raced' \subseteq raced \cup Uids /\ strays' = strays /\ wrote' = wrote /\ clean' = clean
  BY DEF Receive
<1>6. /\ req' \in [Requests -> Working \cup {Idle}]
      /\ \A p \in Requests : Active(p)' => PcOK(req'[p].pc, req'[p].order.kind)
  <2> HIDE DEF r
  <2> QED BY <1>3, <1>4, <1>5, VReqType
<1> QED BY <1>5, <1>6 DEF TypeOK
-----------------------------------------------------------------------------
\* What a step of q leaves of the state, whichever it is.
VGrows ==
    /\ gone \subseteq gone' /\ raced' = raced /\ rows' \subseteq rows
    /\ DOMAIN secrets \cup gone \subseteq DOMAIN secrets' \cup gone'
    /\ DOMAIN secrets' \cap (gone' \ gone) = {}

VOthers(q) ==
    /\ clean' => clean
    /\ \A p \in Requests : p # q => req'[p] = req[p] \/ (~Active(p)' /\ ~clean')

VSameOrders ==
    \A p \in Requests : Active(p)' =>
        Active(p) /\ req'[p].order = req[p].order /\ req'[p].there \subseteq req[p].there

VCopies ==
    \A p \in Requests : req'[p].pc = "change" =>
        \/ req[p].pc = "change" /\ req'[p].copy = req[p].copy
        \/ /\ req[p].pc = "read" /\ secrets' = secrets
           /\ req[p].order.uid \in DOMAIN secrets
           /\ req'[p].copy = FromVault(secrets[req[p].order.uid])

VKeeps(u) == u \in DOMAIN secrets /\ secrets'[u] = secrets[u] /\ wrote'[u] = wrote[u]

VCreates(u) ==
    /\ u \notin DOMAIN secrets \cup gone
    /\ wrote'[u] = Content(secrets'[u])

VWritesBack(q, u) ==
    /\ req[q].pc = "change" /\ req'[q].pc = "source" /\ u = req[q].order.uid
    /\ secrets'[u] = Changed(req[q].order, req[q].copy)
    /\ wrote'[u] = Changed(req[q].order, FromVault(wrote[u]))

VDrops(q, u) ==
    /\ req'[q].pc # "change"
    /\ \/ At(q, "delete", "drop") /\ u = req[q].order.uid
       \/ req[q].pc = "wipe" /\ u \in req[q].found

VSecrets(q) ==
    /\ \A u \in DOMAIN secrets' : VKeeps(u) \/ VCreates(u) \/ VWritesBack(q, u)
    /\ \A u \in DOMAIN secrets \ DOMAIN secrets' : VDrops(q, u)

VFrame(q) == VGrows /\ VOthers(q) /\ VSameOrders /\ VCopies /\ VSecrets(q)

\* Steps that only change what a request is doing, and do not read a secret.
LEMMA VFrameQuiet ==
    ASSUME TypeOK, NEW q \in Requests, Active(q), NEW r, Becomes(q, r),
           UNCHANGED <<rows, secrets, gone, raced, strays, wrote>>, clean' => clean,
           \/ r = Idle
           \/ r.order = req[q].order /\ r.there \subseteq req[q].there /\ r.pc # "change"
    PROVE  VFrame(q)
<1>1. req'[q] = r /\ \A p \in Requests : p # q => req'[p] = req[p] BY VBecomes
<1>2. r = Idle => r.pc = "idle" BY DEF Idle
<1>3. VGrows /\ VSecrets(q) BY DEF VGrows, VSecrets, VKeeps
<1>4. VOthers(q) BY <1>1 DEF VOthers
<1>5. VSameOrders /\ VCopies BY <1>1, <1>2 DEF VSameOrders, VCopies, Active
<1> QED BY <1>3, <1>4, <1>5 DEF VFrame

LEMMA VFrameRefuse ==
    ASSUME TypeOK, NEW q \in Requests, Active(q), Refuse(q)
    PROVE  VFrame(q)
<1>1. Becomes(q, Idle) /\ UNCHANGED <<rows, secrets, history>> BY DEF Refuse, End
<1> QED BY <1>1, VFrameQuiet DEF history

LEMMA VActive ==
    ASSUME NEW q, Step(q) PROVE Active(q)
BY DEF Step, CheckResource, WriteNew, FindKey, ReadKey, WriteBack, LoadSource, DropKey,
       CheckListed, AnswerList, DeleteRows, ListIdsForResource, EndCascade, ReadEach,
       ReadListed, WipeEach, Fail, At, Active

LEMMA VStepFrame ==
    ASSUME VaultAssumption, TypeOK, CopyFresh, NamedKnown, NEW q \in Requests, Step(q)
    PROVE  VFrame(q)
<1> DEFINE o == req[q].order
<1>1. Active(q) BY VActive
<1>2. /\ req[q] \in Working /\ o \in Orders
      /\ req[q].copy \in Secrets \cup {Nil}
      /\ req[q].todo \subseteq Uids /\ req[q].found \subseteq Uids
      /\ PcOK(req[q].pc, o.kind)
  BY <1>1, VWorkingFields
<1>3. ASSUME NEW to \in {"write", "read", "drop"}, Checked(q, to) PROVE VFrame(q)
  <2> DEFINE r == [req[q] EXCEPT !.pc = to]
  <2>1. r.order = o /\ r.there = req[q].there /\ r.pc = to BY <1>2 DEF Working
  <2>2. Becomes(q, r) /\ UNCHANGED <<rows, secrets, gone, raced, strays, wrote, clean>>
    BY <1>3 DEF Checked, history
  <2> HIDE DEF r
  <2> QED BY <1>1, <1>3, <2>1, <2>2, VFrameQuiet
<1>4. CASE CheckResource(q) BY <1>1, <1>3, <1>4, VFrameRefuse DEF CheckResource
<1>5. CASE WriteNew(q)
  <2>1. CASE Refuse(q) BY <1>1, <2>1, VFrameRefuse
  <2> DEFINE s == [of |-> o.of, source |-> SourceOfResource(o.of),
                   name |-> o.name, status |-> Nil, error |-> Nil]
             w == [name |-> o.name, status |-> Nil, error |-> Nil]
  <2>2. ASSUME NEW u \in Uids \ (DOMAIN secrets \cup gone),
               secrets' = With(secrets, u, s), wrote' = With(wrote, u, w),
               End(q), UNCHANGED <<rows, gone, raced, clean>>
        PROVE  VFrame(q)
    <3>1. w = Content(s) BY DEF Content
    <3>2. DOMAIN wrote = DOMAIN secrets \cup gone BY DEF TypeOK
    <3> HIDE DEF s, w
    <3>3. req'[q] = Idle /\ \A p \in Requests : p # q => req'[p] = req[p]
      BY <2>2, VBecomes DEF End
    <3>4. /\ DOMAIN secrets' = DOMAIN secrets \cup {u}
          /\ \A v \in DOMAIN secrets : v # u /\ secrets'[v] = secrets[v] /\ wrote'[v] = wrote[v]
          /\ secrets'[u] = s /\ wrote'[u] = w
      BY <2>2, <3>2 DEF With
    <3>5. Idle.pc = "idle" BY VIdle
    <3>6. VGrows BY <2>2, <3>4 DEF VGrows
    <3>7. VOthers(q) BY <2>2, <3>3 DEF VOthers
    <3>8. VSameOrders /\ VCopies BY <3>3, <3>5 DEF VSameOrders, VCopies, Active
    <3>9. VSecrets(q) BY <2>2, <3>1, <3>4 DEF VSecrets, VKeeps, VCreates
    <3> QED BY <3>6, <3>7, <3>8, <3>9 DEF VFrame
  <2> QED BY <1>5, <2>1, <2>2 DEF WriteNew
<1>6. CASE FindKey(q) BY <1>1, <1>3, <1>6, VFrameRefuse DEF FindKey
<1>7. CASE ReadKey(q)
  <2>1. CASE Refuse(q) BY <1>1, <2>1, VFrameRefuse
  <2>2. CASE ~Refuse(q)
    <3> DEFINE r == [req[q] EXCEPT !.pc = "change", !.copy = FromVault(secrets[o.uid])]
    <3>1. /\ r.pc = "change" /\ r.order = o /\ r.there = req[q].there
          /\ r.copy = FromVault(secrets[o.uid])
      BY <1>2 DEF Working
    <3>2. /\ Becomes(q, r) /\ UNCHANGED <<rows, secrets, gone, raced, strays, wrote, clean>>
          /\ req[q].pc = "read" /\ o.uid \in DOMAIN secrets
      BY <1>7, <2>2 DEF ReadKey, history
    <3> HIDE DEF r
    <3>3. req'[q] = r /\ \A p \in Requests : p # q => req'[p] = req[p] BY <3>2, VBecomes
    <3>4. VGrows /\ VSecrets(q) BY <3>2 DEF VGrows, VSecrets, VKeeps
    <3>5. VOthers(q) BY <3>2, <3>3 DEF VOthers
    <3>6. VSameOrders /\ VCopies BY <1>1, <3>1, <3>2, <3>3 DEF VSameOrders, VCopies, Active
    <3> QED BY <3>4, <3>5, <3>6 DEF VFrame
  <2> QED BY <2>1, <2>2
<1>8. CASE WriteBack(q)
  <2> DEFINE r == [req[q] EXCEPT !.pc = "source"]
             u == o.uid
             s == Changed(o, req[q].copy)
             w == Changed(o, FromVault(wrote[u]))
  <2>1. r.pc = "source" /\ r.order = o /\ r.there = req[q].there BY <1>2 DEF Working
  <2>2. o.kind \in {"edit", "report"} BY <1>2, <1>8, VOrderFields DEF PcOK, WriteBack
  <2>3. u \in DOMAIN secrets \cup gone BY <1>1, <2>2 DEF NamedKnown, Known, Named
  <2>4. /\ Becomes(q, r) /\ req[q].pc = "change"
        /\ secrets' = With(secrets, u, s)
        /\ wrote' = With(wrote, u, w)
        /\ rows' = rows /\ gone' = gone /\ raced' = raced /\ clean' = clean
    BY <1>8 DEF WriteBack
  <2>5. DOMAIN wrote = DOMAIN secrets \cup gone BY DEF TypeOK
  <2> HIDE DEF s, w, r
  <2>6. /\ DOMAIN secrets' = DOMAIN secrets \cup {u}
        /\ \A v \in DOMAIN secrets : v # u => secrets'[v] = secrets[v] /\ wrote'[v] = wrote[v]
        /\ secrets'[u] = s /\ wrote'[u] = w
    <3> HIDE DEF u
    <3> QED BY <2>4, <2>5 DEF With
  <2>7. req'[q] = r /\ \A p \in Requests : p # q => req'[p] = req[p] BY <2>4, VBecomes
  <2>8. \A v \in DOMAIN secrets' :
         \/ v \in DOMAIN secrets /\ secrets'[v] = secrets[v] /\ wrote'[v] = wrote[v]
         \/ v = u /\ secrets'[v] = Changed(o, req[q].copy) /\ wrote'[v] = Changed(o, FromVault(wrote[v]))
    BY <2>6 DEF s, w
  <2>9. VGrows
    <3> HIDE DEF u
    <3> QED BY <2>3, <2>4, <2>6 DEF VGrows
  <2>10. VOthers(q) BY <2>4, <2>7 DEF VOthers
  <2>11. VSameOrders /\ VCopies BY <1>1, <2>1, <2>7 DEF VSameOrders, VCopies, Active
  <2>12. VSecrets(q) BY <2>1, <2>4, <2>6, <2>7, <2>8 DEF VSecrets, VKeeps, VWritesBack
  <2> QED BY <2>9, <2>10, <2>11, <2>12 DEF VFrame
<1>9. CASE LoadSource(q) BY <1>1, <1>9, VFrameRefuse DEF LoadSource
<1>10. CASE DropKey(q)
  <2>1. /\ At(q, "delete", "drop")
        /\ secrets' = Without(o.uid) /\ gone' = gone \cup {o.uid} /\ End(q)
        /\ rows' = rows /\ raced' = raced /\ wrote' = wrote /\ clean' = clean
    BY <1>10 DEF DropKey
  <2>2. req'[q] = Idle /\ \A p \in Requests : p # q => req'[p] = req[p]
    BY <2>1, VBecomes DEF End
  <2>3. /\ DOMAIN secrets' = DOMAIN secrets \ {o.uid}
        /\ \A v \in DOMAIN secrets' : secrets'[v] = secrets[v]
    BY <2>1 DEF Without
  <2>4. Idle.pc = "idle" BY VIdle
  <2>5. VGrows BY <2>1, <2>3 DEF VGrows
  <2>6. VOthers(q) BY <2>1, <2>2 DEF VOthers
  <2>7. VSameOrders /\ VCopies BY <2>2, <2>4 DEF VSameOrders, VCopies, Active
  <2>8. VSecrets(q) BY <2>1, <2>2, <2>3, <2>4 DEF VSecrets, VKeeps, VDrops
  <2> QED BY <2>5, <2>6, <2>7, <2>8 DEF VFrame
<1>11. CASE CheckListed(q)
  <2>1. CASE Refuse(q) BY <1>1, <2>1, VFrameRefuse
  <2>2. CASE ~Refuse(q)
    <3> DEFINE R(page) == [req[q] EXCEPT !.pc = "each", !.todo = page,
                             !.there = IF o.of = Nil THEN @ \cap page ELSE @]
    <3>1. PICK page \in Pages(o.of) :
            Becomes(q, R(page)) /\ UNCHANGED <<rows, secrets, gone, raced, strays, wrote, clean>>
      BY <1>11, <2>2 DEF CheckListed, history
    <3> DEFINE r == R(page)
    <3>2. r.pc = "each" /\ r.order = o /\ r.there \subseteq req[q].there BY <1>2 DEF Working
    <3>3. Becomes(q, r) BY <3>1
    <3> HIDE DEF r
    <3> QED BY <1>1, <3>1, <3>2, <3>3, VFrameQuiet
  <2> QED BY <2>1, <2>2
<1>12. CASE AnswerList(q) BY <1>1, <1>12, VFrameRefuse DEF AnswerList
<1>13. CASE DeleteRows(q)
  <2>1. CASE Refuse(q) BY <1>1, <2>1, VFrameRefuse
  <2>2. CASE ~Refuse(q)
    <3> DEFINE r == [req[q] EXCEPT !.pc = "ids"]
    <3>1. r.pc = "ids" /\ r.order = o /\ r.there = req[q].there BY <1>2 DEF Working
    <3>2. /\ Becomes(q, r) /\ rows' \subseteq rows
          /\ UNCHANGED <<secrets, gone, raced, strays, wrote, clean>>
      BY <1>13, <2>2 DEF DeleteRows, history
    <3> HIDE DEF r
    <3>3. req'[q] = r /\ \A p \in Requests : p # q => req'[p] = req[p] BY <3>2, VBecomes
    <3>4. VGrows /\ VSecrets(q) BY <3>2 DEF VGrows, VSecrets, VKeeps
    <3>5. VOthers(q) BY <3>2, <3>3 DEF VOthers
    <3>6. VSameOrders /\ VCopies BY <1>1, <3>1, <3>3 DEF VSameOrders, VCopies, Active
    <3> QED BY <3>4, <3>5, <3>6 DEF VFrame
  <2> QED BY <2>1, <2>2
<1>14. CASE ListIdsForResource(q)
  <2> DEFINE r == [req[q] EXCEPT !.pc = "skim", !.todo = FindKeys(Under(o.of))]
  <2>1. r.pc = "skim" /\ r.order = o /\ r.there = req[q].there BY <1>2 DEF Working
  <2>2. Becomes(q, r) /\ UNCHANGED <<rows, secrets, gone, raced, strays, wrote, clean>>
    BY <1>14 DEF ListIdsForResource, history
  <2> HIDE DEF r
  <2> QED BY <1>1, <2>1, <2>2, VFrameQuiet
<1>15. CASE EndCascade(q) BY <1>1, <1>15, VFrameRefuse DEF EndCascade
<1>16. ASSUME NEW u \in Uids, ReadEach(q, u) PROVE VFrame(q)
  <2>1. CASE Refuse(q) BY <1>1, <2>1, VFrameRefuse
  <2>2. CASE ~Refuse(q)
    <3> DEFINE r == [req[q] EXCEPT !.todo = @ \ {u},
                       !.found = IF Wanted(o.of, u) THEN @ \cup {u} ELSE @]
    <3>1. r.pc = "each" /\ r.order = o /\ r.there = req[q].there
      BY <1>2, <1>16 DEF Working, ReadEach, At
    <3>2. Becomes(q, r) /\ UNCHANGED <<rows, secrets, gone, raced, strays, wrote, clean>>
      BY <1>16, <2>2 DEF ReadEach, history
    <3> HIDE DEF r
    <3> QED BY <1>1, <3>1, <3>2, VFrameQuiet
  <2> QED BY <2>1, <2>2
<1>17. ASSUME NEW u \in Uids, ReadListed(q, u) PROVE VFrame(q)
  <2> DEFINE r == [req[q] EXCEPT !.todo = @ \ {u},
                     !.found = IF u \in DOMAIN secrets THEN @ \cup {u} ELSE @,
                     !.pc = IF req[q].todo = {u} THEN "wipe" ELSE @]
  <2>1. r.pc \in {"skim", "wipe"} /\ r.order = o /\ r.there = req[q].there
    BY <1>2, <1>17 DEF Working, ReadListed
  <2>2. Becomes(q, r) /\ UNCHANGED <<rows, secrets, gone, raced, strays, wrote, clean>>
    BY <1>17 DEF ReadListed, history
  <2> HIDE DEF r
  <2> QED BY <1>1, <2>1, <2>2, VFrameQuiet
<1>18. ASSUME NEW u \in Uids, WipeEach(q, u) PROVE VFrame(q)
  <2> DEFINE r == [req[q] EXCEPT !.found = @ \ {u}]
  <2>1. r.pc = "wipe" /\ r.order = o /\ r.there = req[q].there
    BY <1>2, <1>18 DEF Working, WipeEach
  <2>2. /\ rows' = rows /\ raced' = raced /\ wrote' = wrote
        /\ req[q].pc = "wipe" /\ u \in req[q].found
        /\ \/ secrets' = secrets /\ gone' = gone
           \/ u \in DOMAIN secrets /\ secrets' = Without(u) /\ gone' = gone \cup {u}
    BY <1>18 DEF WipeEach
  <2>3. Die \/ (Becomes(q, r) /\ clean' = clean) BY <1>18 DEF WipeEach
  <2> HIDE DEF r
  <2>4. /\ \A p \in Requests : Active(p)' => req'[p] = req[p] \/ (p = q /\ req'[p] = r)
        /\ \A p \in Requests : p # q => req'[p] = req[p] \/ (~Active(p)' /\ ~clean')
        /\ clean' => clean
    <3>1. CASE Die BY <3>1, VDieType
    <3>2. CASE Becomes(q, r) /\ clean' = clean
      <4>1. req'[q] = r /\ \A p \in Requests : p # q => req'[p] = req[p] BY <3>2, VBecomes
      <4>2. clean' => clean BY <3>2
      <4>3. \A p \in Requests : req'[p] = req[p] \/ (p = q /\ req'[p] = r) BY <4>1
      <4> QED BY <4>1, <4>2, <4>3, Zenon
    <3> QED BY <2>3, <3>1, <3>2
  <2>5. /\ gone \subseteq gone'
        /\ DOMAIN secrets \cup gone \subseteq DOMAIN secrets' \cup gone'
        /\ DOMAIN secrets' \cap (gone' \ gone) = {}
        /\ \A v \in DOMAIN secrets' : v \in DOMAIN secrets /\ secrets'[v] = secrets[v]
        /\ \A v \in DOMAIN secrets \ DOMAIN secrets' : v = u
    BY <2>2 DEF Without
  <2>6. ~Active(q)' => req'[q].pc # "change" BY DEF Active
  <2>7. VSameOrders BY <1>1, <2>1, <2>4 DEF VSameOrders, Active
  <2>8. VCopies BY <2>1, <2>4 DEF VCopies, Active
  <2>9. req'[q].pc # "change" BY <2>1, <2>2, <2>4, <2>6
  <2>10. VGrows BY <2>2, <2>5 DEF VGrows
  <2>11. VOthers(q) BY <2>4 DEF VOthers
  <2>12. VSecrets(q) BY <2>2, <2>5, <2>9 DEF VSecrets, VKeeps, VDrops
  <2> QED BY <2>7, <2>8, <2>10, <2>11, <2>12 DEF VFrame
<1>19. CASE Fail(q)
  <2>1. /\ rows' = rows /\ secrets' = secrets /\ gone' = gone /\ raced' = raced
        /\ wrote' = wrote /\ clean' = FALSE /\ strays' = strays
        /\ Die \/ Becomes(q, Idle)
    BY <1>19 DEF Fail, Die, End
  <2>2. CASE Becomes(q, Idle)
    <3>1. clean' => clean BY <2>1
    <3>2. UNCHANGED <<rows, secrets, gone, raced, strays, wrote>> BY <2>1
    <3> QED BY <1>1, <2>2, <3>1, <3>2, VFrameQuiet
  <2>3. CASE Die
    <3>1. \A p \in Requests : req'[p].pc = "idle" BY <2>3 DEF Die, Idle
    <3>2. VGrows /\ VSecrets(q) BY <2>1 DEF VGrows, VSecrets, VKeeps
    <3>3. VOthers(q) BY <2>1, <3>1 DEF VOthers, Active
    <3>4. VSameOrders /\ VCopies BY <3>1 DEF VSameOrders, VCopies, Active
    <3> QED BY <3>2, <3>3, <3>4 DEF VFrame
  <2> QED BY <2>1, <2>2, <2>3
<1> QED
  BY <1>4, <1>5, <1>6, <1>7, <1>8, <1>9, <1>10, <1>11, <1>12, <1>13, <1>14, <1>15, <1>16,
     <1>17, <1>18, <1>19 DEF Step
-----------------------------------------------------------------------------
\* What a listing or a cascade has found stays what it looks for.
LEMMA VSteady ==
    ASSUME VaultAssumption, TypeOK, CopyFresh, NEW q \in Requests, VFrame(q), NEW x, NEW u,
           Steady(x, u)
    PROVE  Steady(x, u)'
<1>1. u \in DOMAIN secrets' \cup gone' BY DEF VFrame, VGrows, Steady
<1>2. ASSUME u \in DOMAIN secrets' PROVE Fits(x, secrets'[u])
  <2>1. CASE VKeeps(u) BY <2>1 DEF VKeeps, Steady
  <2>2. CASE VCreates(u) BY <2>2 DEF VCreates, Steady
  <2>3. CASE VWritesBack(q, u)
    <3>1. /\ req[q].pc = "change" /\ req[q].order.uid = u
          /\ secrets'[u] = Changed(req[q].order, req[q].copy)
      BY <2>3 DEF VWritesBack
    <3>2. Fits(x, req[q].copy) /\ req[q].copy \in Secrets BY <3>1 DEF Steady, CopyFresh
    <3>3. req[q].order \in Orders /\ req[q].order.kind \in {"edit", "report"}
      BY <3>1, VWorkingFields, VOrderFields DEF Active, PcOK
    <3> QED BY <3>1, <3>2, <3>3, VChanged
  <2> QED BY <1>2, <2>1, <2>2, <2>3 DEF VFrame, VSecrets
<1>3. ASSUME NEW p \in Requests, req'[p].pc = "change", req'[p].order.uid = u
      PROVE  Fits(x, req'[p].copy)
  <2>1. req'[p].order = req[p].order BY <1>3 DEF VFrame, VSameOrders, Active
  <2>2. CASE req[p].pc = "change" /\ req'[p].copy = req[p].copy
    BY <1>3, <2>1, <2>2 DEF Steady
  <2>3. CASE u \in DOMAIN secrets /\ req'[p].copy = FromVault(secrets[u])
    BY <2>3, VFromVault DEF Steady, TypeOK
  <2> QED BY <1>3, <2>1, <2>2, <2>3 DEF VFrame, VCopies
<1> QED BY <1>1, <1>2, <1>3 DEF Steady, Fits

\* Outside of a race, nobody else changes or takes the credential that a
\* request has read.
LEMMA VAlone ==
    ASSUME VaultAssumption, VInner, NEW q \in Requests, VFrame(q), Active(q),
           NEW p \in Requests, p # q, Named(p), NEW u, u = req[p].order.uid,
           u \in DOMAIN secrets \ raced
    PROVE  u \in DOMAIN secrets' /\ secrets'[u] = secrets[u]
<1>1. TypeOK /\ PairsRaced /\ CopyFresh /\ CascadesSteady BY DEF VInner
<1>2. ~About(req[q].order, u) BY <1>1 DEF PairsRaced
<1>3. req[q].order \in Orders /\ PcOK(req[q].pc, req[q].order.kind) BY <1>1, VWorkingFields
<1>4. u \in DOMAIN secrets'
  <2> SUFFICES ASSUME VDrops(q, u) PROVE FALSE BY DEF VFrame, VSecrets
  <2>1. CASE At(q, "delete", "drop") /\ u = req[q].order.uid
    BY <1>2, <2>1 DEF At, About
  <2>2. CASE req[q].pc = "wipe" /\ u \in req[q].found
    <3>1. req[q].order.kind = "cascade" BY <1>3, <2>2, VOrderFields DEF PcOK
    <3>2. Steady(req[q].order, u) BY <1>1, <2>2, <3>1 DEF CascadesSteady
    <3> QED BY <1>2, <3>1, <3>2 DEF Steady, Fits, About
  <2> QED BY <2>1, <2>2 DEF VDrops
<1>5. CASE VKeeps(u) BY <1>4, <1>5 DEF VKeeps
<1>6. CASE VCreates(u) BY <1>6 DEF VCreates
<1>7. CASE VWritesBack(q, u)
  <2>1. req[q].order.kind \in {"edit", "report"} /\ u = req[q].order.uid
    BY <1>3, <1>7, VOrderFields DEF VWritesBack, PcOK
  <2> QED BY <1>2, <2>1 DEF About
<1> QED BY <1>4, <1>5, <1>6, <1>7 DEF VFrame, VSecrets

LEMMA VShared ==
    ASSUME VaultAssumption, VInner, NEW q \in Requests, VFrame(q), Active(q)
    PROVE  BackOnlyIfRaced' /\ WrittenIsKept' /\ NamedKnown' /\ PairsRaced' /\ CopyFresh'
<1>1. /\ TypeOK /\ PairsRaced /\ CopyFresh /\ CascadesSteady /\ BackOnlyIfRaced /\ WrittenIsKept
      /\ NamedKnown
  BY DEF VInner
<1>2. VGrows /\ VSameOrders /\ VCopies BY DEF VFrame
<1>3. \A u \in DOMAIN secrets' : VKeeps(u) \/ VCreates(u) \/ VWritesBack(q, u)
  BY DEF VFrame, VSecrets
\* What q writes back.
<1>4. ASSUME NEW u \in DOMAIN secrets', VWritesBack(q, u), u \notin raced
      PROVE  /\ u \in DOMAIN secrets
             /\ secrets'[u].of = secrets[u].of
             /\ secrets'[u] = Changed(req[q].order, FromVault(secrets[u]))
  <2>1. req[q].pc = "change" /\ u = req[q].order.uid BY <1>4 DEF VWritesBack
  <2>2. /\ u \in DOMAIN secrets /\ secrets[u] \in Secrets
        /\ req[q].copy = FromVault(secrets[u]) /\ FromVault(secrets[u]) \in Secrets
        /\ FromVault(secrets[u]).of = secrets[u].of
    BY <1>1, <1>4, <2>1, VFromVault DEF CopyFresh, TypeOK
  <2>3. req[q].order \in Orders /\ req[q].order.kind \in {"edit", "report"}
    BY <1>1, <2>1, VWorkingFields, VOrderFields DEF Active, PcOK
  <2> QED BY <1>4, <2>2, <2>3, VChanged DEF VWritesBack
<1>5. BackOnlyIfRaced'
  <2> SUFFICES ASSUME NEW u \in DOMAIN secrets' \cap gone' PROVE u \in raced
    BY <1>2 DEF BackOnlyIfRaced, VGrows
  <2>1. u \in gone BY <1>2 DEF VGrows
  <2>2. u \notin raced => u \in DOMAIN secrets
    BY <1>3, <1>4, <2>1 DEF VKeeps, VCreates
  <2> QED BY <1>1, <2>1, <2>2 DEF BackOnlyIfRaced
<1>6. WrittenIsKept'
  <2> SUFFICES ASSUME NEW u \in DOMAIN secrets', u \notin raced
               PROVE  wrote'[u] = Content(secrets'[u])
    BY <1>2 DEF WrittenIsKept, VGrows
  <2>1. CASE VKeeps(u) BY <1>1, <2>1 DEF VKeeps, WrittenIsKept
  <2>2. CASE VCreates(u) BY <2>2 DEF VCreates
  <2>3. CASE VWritesBack(q, u)
    <3> DEFINE s == secrets[u]
    <3>1. u \in DOMAIN secrets /\ secrets'[u] = Changed(req[q].order, FromVault(s))
      BY <1>4, <2>3
    <3>2. wrote'[u] = Changed(req[q].order, FromVault(Content(s)))
      BY <1>1, <2>3, <3>1 DEF VWritesBack, WrittenIsKept
    <3>3. s \in Secrets BY <1>1, <3>1 DEF TypeOK
    <3> HIDE DEF s
    <3> QED BY <3>1, <3>2, <3>3, VContent
  <2> QED BY <1>3, <2>1, <2>2, <2>3
<1>7. NamedKnown'
  <2> SUFFICES ASSUME NEW p \in Requests, Named(p)' PROVE Known(req[p].order)'
    BY <1>2 DEF NamedKnown, Named, VSameOrders
  <2>1. Named(p) /\ req'[p].order = req[p].order BY <1>2 DEF Named, VSameOrders
  <2> QED BY <1>1, <1>2, <2>1 DEF NamedKnown, Known, VGrows
<1>8. PairsRaced'
  <2> SUFFICES ASSUME NEW p \in Requests, NEW r \in Requests, Named(p)', Active(r)', p # r,
                      About(req[r].order, req[p].order.uid)', req[p].order.uid \notin raced
               PROVE  FALSE
    <3>1. ASSUME NEW p \in Requests, Named(p)'
          PROVE req'[p].order = req[p].order
      BY <1>2, <3>1 DEF Named, VSameOrders
    <3> QED BY <1>2, <3>1 DEF PairsRaced, VGrows
  <2> DEFINE u == req[p].order.uid
             o == req[r].order
  <2>1. /\ Named(p) /\ Active(r) /\ req'[p].order = req[p].order /\ req'[r].order = o
    BY <1>2 DEF Named, VSameOrders
  <2>2. ~About(o, u) BY <1>1, <2>1 DEF PairsRaced
  <2>3. /\ o.kind = "cascade" /\ u \in DOMAIN secrets' /\ secrets'[u].of \in Under(o.of)
        /\ u \notin DOMAIN secrets \/ secrets[u].of \notin Under(o.of)
    BY <2>1, <2>2 DEF About, Under
  <2>4. u \in DOMAIN secrets \cup gone BY <1>1, <2>1 DEF NamedKnown, Known, Named
  <2>5. CASE VKeeps(u) BY <2>3, <2>5 DEF VKeeps
  <2>6. CASE VCreates(u) BY <2>4, <2>6 DEF VCreates
  <2>7. CASE VWritesBack(q, u)
    <3>1. u \in DOMAIN secrets /\ secrets'[u].of = secrets[u].of BY <1>4, <2>3, <2>7
    <3> QED BY <2>3, <3>1
  <2> QED BY <1>3, <2>3, <2>5, <2>6, <2>7
<1>9. CopyFresh'
  <2> SUFFICES ASSUME NEW p \in Requests, req'[p].pc = "change"
               PROVE  /\ req'[p].copy \in Secrets
                      /\ \/ req[p].order.uid \in raced
                         \/ /\ req[p].order.uid \in DOMAIN secrets'
                            /\ req'[p].copy = FromVault(secrets'[req[p].order.uid])
    <3>1. \A p \in Requests : req'[p].pc = "change" => req'[p].order = req[p].order
      BY <1>2 DEF VSameOrders, Active
    <3> QED BY <1>2, <3>1 DEF CopyFresh, VGrows
  <2> DEFINE u == req[p].order.uid
  <2>1. Active(p) BY <1>2 DEF VSameOrders, Active
  <2>2. CASE /\ secrets' = secrets /\ u \in DOMAIN secrets
             /\ req'[p].copy = FromVault(secrets[u])
    BY <1>1, <2>2, VFromVault DEF TypeOK
  <2>3. CASE req[p].pc = "change" /\ req'[p].copy = req[p].copy
    <3>1. req[p].copy \in Secrets BY <1>1, <2>3 DEF CopyFresh
    <3>2. Named(p)
      BY <1>1, <2>1, <2>3, VWorkingFields, VOrderFields DEF Named, PcOK
    <3>3. ASSUME u \notin raced
          PROVE  u \in DOMAIN secrets' /\ req[p].copy = FromVault(secrets'[u])
      <4>1. u \in DOMAIN secrets \ raced /\ req[p].copy = FromVault(secrets[u])
        BY <1>1, <2>3, <3>3 DEF CopyFresh
      <4>2. CASE p # q
        <5> HIDE DEF u
        <5>1. u = req[p].order.uid BY DEF u
        <5> QED BY <3>2, <4>1, <4>2, <5>1, VAlone
      <4>3. CASE p = q
        <5>1. u \in DOMAIN secrets' BY <4>1, <4>3 DEF VFrame, VSecrets, VDrops
        <5>2. ~VCreates(u) /\ ~VWritesBack(q, u)
          BY <4>1, <4>3 DEF VCreates, VWritesBack
        <5> QED BY <1>3, <4>1, <5>1, <5>2 DEF VKeeps
      <4> QED BY <4>2, <4>3
    <3> QED BY <2>3, <3>1, <3>3
  <2> QED BY <1>2, <2>2, <2>3 DEF VCopies
<1> QED BY <1>5, <1>6, <1>7, <1>8, <1>9
-----------------------------------------------------------------------------
\* The copies of a credential and the credential are of the same resource.
LEMMA VAgree ==
    ASSUME VaultAssumption, VInner, NEW q \in Requests, VFrame(q)
    PROVE  CopiesAgree'
<1>1. TypeOK /\ CopyFresh /\ CopiesAgree /\ NamedKnown BY DEF VInner
<1>2. VSameOrders /\ VCopies BY DEF VFrame
<1>3. \A u \in DOMAIN secrets' : VKeeps(u) \/ VCreates(u) \/ VWritesBack(q, u)
  BY DEF VFrame, VSecrets
<1> DEFINE Read(p) == /\ req[p].pc = "read" /\ secrets' = secrets
                      /\ req[p].order.uid \in DOMAIN secrets
                      /\ req'[p].copy = FromVault(secrets[req[p].order.uid])
           Held(p) == req[p].pc = "change" /\ req'[p].copy = req[p].copy
<1>4. ASSUME NEW p \in Requests, req'[p].pc = "change"
      PROVE  /\ req'[p].order = req[p].order /\ Active(p)
             /\ Read(p) \/ Held(p)
  BY <1>2, <1>4 DEF VSameOrders, VCopies, Active
<1> HIDE DEF Read, Held
<1>5. ASSUME NEW p \in Requests, req'[p].pc = "change", NEW u, u = req[p].order.uid,
             u \in DOMAIN secrets'
      PROVE  SamePlace(req'[p].copy, secrets'[u])
  <2>1. CASE Read(p) BY <1>1, <1>5, <2>1, VFromVault DEF Read, SamePlace, TypeOK
  <2>2. CASE Held(p)
    <3>1. req[p].pc = "change" /\ req'[p].copy = req[p].copy /\ Active(p)
      BY <1>5, <1>4, <2>2 DEF Held
    <3>2. CASE VKeeps(u) BY <1>1, <1>5, <3>1, <3>2 DEF VKeeps, CopiesAgree
    <3>3. CASE VCreates(u)
      <4>1. Named(p) BY <1>1, <3>1, VWorkingFields, VOrderFields DEF Named, PcOK
      <4> QED BY <1>1, <1>5, <3>3, <4>1 DEF VCreates, NamedKnown, Known, Named
    <3>4. CASE VWritesBack(q, u)
      <4>1. /\ req[q].pc = "change" /\ u = req[q].order.uid
            /\ secrets'[u] = Changed(req[q].order, req[q].copy)
        BY <3>4 DEF VWritesBack
      <4>2. SamePlace(req[p].copy, req[q].copy) /\ req[q].copy \in Secrets
        BY <1>1, <1>5, <3>1, <4>1 DEF CopiesAgree, CopyFresh
      <4>3. req[q].order \in Orders /\ req[q].order.kind \in {"edit", "report"}
        BY <1>1, <4>1, VWorkingFields, VOrderFields DEF Active, PcOK
      <4> QED BY <3>1, <4>1, <4>2, <4>3, VChanged DEF SamePlace
    <3> QED BY <1>3, <1>5, <3>2, <3>3, <3>4
  <2> QED BY <1>4, <1>5, <2>1, <2>2
<1>6. ASSUME NEW p \in Requests, req'[p].pc = "change", NEW r \in Requests, req'[r].pc = "change",
             req[p].order.uid = req[r].order.uid
      PROVE  SamePlace(req'[p].copy, req'[r].copy)
  <2> DEFINE u == req[p].order.uid
  <2>1. CASE Held(p) /\ Held(r) BY <1>1, <1>6, <2>1 DEF Held, CopiesAgree
  <2>2. CASE Read(p) \/ Read(r)
    <3>1. u \in DOMAIN secrets' BY <1>6, <2>2 DEF Read
    <3>2. SamePlace(req'[p].copy, secrets'[u]) /\ SamePlace(req'[r].copy, secrets'[u])
      BY <1>5, <1>6, <3>1
    <3> QED BY <3>2 DEF SamePlace
  <2> QED BY <1>4, <1>6, <2>1, <2>2
<1>7. \A p \in Requests : req'[p].pc = "change" => req'[p].order = req[p].order
  BY <1>4
<1> QED BY <1>5, <1>6, <1>7 DEF CopiesAgree, SamePlace

-----------------------------------------------------------------------------
\* What q has found when it lists, and what it leaves to be found.
LEMMA VListings ==
    ASSUME VaultAssumption, VInner, NEW q \in Requests, Step(q), VFrame(q)
    PROVE  ListingsSteady'
<1>1. TypeOK /\ CopyFresh /\ ListingsSteady /\ Active(q) BY VActive DEF VInner
<1>2. VGrows /\ VSameOrders /\ VOthers(q) BY DEF VFrame
<1> SUFFICES ASSUME NEW p \in Requests, Active(p)', req'[p].order.kind = "list",
                    NEW o, o = req[p].order
             PROVE  /\ \A u \in req'[p].there : Steady(o, u)'
                    /\ req'[p].pc = "each" =>
                         req'[p].there \ gone' \subseteq req'[p].found \cup req'[p].todo
  <2>1. \A p \in Requests : Active(p)' => req'[p].order = req[p].order
    BY <1>2 DEF VSameOrders
  <2> QED BY <2>1 DEF ListingsSteady, Steady, Fits
<1>3. Active(p) /\ req'[p].order = o /\ req'[p].there \subseteq req[p].there /\ o.kind = "list"
  BY <1>2 DEF VSameOrders
<1>4. /\ \A u \in req[p].there : Steady(o, u)
      /\ req[p].pc = "each" => req[p].there \ gone \subseteq req[p].found \cup req[p].todo
  BY <1>1, <1>3 DEF ListingsSteady
<1>5. \A u \in req'[p].there : Steady(o, u)'
  <2> QED BY <1>1, <1>3, <1>4, VSteady
<1>6. ASSUME p # q, req'[p].pc = "each"
      PROVE  req'[p].there \ gone' \subseteq req'[p].found \cup req'[p].todo
  BY <1>2, <1>4, <1>6 DEF VOthers, VGrows
<1>7. ASSUME p = q, req'[p].pc = "each"
      PROVE  req'[p].there \ gone' \subseteq req'[p].found \cup req'[p].todo
  <2>1. /\ req[q] \in Working /\ o \in Orders /\ PcOK(req[q].pc, "list")
        /\ o.kind = "list"
    BY <1>1, <1>3, <1>7, VWorkingFields
  <2>2. ~Refuse(q) /\ ~End(q) /\ ~Die
    BY <1>1, <1>7, VBecomes DEF Refuse, End, Die, Idle
  <2>3. CASE CheckListed(q)
    <3> DEFINE R(page) == [req[q] EXCEPT !.pc = "each", !.todo = page,
                             !.there = IF o.of = Nil THEN @ \cap page ELSE @]
    <3>1. PICK page \in Pages(o.of) : Becomes(q, R(page)) /\ gone' = gone
      BY <1>7, <2>2, <2>3 DEF CheckListed, history
    <3> DEFINE r == R(page)
    <3>2. /\ r.there = IF o.of = Nil THEN req[q].there \cap page ELSE req[q].there
          /\ r.todo = page
      BY <2>1 DEF Working
    <3>3. ASSUME NEW u \in req[q].there \ gone, o.of # Nil PROVE u \in page
      <4>1. u \in DOMAIN secrets /\ Fits(o, secrets[u]) BY <1>4, <1>7, <3>3 DEF Steady
      <4>2. page = ListKeys(o.of) BY <3>3 DEF Pages
      <4> QED BY <2>1, <4>1, <4>2 DEF Fits, ListKeys, WithPrefix
    <3>4. Becomes(q, r) BY <3>1
    <3> HIDE DEF r
    <3>5. req'[q] = r BY <1>1, <3>4, VBecomes
    <3> QED BY <1>7, <3>1, <3>2, <3>3, <3>5
  <2>4. ASSUME NEW u \in Uids, ReadEach(q, u)
        PROVE  req'[p].there \ gone' \subseteq req'[p].found \cup req'[p].todo
    <3> DEFINE found == IF Wanted(o.of, u) THEN req[q].found \cup {u} ELSE req[q].found
               r == [req[q] EXCEPT !.todo = @ \ {u},
                       !.found = IF Wanted(o.of, u) THEN @ \cup {u} ELSE @]
    <3>1. /\ Becomes(q, r) /\ gone' = gone /\ u \in DOMAIN secrets /\ req[q].pc = "each"
      BY <1>7, <2>2, <2>4 DEF ReadEach, history, At
    <3>2. r.there = req[q].there /\ r.todo = req[q].todo \ {u} /\ r.found = found
      BY <2>1 DEF Working
    <3>3. u \in req[q].there => Wanted(o.of, u)
      <4> SUFFICES ASSUME u \in req[q].there PROVE Wanted(o.of, u) OBVIOUS
      <4>1. Fits(o, secrets[u]) BY <1>4, <1>7, <3>1 DEF Steady
      <4> QED BY <2>1, <4>1, ResourceAssumption DEF Fits, Wanted
    <3>4. req[q].found \subseteq found /\ (u \in req[q].there => u \in found)
      BY <3>3
    <3> HIDE DEF r, found
    <3>5. req'[q] = r BY <1>1, <3>1, VBecomes
    <3> QED BY <1>4, <1>7, <3>1, <3>2, <3>4, <3>5
  <2>5. ASSUME CheckResource(q) \/ WriteNew(q) \/ FindKey(q) \/ ReadKey(q) \/ WriteBack(q)
               \/ LoadSource(q) \/ DropKey(q) \/ AnswerList(q) \/ DeleteRows(q)
               \/ ListIdsForResource(q) \/ EndCascade(q) \/ Fail(q)
               \/ \E u \in Uids : ReadListed(q, u) \/ WipeEach(q, u)
        PROVE  FALSE
    BY <1>7, <2>1, <2>2, <2>5
       DEF CheckResource, WriteNew, FindKey, ReadKey, WriteBack, LoadSource, DropKey, AnswerList,
           DeleteRows, ListIdsForResource, EndCascade, Fail, ReadListed, WipeEach, At, PcOK
  <2> QED BY <2>3, <2>4, <2>5 DEF Step
<1> QED BY <1>5, <1>6, <1>7

\* What q has found when it is a cascade.
LEMMA VCascades ==
    ASSUME VaultAssumption, VInner, NEW q \in Requests, Step(q), VFrame(q)
    PROVE  CascadesSteady'
<1>1. TypeOK /\ CopyFresh /\ CopiesAgree /\ CascadesSteady /\ Active(q) BY VActive DEF VInner
<1>2. VGrows /\ VSameOrders /\ VOthers(q) BY DEF VFrame
<1> SUFFICES ASSUME NEW p \in Requests, Active(p)', req'[p].order.kind = "cascade",
                    NEW o, o = req[p].order
             PROVE  /\ \A u \in req'[p].todo \cup req'[p].found : Steady(o, u)'
                    /\ req'[p].pc # "start" => rows' \cap Under(o.of) = {}
                    /\ req'[p].pc \in {"start", "ids"}
                         \/ (req'[p].pc = "skim" /\ req'[p].todo = {}) => req'[p].found = {}
  <2>1. \A p \in Requests : Active(p)' => req'[p].order = req[p].order
    BY <1>2 DEF VSameOrders
  <2> QED BY <2>1 DEF CascadesSteady, Steady, Fits, Under
<1>3. Active(p) /\ req'[p].order = o /\ o.kind = "cascade"
  BY <1>2 DEF VSameOrders
<1>4. /\ \A u \in req[p].todo \cup req[p].found : Steady(o, u)
      /\ req[p].pc # "start" => rows \cap Under(o.of) = {}
      /\ req[p].pc \in {"start", "ids"} \/ (req[p].pc = "skim" /\ req[p].todo = {}) =>
            req[p].found = {}
  BY <1>1, <1>3 DEF CascadesSteady
<1>5. \A u : Steady(o, u) => Steady(o, u)'
  <2> QED BY <1>1, VSteady
<1>6. ASSUME p # q
      PROVE  /\ \A u \in req'[p].todo \cup req'[p].found : Steady(o, u)'
             /\ req'[p].pc # "start" => rows' \cap Under(o.of) = {}
             /\ req'[p].pc \in {"start", "ids"} \/ (req'[p].pc = "skim" /\ req'[p].todo = {}) =>
                   req'[p].found = {}
  <2>1. req'[p] = req[p] BY <1>2, <1>6 DEF VOthers
  <2> QED BY <1>2, <1>4, <1>5, <2>1 DEF VGrows
<1>7. ASSUME p = q
      PROVE  /\ \A u \in req'[p].todo \cup req'[p].found : Steady(o, u)'
             /\ req'[p].pc # "start" => rows' \cap Under(o.of) = {}
             /\ req'[p].pc \in {"start", "ids"} \/ (req'[p].pc = "skim" /\ req'[p].todo = {}) =>
                   req'[p].found = {}
  <2>1. /\ req[q] \in Working /\ o \in Orders /\ PcOK(req[q].pc, "cascade")
        /\ o.kind = "cascade"
    BY <1>1, <1>3, <1>7, VWorkingFields
  <2>2. ~Refuse(q) /\ ~End(q) /\ ~Die
    BY <1>1, <1>7, VBecomes DEF Refuse, End, Die, Idle, Active
  <2>3. CASE DeleteRows(q)
    <3> DEFINE r == [req[q] EXCEPT !.pc = "ids"]
    <3>1. Becomes(q, r) /\ rows' = rows \ Under(o.of) /\ req[q].pc = "start"
      BY <1>7, <2>2, <2>3 DEF DeleteRows, At
    <3>2. r.pc = "ids" /\ r.todo = req[q].todo /\ r.found = req[q].found BY <2>1 DEF Working
    <3> HIDE DEF r
    <3>3. req'[q] = r BY <1>1, <3>1, VBecomes
    <3>4. rows' \cap Under(o.of) = {} BY <3>1
    <3> QED BY <1>4, <1>5, <1>7, <3>1, <3>2, <3>3, <3>4
  <2>4. CASE ListIdsForResource(q)
    <3> DEFINE r == [req[q] EXCEPT !.pc = "skim", !.todo = FindKeys(Under(o.of))]
    <3>1. Becomes(q, r) /\ rows' = rows /\ req[q].pc = "ids"
      BY <1>7, <2>4 DEF ListIdsForResource, At
    <3>2. r.pc = "skim" /\ r.todo = FindKeys(Under(o.of)) /\ r.found = req[q].found
      BY <2>1 DEF Working
    <3>3. req[q].found = {} BY <1>4, <1>7, <3>1
    <3>4. ASSUME NEW u \in FindKeys(Under(o.of)) PROVE Steady(o, u)
      <4>1. u \in DOMAIN secrets /\ secrets[u].of \in Under(o.of) BY <3>4 DEF FindKeys
      <4>2. ASSUME NEW v \in Requests, req[v].pc = "change", req[v].order.uid = u
            PROVE  Fits(o, req[v].copy)
        <5>1. SamePlace(req[v].copy, secrets[u]) BY <1>1, <4>1, <4>2 DEF CopiesAgree
        <5> QED BY <2>1, <4>1, <5>1 DEF Fits, SamePlace
      <4> QED BY <2>1, <4>1, <4>2 DEF Steady, Fits
    <3> HIDE DEF r
    <3>5. req'[q] = r BY <1>1, <3>1, VBecomes
    <3> QED BY <1>4, <1>5, <1>7, <3>1, <3>2, <3>3, <3>4, <3>5
  <2>5. ASSUME NEW u \in Uids, ReadListed(q, u)
        PROVE  /\ \A v \in req'[p].todo \cup req'[p].found : Steady(o, v)'
               /\ req'[p].pc # "start" => rows' \cap Under(o.of) = {}
               /\ req'[p].pc \in {"start", "ids"} \/ (req'[p].pc = "skim" /\ req'[p].todo = {}) =>
                     req'[p].found = {}
    <3> DEFINE r == [req[q] EXCEPT !.todo = @ \ {u},
                       !.found = IF u \in DOMAIN secrets THEN @ \cup {u} ELSE @,
                       !.pc = IF req[q].todo = {u} THEN "wipe" ELSE @]
    <3>1. Becomes(q, r) /\ rows' = rows /\ req[q].pc = "skim" /\ u \in req[q].todo
      BY <1>7, <2>5 DEF ReadListed
    <3>2. /\ r.todo = req[q].todo \ {u} /\ r.found \subseteq req[q].found \cup {u}
          /\ r.pc = IF req[q].todo = {u} THEN "wipe" ELSE "skim"
      BY <2>1, <3>1 DEF Working
    <3>3. r.pc = "skim" => r.todo # {} BY <3>1, <3>2
    <3> HIDE DEF r
    <3>4. req'[q] = r BY <1>1, <3>1, VBecomes
    <3> QED BY <1>4, <1>5, <1>7, <3>1, <3>2, <3>3, <3>4
  <2>6. ASSUME NEW u \in Uids, WipeEach(q, u)
        PROVE  /\ \A v \in req'[p].todo \cup req'[p].found : Steady(o, v)'
               /\ req'[p].pc # "start" => rows' \cap Under(o.of) = {}
               /\ req'[p].pc \in {"start", "ids"} \/ (req'[p].pc = "skim" /\ req'[p].todo = {}) =>
                     req'[p].found = {}
    <3> DEFINE r == [req[q] EXCEPT !.found = @ \ {u}]
    <3>1. Becomes(q, r) /\ rows' = rows /\ req[q].pc = "wipe"
      BY <1>7, <2>2, <2>6 DEF WipeEach
    <3>2. r.todo = req[q].todo /\ r.found \subseteq req[q].found /\ r.pc = "wipe"
      BY <2>1, <3>1 DEF Working
    <3> HIDE DEF r
    <3>3. req'[q] = r BY <1>1, <3>1, VBecomes
    <3> QED BY <1>4, <1>5, <1>7, <3>1, <3>2, <3>3
  <2>7. ASSUME CheckResource(q) \/ WriteNew(q) \/ FindKey(q) \/ ReadKey(q) \/ WriteBack(q)
               \/ LoadSource(q) \/ DropKey(q) \/ CheckListed(q) \/ AnswerList(q)
               \/ EndCascade(q) \/ Fail(q) \/ \E u \in Uids : ReadEach(q, u)
        PROVE  FALSE
    BY <1>7, <2>1, <2>2, <2>7
       DEF CheckResource, WriteNew, FindKey, ReadKey, WriteBack, LoadSource, DropKey, AnswerList,
           CheckListed, EndCascade, Fail, ReadEach, At, PcOK
  <2> QED BY <2>3, <2>4, <2>5, <2>6, <2>7 DEF Step
<1> QED BY <1>6, <1>7
-----------------------------------------------------------------------------
\* A secret that is no stray after a step of q has its resource, or is left to
\* the same cascade as before, or to q.
VLeft(q, u) ==
    \/ secrets'[u].of \in rows'
    \/ /\ u \in DOMAIN secrets \ strays /\ secrets'[u] = secrets[u]
       /\ secrets[u].of \in rows => Doomed(q, u)'
       /\ Doomed(q, u) => Doomed(q, u)'

LEMMA VStepLeft ==
    ASSUME VaultAssumption, VInner, NEW q \in Requests, Step(q), VFrame(q), clean',
           NEW u \in DOMAIN secrets' \ strays'
    PROVE  VLeft(q, u)
<1> DEFINE o == req[q].order
<1>1. TypeOK /\ CopyFresh /\ CascadesSteady /\ Active(q) BY VActive DEF VInner
<1>2. /\ req[q] \in Working /\ o \in Orders /\ PcOK(req[q].pc, o.kind)
  BY <1>1, VWorkingFields
<1>3. ASSUME UNCHANGED <<rows, secrets, strays>>, Doomed(q, u) => Doomed(q, u)'
      PROVE  VLeft(q, u)
  BY <1>3 DEF VLeft
<1>4. ASSUME UNCHANGED <<rows, secrets, strays>>, ~Doomed(q, u) PROVE VLeft(q, u)
  BY <1>4 DEF VLeft
<1>5. o.kind # "cascade" => ~Doomed(q, u)
  BY <1>2, VOrderFields DEF PcOK, Doomed
<1>6. ASSUME req[q].pc \in {"start", "write", "read", "source", "each"} PROVE ~Doomed(q, u)
  BY <1>6 DEF Doomed
<1>7. ASSUME Refuse(q) \/ \E to \in {"write", "read", "drop"} : Checked(q, to)
      PROVE  UNCHANGED <<rows, secrets, strays>>
  BY <1>7 DEF Refuse, Checked, history
<1>8. CASE CheckResource(q) BY <1>4, <1>6, <1>7, <1>8 DEF CheckResource, At
<1>9. CASE WriteNew(q)
  <2>1. CASE Refuse(q) BY <1>4, <1>6, <1>7, <1>9, <2>1 DEF WriteNew, At
  <2> DEFINE s == [of |-> o.of, source |-> SourceOfResource(o.of),
                   name |-> o.name, status |-> Nil, error |-> Nil]
  <2>2. ASSUME NEW v \in Uids \ (DOMAIN secrets \cup gone),
               secrets' = With(secrets, v, s), rows' = rows,
               strays' = IF o.of \in rows THEN strays ELSE strays \cup {v},
               req[q].pc = "write"
        PROVE  VLeft(q, u)
    <3>1. s.of = o.of OBVIOUS
    <3> HIDE DEF s
    <3>2. /\ DOMAIN secrets' = DOMAIN secrets \cup {v} /\ secrets'[v] = s
          /\ u # v => secrets'[u] = secrets[u]
      BY <2>2 DEF With
    <3>3. ~Doomed(q, u) BY <1>6, <2>2
    <3> QED BY <2>2, <3>1, <3>2, <3>3 DEF VLeft
  <2> QED BY <1>9, <2>1, <2>2 DEF WriteNew, At
<1>10. CASE FindKey(q) BY <1>4, <1>6, <1>7, <1>10 DEF FindKey
<1>11. CASE ReadKey(q)
  <2>1. UNCHANGED <<rows, secrets, strays>> BY <1>7, <1>11 DEF ReadKey, history
  <2> QED BY <1>4, <1>6, <1>11, <2>1 DEF ReadKey
<1>12. CASE WriteBack(q)
  <2> DEFINE s == Changed(o, req[q].copy)
  <2>1. /\ req[q].pc = "change" /\ secrets' = With(secrets, o.uid, s) /\ rows' = rows
        /\ strays' = IF s.of \in rows THEN strays ELSE strays \cup {o.uid}
    BY <1>12 DEF WriteBack
  <2> HIDE DEF s
  <2>2. /\ DOMAIN secrets' = DOMAIN secrets \cup {o.uid} /\ secrets'[o.uid] = s
        /\ u # o.uid => secrets'[u] = secrets[u]
    BY <2>1 DEF With
  <2>3. ~Doomed(q, u) BY <2>1 DEF Doomed
  <2> QED BY <2>1, <2>2, <2>3 DEF VLeft
<1>13. CASE LoadSource(q) BY <1>4, <1>6, <1>7, <1>13 DEF LoadSource
<1>14. CASE DropKey(q)
  <2>1. /\ secrets' = Without(o.uid) /\ rows' = rows /\ strays' = strays
        /\ req[q].pc = "drop"
    BY <1>14 DEF DropKey, At
  <2>2. u \in DOMAIN secrets /\ secrets'[u] = secrets[u] BY <2>1 DEF Without
  <2>3. ~Doomed(q, u) BY <2>1 DEF Doomed
  <2> QED BY <2>1, <2>2, <2>3 DEF VLeft
<1>15. CASE CheckListed(q)
  <2>1. UNCHANGED <<rows, secrets, strays>> BY <1>7, <1>15 DEF CheckListed, history
  <2> QED BY <1>4, <1>6, <1>15, <2>1 DEF CheckListed, At
<1>16. CASE AnswerList(q) BY <1>4, <1>6, <1>7, <1>16 DEF AnswerList, At
<1>17. CASE DeleteRows(q)
  <2>1. CASE Refuse(q) BY <1>4, <1>6, <1>7, <1>17, <2>1 DEF DeleteRows, At
  <2>2. CASE ~Refuse(q)
    <3> DEFINE r == [req[q] EXCEPT !.pc = "ids"]
    <3>1. /\ Becomes(q, r) /\ rows' = rows \ Under(o.of) /\ req[q].pc = "start"
          /\ secrets' = secrets /\ strays' = strays
      BY <1>17, <2>2 DEF DeleteRows, At, history
    <3>2. r.pc = "ids" /\ r.order = o BY <1>2 DEF Working
    <3> HIDE DEF r
    <3>3. req'[q] = r BY <1>1, <3>1, VBecomes
    <3>4. secrets[u].of \in Under(o.of) => Doomed(q, u)'
      BY <3>1, <3>2, <3>3 DEF Doomed, Under
    <3>5. ~Doomed(q, u) BY <3>1 DEF Doomed
    <3> QED BY <3>1, <3>4, <3>5 DEF VLeft
  <2> QED BY <2>1, <2>2
<1>18. CASE ListIdsForResource(q)
  <2> DEFINE r == [req[q] EXCEPT !.pc = "skim", !.todo = FindKeys(Under(o.of))]
  <2>1. Becomes(q, r) /\ UNCHANGED <<rows, secrets, strays>> /\ req[q].pc = "ids"
    BY <1>18 DEF ListIdsForResource, At, history
  <2>2. r.pc = "skim" /\ r.todo = FindKeys(Under(o.of)) BY <1>2 DEF Working
  <2>3. Doomed(q, u) => u \in FindKeys(Under(o.of)) BY <2>1 DEF Doomed, FindKeys
  <2> HIDE DEF r
  <2>4. req'[q] = r BY <1>1, <2>1, VBecomes
  <2>5. Doomed(q, u) => Doomed(q, u)' BY <2>2, <2>3, <2>4 DEF Doomed
  <2> QED BY <1>3, <2>1, <2>5
<1>19. CASE EndCascade(q)
  <2>1. o.kind = "cascade" BY <1>2, <1>19, VOrderFields DEF EndCascade, PcOK
  <2>2. ~Doomed(q, u) BY <1>1, <1>19, <2>1 DEF EndCascade, Doomed, CascadesSteady
  <2> QED BY <1>4, <1>7, <1>19, <2>2 DEF EndCascade
<1>20. ASSUME NEW v \in Uids, ReadEach(q, v) PROVE VLeft(q, u)
  <2>1. UNCHANGED <<rows, secrets, strays>> BY <1>7, <1>20 DEF ReadEach, history
  <2> QED BY <1>4, <1>6, <1>20, <2>1 DEF ReadEach, At
<1>21. ASSUME NEW v \in Uids, ReadListed(q, v) PROVE VLeft(q, u)
  <2> DEFINE r == [req[q] EXCEPT !.todo = @ \ {v},
                     !.found = IF v \in DOMAIN secrets THEN @ \cup {v} ELSE @,
                     !.pc = IF req[q].todo = {v} THEN "wipe" ELSE @]
  <2>1. Becomes(q, r) /\ UNCHANGED <<rows, secrets, strays>> /\ req[q].pc = "skim"
    BY <1>21 DEF ReadListed, history
  <2>2. /\ r.todo = req[q].todo \ {v}
        /\ r.found = IF v \in DOMAIN secrets THEN req[q].found \cup {v} ELSE req[q].found
        /\ r.pc = IF req[q].todo = {v} THEN "wipe" ELSE "skim"
    BY <1>2, <2>1 DEF Working
  <2>3. u \in DOMAIN secrets BY <2>1
  <2>4. ASSUME Doomed(q, u)
        PROVE  u \in r.found \/ (u \in r.todo /\ r.pc = "skim")
    <3> HIDE DEF r
    <3>1. u \in req[q].todo \cup req[q].found BY <2>1, <2>4 DEF Doomed
    <3> QED BY <2>2, <2>3, <3>1
  <2>5. r.pc \in {"skim", "wipe"} BY <2>2
  <2> HIDE DEF r
  <2>6. req'[q] = r BY <1>1, <2>1, VBecomes
  <2>7. Doomed(q, u) => Doomed(q, u)' BY <2>4, <2>5, <2>6 DEF Doomed
  <2> QED BY <1>3, <2>1, <2>7
<1>22. ASSUME NEW v \in Uids, WipeEach(q, v) PROVE VLeft(q, u)
  <2> DEFINE r == [req[q] EXCEPT !.found = @ \ {v}]
  <2>1. ~Die BY <1>1 DEF Die
  <2>2. /\ Becomes(q, r) /\ rows' = rows /\ strays' = strays /\ req[q].pc = "wipe"
        /\ secrets' = Without(v)
    BY <1>22, <2>1 DEF WipeEach
  <2>3. r.found = req[q].found \ {v} /\ r.pc = "wipe" BY <1>2, <2>2 DEF Working
  <2> HIDE DEF r
  <2>4. u # v /\ u \in DOMAIN secrets /\ secrets'[u] = secrets[u] BY <2>2 DEF Without
  <2>5. req'[q] = r BY <1>1, <2>2, VBecomes
  <2>6. Doomed(q, u) => Doomed(q, u)' BY <2>2, <2>3, <2>4, <2>5 DEF Doomed
  <2> QED BY <2>2, <2>4, <2>6 DEF VLeft
<1>23. CASE Fail(q)
  <2>1. ~clean' BY <1>23 DEF Fail, Die
  <2> QED BY <2>1
<1> QED
  BY <1>8, <1>9, <1>10, <1>11, <1>12, <1>13, <1>14, <1>15, <1>16, <1>17, <1>18, <1>19,
     <1>20, <1>21, <1>22, <1>23 DEF Step

LEMMA VLeftToCascades ==
    ASSUME VaultAssumption, VInner, NEW q \in Requests, Step(q), VFrame(q)
    PROVE  LeftToCascades'
<1>1. LeftToCascades BY DEF VInner
<1>2. VOthers(q) BY DEF VFrame
<1> SUFFICES ASSUME clean', NEW u \in DOMAIN secrets' \ strays', secrets'[u].of \notin rows'
             PROVE  \E r \in Requests : Doomed(r, u)'
  BY DEF LeftToCascades, Doomed
<1>3. clean BY <1>2 DEF VOthers
<1>4. VLeft(q, u) BY VStepLeft
<1>5. /\ u \in DOMAIN secrets \ strays /\ secrets'[u] = secrets[u]
      /\ secrets[u].of \in rows => Doomed(q, u)'
      /\ Doomed(q, u) => Doomed(q, u)'
  BY <1>4 DEF VLeft
<1>6. CASE secrets[u].of \in rows BY <1>5, <1>6
<1>7. ASSUME NEW r \in Requests, Doomed(r, u) PROVE Doomed(r, u)'
  <2>1. CASE r = q BY <1>5, <1>7, <2>1
  <2>2. CASE r # q
    <3>1. req'[r] = req[r] BY <1>2, <2>2 DEF VOthers
    <3> QED BY <1>5, <1>7, <3>1 DEF Doomed, Under
  <2> QED BY <2>1, <2>2
<1> QED BY <1>1, <1>3, <1>5, <1>6, <1>7 DEF LeftToCascades

-----------------------------------------------------------------------------
LEMMA VStep ==
    ASSUME VaultAssumption, VInner, NEW q \in Requests, Step(q), workload' = workload
    PROVE  VInner'
<1>1. TypeOK /\ CopyFresh /\ NamedKnown /\ Active(q) BY VActive DEF VInner
<1>2. VFrame(q) BY <1>1, VStepFrame
<1>3. TypeOK' BY <1>1, VStepType
<1>4. BackOnlyIfRaced' /\ WrittenIsKept' /\ NamedKnown' /\ PairsRaced' /\ CopyFresh'
  BY <1>1, <1>2, VShared
<1>5. CopiesAgree' BY <1>2, VAgree
<1>6. ListingsSteady' BY <1>2, VListings
<1>7. CascadesSteady' BY <1>2, VCascades
<1>8. LeftToCascades' BY <1>2, VLeftToCascades
<1>9. ListingCovers' BY <1>6 DEF ListingCovers, ListingsSteady, At, Active
<1> QED BY <1>3, <1>4, <1>5, <1>6, <1>7, <1>8, <1>9 DEF VInner

\* An order is received: what it is about is raced if another is about it.
LEMMA VReceive ==
    ASSUME VaultAssumption, VInner, NEW q \in Requests, NEW o \in workload, Receive(q, o),
           workload' = workload
    PROVE  VInner'
<1> DEFINE found == IF o.kind = "list" THEN {u \in DOMAIN secrets : Fits(o, secrets[u])} ELSE {}
           r == [pc |-> "start", order |-> o, copy |-> Nil, todo |-> {}, found |-> {},
                 there |-> found]
<1>1. TypeOK' BY VReceiveType DEF VInner
<1>2. /\ TypeOK /\ PairsRaced /\ CopyFresh /\ CopiesAgree /\ NamedKnown /\ ListingsSteady
      /\ CascadesSteady /\ LeftToCascades /\ BackOnlyIfRaced /\ WrittenIsKept
  BY DEF VInner
<1>3. /\ Becomes(q, r) /\ req[q].pc = "idle" /\ Known(o)
      /\ rows' = rows /\ secrets' = secrets /\ gone' = gone /\ strays' = strays
      /\ wrote' = wrote /\ clean' = clean
      /\ raced' = raced \cup {u \in Uids : About(o, u) /\
                              \E p \in Requests : Active(p) /\ About(req[p].order, u)}
  BY DEF Receive
<1>4. o \in Orders BY <1>2 DEF TypeOK, VaultAssumption
<1>5. /\ r.pc = "start" /\ r.order = o /\ r.todo = {} /\ r.found = {} /\ r.there = found
  OBVIOUS
<1>6. \A u \in found : u \in DOMAIN secrets /\ Fits(o, secrets[u]) OBVIOUS
<1> HIDE DEF r, found
<1>7. req'[q] = r /\ \A p \in Requests : p # q => req'[p] = req[p] BY <1>2, <1>3, VBecomes
<1>8. \A p \in Requests : /\ Active(p) => p # q /\ req'[p] = req[p]
                          /\ req'[p].pc = "change" => p # q /\ req'[p] = req[p]
  BY <1>3, <1>5, <1>7 DEF Active
<1>9. \A x, u : About(x, u)' <=> About(x, u) BY <1>3 DEF About, Under
<1>10. BackOnlyIfRaced' /\ WrittenIsKept'
  BY <1>2, <1>3 DEF BackOnlyIfRaced, WrittenIsKept
<1>11. NamedKnown'
  <2> SUFFICES ASSUME NEW p \in Requests, Named(p)' PROVE Known(req'[p].order)
    BY <1>3 DEF NamedKnown, Known
  <2>1. CASE p = q BY <1>3, <1>5, <1>7, <2>1
  <2>2. CASE p # q
    <3>1. Named(p) /\ req'[p] = req[p] BY <1>7, <2>2 DEF Named, Active
    <3> QED BY <1>2, <3>1 DEF NamedKnown
  <2> QED BY <2>1, <2>2
<1>12. PairsRaced'
  <2> SUFFICES ASSUME NEW p \in Requests, NEW s \in Requests, Named(p)', Active(s)', p # s,
                      NEW u, u = req'[p].order.uid, About(req'[s].order, u)
               PROVE  u \in raced'
    BY <1>9 DEF PairsRaced
  <2>1. CASE p # q /\ s # q
    <3>1. Named(p) /\ Active(s) /\ req'[p] = req[p] /\ req'[s] = req[s]
      BY <1>7, <2>1 DEF Named, Active
    <3> QED BY <1>2, <1>3, <3>1 DEF PairsRaced
  <2>2. CASE p = q
    <3>1. o.kind \in {"edit", "report", "delete"} /\ u = o.uid
      BY <1>5, <1>7, <2>2 DEF Named
    <3>2. About(o, u) /\ u \in Uids BY <1>4, <3>1, VOrderFields DEF About
    <3>3. Active(s) /\ req'[s] = req[s] BY <1>7, <2>2 DEF Active
    <3> QED BY <1>3, <3>2, <3>3
  <2>3. CASE s = q
    <3>1. Named(p) /\ req'[p] = req[p] BY <1>7, <2>3 DEF Named, Active
    <3>2. req[p].order \in Orders BY <1>2, <3>1, VWorkingFields DEF Named
    <3>3. About(req[p].order, u) /\ u \in Uids BY <3>1, <3>2, VOrderFields DEF About, Named
    <3>4. About(o, u) BY <1>5, <1>7, <2>3
    <3> QED BY <1>3, <3>1, <3>3, <3>4 DEF Named
  <2> QED BY <2>1, <2>2, <2>3
<1>13. CopyFresh'
  BY <1>2, <1>3, <1>8 DEF CopyFresh
<1>14. CopiesAgree' BY <1>2, <1>3, <1>8 DEF CopiesAgree, SamePlace
<1>15. \A x, u : Steady(x, u) => Steady(x, u)'
  BY <1>3, <1>8 DEF Steady, Fits, Under
<1>16. ListingsSteady'
  <2> SUFFICES ASSUME NEW p \in Requests, Active(p)', req'[p].order.kind = "list",
                      NEW x, x = req'[p].order
               PROVE  /\ \A u \in req'[p].there : Steady(x, u)'
                      /\ req'[p].pc = "each" =>
                           req'[p].there \ gone' \subseteq req'[p].found \cup req'[p].todo
    BY DEF ListingsSteady, Steady
  <2>1. CASE p # q
    <3>1. Active(p) /\ req'[p] = req[p] BY <1>7, <2>1 DEF Active
    <3> QED BY <1>2, <1>3, <1>15, <3>1 DEF ListingsSteady
  <2>2. CASE p = q
    <3>1. ASSUME NEW u \in found PROVE Steady(o, u)
      <4>1. u \in DOMAIN secrets /\ Fits(o, secrets[u]) BY <1>6
      <4>2. ASSUME NEW v \in Requests, req[v].pc = "change", req[v].order.uid = u
            PROVE  Fits(o, req[v].copy)
        <5>1. SamePlace(req[v].copy, secrets[u]) BY <1>2, <4>1, <4>2 DEF CopiesAgree
        <5> QED BY <4>1, <5>1 DEF Fits, SamePlace
      <4> QED BY <4>1, <4>2 DEF Steady
    <3>2. x = o /\ req'[p].there = found /\ req'[p].pc # "each" BY <1>5, <1>7, <2>2
    <3> QED BY <1>15, <3>1, <3>2
  <2> QED BY <2>1, <2>2
<1>17. CascadesSteady'
  <2> SUFFICES ASSUME NEW p \in Requests, Active(p)', req'[p].order.kind = "cascade",
                      NEW x, x = req'[p].order
               PROVE  /\ \A u \in req'[p].todo \cup req'[p].found : Steady(x, u)'
                      /\ req'[p].pc # "start" => rows' \cap Under(x.of) = {}
                      /\ req'[p].pc \in {"start", "ids"}
                           \/ (req'[p].pc = "skim" /\ req'[p].todo = {}) => req'[p].found = {}
    BY DEF CascadesSteady, Steady, Under
  <2>1. CASE p # q
    <3>1. Active(p) /\ req'[p] = req[p] BY <1>7, <2>1 DEF Active
    <3> QED BY <1>2, <1>3, <1>15, <3>1 DEF CascadesSteady
  <2>2. CASE p = q BY <1>5, <1>7, <2>2
  <2> QED BY <2>1, <2>2
<1>18. LeftToCascades'
  <2>1. ASSUME NEW p \in Requests, NEW u, Doomed(p, u) PROVE Doomed(p, u)'
    <3>1. req'[p] = req[p] BY <1>8, <2>1 DEF Doomed, Active
    <3> QED BY <1>3, <2>1, <3>1 DEF Doomed, Under
  <2> QED BY <1>2, <1>3, <2>1 DEF LeftToCascades
<1>19. ListingCovers' BY <1>16 DEF ListingCovers, ListingsSteady, At, Active
<1> QED
  BY <1>1, <1>10, <1>11, <1>12, <1>13, <1>14, <1>16, <1>17, <1>18, <1>19 DEF VInner

LEMMA VIdleStep == ASSUME VInner, UNCHANGED vars PROVE VInner'
<1> USE DEF vars, VInner, Active, At, About, Fits
<1>1. TypeOK' /\ BackOnlyIfRaced' /\ WrittenIsKept' /\ ListingCovers'
  BY DEF TypeOK, BackOnlyIfRaced, WrittenIsKept, ListingCovers
<1>2. NamedKnown' /\ PairsRaced' BY DEF NamedKnown, Known, Named, PairsRaced
<1>3. CopyFresh' /\ CopiesAgree' BY DEF CopyFresh, CopiesAgree, SamePlace
<1>4. ListingsSteady' /\ CascadesSteady' BY DEF ListingsSteady, CascadesSteady, Steady
<1>5. LeftToCascades' BY DEF LeftToCascades, Doomed
<1> QED BY <1>1, <1>2, <1>3, <1>4, <1>5

LEMMA VNothingLeft == ASSUME VaultAssumption, VInner PROVE NothingLeftBehind
<1> SUFFICES ASSUME clean, \A q \in Requests : Active(q) => req[q].order.kind # "cascade",
                    NEW u \in DOMAIN secrets \ strays
             PROVE  secrets[u].of \in rows
  BY DEF NothingLeftBehind
<1>1. ASSUME NEW q \in Requests, Doomed(q, u) PROVE FALSE
  <2>1. Active(q) BY <1>1 DEF Doomed, Active
  <2>2. req[q].order \in Orders /\ PcOK(req[q].pc, req[q].order.kind)
    BY <2>1, VWorkingFields DEF VInner
  <2> QED BY <1>1, <2>1, <2>2, VOrderFields DEF Doomed, PcOK
<1> QED BY <1>1 DEF VInner, LeftToCascades

LEMMA VNext == ASSUME VaultAssumption, VInner, [Next]_vars PROVE VInner'
<1>1. CASE UNCHANGED vars BY <1>1, VIdleStep
<1>2. ASSUME NEW q \in Requests, Step(q), workload' = workload PROVE VInner'
  BY <1>2, VStep
<1>3. ASSUME NEW q \in Requests, NEW o \in workload, Receive(q, o), workload' = workload
      PROVE  VInner'
  BY <1>3, VReceive
<1> QED BY <1>1, <1>2, <1>3 DEF Next

(* Of the credentials in Vault, for any number of them, of resources and of *)
(* requests: a deleted one comes back only out of a race, what the clients *)
(* and the listener wrote is kept (an error until the next write), a        *)
(* listing has what was there, and when the cascades are over no secret is *)
(* left of a resource that is gone.                                        *)
THEOREM VaultSafe == Spec => []VaultInv
<1>1. Init => VInner BY VaultAssumption, VInit
<1>2. VInner /\ [Next]_vars => VInner' BY VaultAssumption, VNext
<1>3. VInner => VaultInv BY VaultAssumption, VNothingLeft DEF VInner, VaultInv
<1> QED BY <1>1, <1>2, <1>3, PTL DEF Spec

LEMMA VOwn ==
    ASSUME VaultAssumption, VInner, [Next]_vars, NEW u \in DOMAIN secrets \ DOMAIN secrets'
    PROVE  \/ secrets[u].of \notin rows
           \/ \E q \in Requests : At(q, "delete", "drop") /\ req[q].order.uid = u
<1>1. CASE UNCHANGED vars BY <1>1 DEF vars
<1>2. ASSUME NEW q \in Requests, Step(q)
      PROVE  \/ secrets[u].of \notin rows
             \/ At(q, "delete", "drop") /\ req[q].order.uid = u
  <2>1. TypeOK /\ CopyFresh /\ NamedKnown /\ CascadesSteady /\ Active(q)
    BY <1>2, VActive DEF VInner
  <2>2. VDrops(q, u) BY <1>2, <2>1, VStepFrame DEF VFrame, VSecrets
  <2>3. CASE req[q].pc = "wipe" /\ u \in req[q].found
    <3>1. req[q].order \in Orders /\ PcOK(req[q].pc, req[q].order.kind)
      BY <2>1, VWorkingFields
    <3>2. req[q].order.kind = "cascade" BY <2>3, <3>1, VOrderFields DEF PcOK
    <3>3. Steady(req[q].order, u) /\ rows \cap Under(req[q].order.of) = {}
      BY <2>1, <2>3, <3>2 DEF CascadesSteady
    <3>4. secrets[u].of \in Under(req[q].order.of) BY <3>2, <3>3 DEF Steady, Fits
    <3> QED BY <3>3, <3>4
  <2> QED BY <2>2, <2>3 DEF VDrops
<1>3. ASSUME NEW q \in Requests, NEW o \in workload, Receive(q, o) PROVE FALSE
  BY <1>3 DEF Receive
<1> QED BY <1>1, <1>2, <1>3 DEF Next

(* A secret goes only by the order to delete it or with its own resource:  *)
(* never with one whose id is a prefix of the id of its resource.          *)
THEOREM VaultOwn == Spec => OnlyItsOwn
<1>1. VaultInv /\ [Next]_vars =>
         [\A u \in DOMAIN secrets \ DOMAIN secrets' :
            \/ secrets[u].of \notin rows
            \/ \E q \in Requests : At(q, "delete", "drop") /\ req[q].order.uid = u]_vars
  BY VaultAssumption, VOwn DEF VaultInv, VInner
<1> QED BY <1>1, VaultSafe, PTL DEF Spec, OnlyItsOwn
=============================================================================
