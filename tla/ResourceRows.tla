---------------------------- MODULE ResourceRows ----------------------------
(* The rows of sources and applications, which requests of every kind are  *)
(* about. Ids come from sequences and are never given to another row.      *)
CONSTANTS
    Sources, Apps,
    SourceOf,  \* applications.source_id
    Nil        \* NULL, or a zero value in memory

ASSUME ResourceAssumption == Sources \cap Apps = {} /\ SourceOf \in [Apps -> Sources]

Resources == Sources \cup Apps

\* What a cascade removes (module CascadeDelete), and a pause pauses.
Under(x) == {x} \cup {a \in Apps : SourceOf[a] = x}
=============================================================================
