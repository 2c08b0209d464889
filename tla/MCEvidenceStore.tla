--------------------------- MODULE MCEvidenceStore ---------------------------
(* Specs for the saves of EvidenceStore.                                    *)
EXTENDS EvidenceStore

\* A save that is a spec solves that one, the others share what is left.
SomeOwn == [s \in Saves |-> IF s \in Specs THEN s ELSE CHOOSE p \in Specs : p \notin Saves]

=============================================================================
