-------------------------- MODULE EvidenceRegistry --------------------------
(***************************************************************************)
(* What an evidence store promises those who list runs and open them: a    *)
(* run is published once, with its whole evidence, and neither disappears  *)
(* nor changes afterwards.  Files, locks and index lines are not in sight. *)
(***************************************************************************)
CONSTANTS Runs,   \* run ids
          Saves   \* calls of save, each with evidence of its own

VARIABLE published  \* the evidence of each run that is listed

Init == published = [r \in {} |-> r]

Publish(r, s) ==
  /\ r \notin DOMAIN published
  /\ published' = [q \in DOMAIN published \cup {r} |-> IF q = r THEN s ELSE published[q]]

Next == \E r \in Runs, s \in Saves : Publish(r, s)

Spec == Init /\ [][Next]_published
=============================================================================
