---------------------------- MODULE EvidenceUpsert ----------------------------
(***************************************************************************)
(* What a store that replaces the evidence of a run promises the callers   *)
(* of save: a call takes effect once, at one moment between its beginning  *)
(* and its answer, and as a whole; one that was not answered has taken     *)
(* effect or has not; nothing else changes or removes what is listed.      *)
(***************************************************************************)
CONSTANTS Runs,   \* run ids
          Saves,  \* calls of save, each with evidence of its own
          RunOf   \* RunOf[s]: the run that s saves

VARIABLES published, \* the evidence of each run that is listed
          answer     \* answer[s]: "none" yet, "saved", or "lost"

board == <<published, answer>>

Init ==
  /\ published = [r \in {} |-> r]
  /\ answer = [s \in Saves |-> "none"]

\* The registry with the evidence of s as that of its run.
With(s) ==
  [r \in DOMAIN published \cup {RunOf[s]} |-> IF r = RunOf[s] THEN s ELSE published[r]]

Keep(s) ==
  /\ answer[s] = "none"
  /\ answer' = [answer EXCEPT ![s] = "saved"]
  /\ published' = With(s)

\* The calls in gone get no answer; one of them may have taken effect.
Lose(gone) ==
  /\ \A s \in gone : answer[s] = "none"
  /\ answer' = [s \in Saves |-> IF s \in gone THEN "lost" ELSE answer[s]]
  /\ published' \in {published} \cup {With(s) : s \in gone}

Next == (\E s \in Saves : Keep(s)) \/ (\E gone \in SUBSET Saves : Lose(gone))

Spec == Init /\ [][Next]_board
=============================================================================
