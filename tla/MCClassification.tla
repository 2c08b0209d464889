--------------------------- MODULE MCClassification ---------------------------
(* Requests and data sets for Classification.                               *)
EXTENDS Classification

\* Runs at L1 and L2 with everything at hand, and one that has to abstain.
ThreeRequests ==
  {[level |-> 1, approved |-> FALSE, budget |-> 0, gate |-> TRUE, sim |-> TRUE],
   [level |-> 2, approved |-> FALSE, budget |-> 0, gate |-> TRUE, sim |-> TRUE],
   [level |-> 4, approved |-> TRUE, budget |-> 0, gate |-> TRUE, sim |-> FALSE]}

\* Three samples out of order, two of them taken at the same time.
TiedTimes == {<<2, 1, 2>>}
=============================================================================
