------------------------------ MODULE MCFrontends ------------------------------
(* Requests and calls for Frontends.                                        *)
EXTENDS Frontends

AllBackends == {"qaoa_sim", "qaoa_ibm", "dwave_hybrid"}

\* A request the policy sets no limits to, for IBM hardware.
Open ==
  [level |-> 4, approved |-> TRUE, budget |-> 2, gate |-> TRUE, anneal |-> TRUE,
   qpu |-> "ibm", available |-> AllBackends]

\* One for the simulator, and one that may not execute anything.
Simulated == [Open EXCEPT !.level = 2, !.qpu = "sim"]

Explained == [Simulated EXCEPT !.level = 1]

\* Execution policies, approvals and sets of backends: all those that differ
\* from Open in two fields at most.  L0 and L1 allow the same as far as the
\* pipeline asks.
MCRequests ==
  {r \in [level : 1..4, approved : BOOLEAN, budget : {0, 2}, gate : BOOLEAN, anneal : BOOLEAN,
          qpu : {"sim", "ibm", "dwave"}, available : SUBSET AllBackends] :
     Cardinality({f \in DOMAIN r : r[f] # Open[f]}) <= 2}

\* Every request once through the API, one of them saved, and two from the
\* command line: one that executes quietly, and one that does not execute and
\* prints its progress.
MCCalls ==
  [door : {"api"}, request : MCRequests, persist : {FALSE}, sink : {"none"}]
    \cup [door : {"api"}, request : {Open}, persist : {TRUE}, sink : {"none"}]
    \cup [door : {"cli"}, request : {Simulated}, persist : {TRUE}, sink : {"none"}]
    \cup [door : {"cli"}, request : {Explained}, persist : {TRUE}, sink : {"console"}]
=============================================================================
