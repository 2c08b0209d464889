---------------------------- MODULE EvidenceStore ----------------------------
(***************************************************************************)
(* The file-based evidence store (qf_agentos/governance/store.py) as the   *)
(* REST API and the CLI use it on one directory: save writes the manifest, *)
(* the report and the model card of a run, each file truncated first and   *)
(* filled later, and then appends a line to the index.  The API's threads  *)
(* save under _persist_lock; a CLI process does not know that lock.  A     *)
(* process may die and a write may fail between any two steps.             *)
(*                                                                         *)
(* The name of a run is the second it started in and the digest of its     *)
(* spec (make_run_id).  The evidence itself is the identity of the call of *)
(* save that wrote it, as two executions of one spec may differ in it.     *)
(***************************************************************************)
EXTENDS Integers, Sequences, FiniteSets

CONSTANTS
  Saves,     \* runs that persist their evidence
  Api,       \* those of them in the API process, which take the lock
  Specs,     \* digests of specs
  SpecOf,    \* SpecOf[s]: the spec that run s solves
  LastSecond,\* bound on the clock
  Nobody     \* the lock is free

ASSUME EvidenceStoreAssumption ==
  /\ IsFiniteSet(Saves) /\ Api \subseteq Saves
  /\ SpecOf \in [Saves -> Specs]
  /\ LastSecond \in Nat
  /\ Nobody \notin Saves

Files == <<"manifest.json", "report.md", "model_card.md">>

FileNames == {Files[i] : i \in 1..Len(Files)}

Runs == [second : 0..LastSecond, spec : Specs]

VARIABLES
  clock,  \* the second it is
  since,  \* since[s]: the second s was solved in, as a set of at most one
  run,    \* run[s]: the run id of s, as a set of at most one
  next,   \* next[s]: the next write of save: 2i-1 truncates file i, 2i fills it
  phase,  \* phase[s]: how far s is
  lock,   \* holder of _persist_lock
  file,   \* file[r][f]: what is in file f of run r
  lines,  \* index.jsonl: its lines
  cut,    \* the last line of the index has no end
  wanted, \* the record of the list a reader is about to open, as a set
  got     \* what it read, as a set

files    == <<file, lines, cut>>
reader   == <<wanted, got>>
evidence == <<clock, since, run, next, phase, lock, files, reader>>

IndexStep == 2 * Len(Files) + 1

\* A line that does not parse is skipped by list_runs.
Listed == {lines[i].record : i \in {n \in 1..Len(lines) : lines[n].good}}

StoreInit ==
  /\ clock = 0
  /\ since = [s \in Saves |-> {}]
  /\ run = [s \in Saves |-> {}]
  /\ next = [s \in Saves |-> 1]
  /\ phase = [s \in Saves |-> "idle"]
  /\ lock = Nobody
  /\ file = [r \in Runs |-> [f \in FileNames |-> "absent"]]
  /\ lines = <<>>
  /\ cut = FALSE
  /\ wanted = {}
  /\ got = {}

-----------------------------------------------------------------------------
(* Runs that persist their evidence.                                       *)

Tick ==
  /\ clock < LastSecond
  /\ clock' = clock + 1
  /\ UNCHANGED <<since, run, next, phase, lock, files, reader>>

\* Mutant of RunId: the time of day is not part of the name.
RunIdUntimed(s) == [second |-> 0, spec |-> SpecOf[s]]

\* make_run_id: the second it is and the digest of the spec.
RunId(s) == [second |-> clock, spec |-> SpecOf[s]]

\* solve names the run when it starts; the pipeline itself is not in sight.
Solve(s) ==
  /\ phase[s] = "idle"
  /\ since' = [since EXCEPT ![s] = {clock}]
  /\ run' = [run EXCEPT ![s] = {RunId(s)}]
  /\ phase' = [phase EXCEPT ![s] = "solved"]
  /\ UNCHANGED <<clock, next, lock, files, reader>>

\* The API takes the lock, the CLI goes on without.
BeginSave(s) ==
  /\ phase[s] = "solved"
  /\ s \in Api => lock = Nobody
  /\ lock' = IF s \in Api THEN s ELSE lock
  /\ phase' = [phase EXCEPT ![s] = "saving"]
  /\ UNCHANGED <<clock, since, run, next, files, reader>>

\* Mutant of EndSave: the lock is not given back.
EndSaveLocked(s, how) == UNCHANGED lock /\ phase' = [phase EXCEPT ![s] = how]

\* The with block ends, however save did.
EndSave(s, how) ==
  /\ lock' = IF lock = s THEN Nobody ELSE lock
  /\ phase' = [phase EXCEPT ![s] = how]

\* One of the writes of save succeeds: write_text opens, and so empties, the
\* file, and its contents arrive when it is closed.  Written over what another
\* call put there in between, they can end up mixed with that.
WriteFile(s, r) ==
  \E i \in 1..Len(Files) :
    LET f == Files[i]
    IN /\ next[s] \in {2 * i - 1, 2 * i}
       /\ \E c \in IF next[s] = 2 * i - 1 THEN {"empty"}
                   ELSE IF file[r][f] = "empty" THEN {s} ELSE {s, "mixed"} :
            file' = [file EXCEPT ![r][f] = c]
       /\ next' = [next EXCEPT ![s] = @ + 1]
       /\ UNCHANGED <<lines, cut, phase, lock>>

\* Mutant of AppendLine: the line may go out before the files do.
AppendLineEarly(s, r) ==
  /\ next[s] \in {1, IndexStep}
  /\ lines' = Append(lines, [record |-> [run |-> r, save |-> s], good |-> ~cut])
  /\ cut' = FALSE
  /\ EndSave(s, "saved")
  /\ UNCHANGED <<file, next>>

\* The line of the index goes out in one write; behind half a line it becomes
\* part of that.
AppendLine(s, r) ==
  /\ next[s] = IndexStep
  /\ lines' = Append(lines, [record |-> [run |-> r, save |-> s], good |-> ~cut])
  /\ cut' = FALSE
  /\ EndSave(s, "saved")
  /\ UNCHANGED <<file, next>>

Write(s) ==
  /\ phase[s] = "saving"
  /\ \E r \in run[s] : WriteFile(s, r) \/ AppendLine(s, r)
  /\ UNCHANGED <<clock, since, run, reader>>

\* Mutant of FailWrite: the failure is swallowed.
FailWriteSwallowed(s) ==
  /\ phase[s] = "saving"
  /\ EndSave(s, "saved")
  /\ UNCHANGED <<clock, since, run, next, files, reader>>

\* A write raises (no space left): the file stays as it is, and so does the
\* index, or it ends in half a line.
FailWrite(s) ==
  /\ phase[s] = "saving"
  /\ EndSave(s, "failed")
  /\ cut' \in IF next[s] = IndexStep THEN {cut, TRUE} ELSE {cut}
  /\ UNCHANGED <<clock, since, run, next, file, lines, reader>>

Busy == {s \in Saves : phase[s] \in {"solved", "saving"}}

\* The API process dies with all it was doing; its lock dies with it.
CrashApi ==
  /\ Busy \cap Api # {}
  /\ phase' = [s \in Saves |-> IF s \in Busy \cap Api THEN "dead" ELSE phase[s]]
  /\ lock' = Nobody
  /\ UNCHANGED <<clock, since, run, next, files, reader>>

CrashCli(s) ==
  /\ s \in Busy \ Api
  /\ phase' = [phase EXCEPT ![s] = "dead"]
  /\ UNCHANGED <<clock, since, run, next, lock, files, reader>>

-----------------------------------------------------------------------------
(* A reader: GET /runs, and GET /runs/{run_id} for one of the answer.      *)

ListRuns ==
  /\ wanted = {}
  /\ \E rec \in Listed : wanted' = {rec}
  /\ got' = {}
  /\ UNCHANGED <<clock, since, run, next, phase, lock, files>>

LoadManifest ==
  /\ \E rec \in wanted : got' = {file[rec.run]["manifest.json"]}
  /\ got = {}
  /\ UNCHANGED <<clock, since, run, next, phase, lock, files, wanted>>

CloseReader ==
  /\ got # {}
  /\ wanted' = {}
  /\ got' = {}
  /\ UNCHANGED <<clock, since, run, next, phase, lock, files>>

-----------------------------------------------------------------------------
Save(s) == BeginSave(s) \/ Write(s) \/ FailWrite(s)

StoreNext ==
  \/ Tick
  \/ \E s \in Saves : Solve(s) \/ Save(s) \/ CrashCli(s)
  \/ CrashApi
  \/ ListRuns \/ LoadManifest \/ CloseReader

StoreSpec == StoreInit /\ [][StoreNext]_evidence

-----------------------------------------------------------------------------
\* Those who have written under the run id of s as well: executions of the same
\* spec that began in the same second.
Namesakes(s) ==
  {t \in Saves \ {s} : SpecOf[t] = SpecOf[s] /\ since[t] = since[s] /\ next[t] > 1}

\* What may be in a file that s has written: its own evidence, and only if it
\* has namesakes theirs, or what their writes and its own have left of both.
Attributable(s) ==
  {s} \cup IF Namesakes(s) = {} THEN {} ELSE Namesakes(s) \cup {"empty", "mixed"}

\* A save that returned left the whole bundle and a line of the index, whatever
\* other saves, failures and crashes it met, and nobody but an execution of the
\* same spec in the same second has touched its files since; a line that half a
\* line before it made unreadable is the only way to be missing from the list,
\* and no failed save costs more than one other (store.py:52-85, pipeline.py:80-82).
SavedIsListed ==
  LET Saved == {s \in Saves : phase[s] = "saved"}
      Found == {rec.save : rec \in Listed}
  IN /\ \A s \in Saved :
          /\ \A r \in run[s], f \in FileNames : file[r][f] \in Attributable(s)
          /\ \E i \in 1..Len(lines) : lines[i].record.save = s /\ lines[i].record.run \in run[s]
     /\ Cardinality(Saved \ Found) <= Cardinality({s \in Saves : phase[s] = "failed"})

\* Who opens a run of the list gets the evidence the list spoke of, complete, or
\* there was an execution of the same spec in the same second, and what is read
\* comes from one of the two or from both (store.py:73-92, api.py:210-221,
\* pipeline.py:80-82).
ReadersGetWhatWasListed ==
  \A rec \in wanted, c \in got : c \in Attributable(rec.save)

\* Only one execution has this spec.
SolvedOnce(spec) == \A s, t \in Saves : SpecOf[s] = spec /\ SpecOf[t] = spec => s = t

\* The listed runs with run ids that cannot be shared, with their manifests, are
\* a registry that publishes each run once and for all.
Unshared == {rec \in Listed : SolvedOnce(rec.run.spec)}

Shown == [r \in {rec.run : rec \in Unshared} |-> file[r]["manifest.json"]]

Registry == INSTANCE EvidenceRegistry WITH published <- Shown

\* Every step of save, reading and crashing is a publication or invisible in
\* the registry, whatever becomes of run ids that are shared (store.py:52-92).
ImplementsRegistry == Registry!Spec

=============================================================================
