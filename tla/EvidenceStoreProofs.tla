-------------------------- MODULE EvidenceStoreProofs --------------------------
(***************************************************************************)
(* Proofs about EvidenceStore: for any number of saves, of any specs, with *)
(* the lock and without, whichever writes fail and processes die.          *)
(***************************************************************************)
EXTENDS EvidenceStore, SequenceTheorems, FiniteSetTheorems, TLAPS

Phases == {"idle", "solved", "saving", "saved", "failed", "dead"}

Records == [run : Runs, save : Saves]

StoreTypeOK ==
  /\ clock \in 0..LastSecond
  /\ since \in [Saves -> SUBSET (0..LastSecond)]
  /\ run \in [Saves -> SUBSET Runs]
  /\ next \in [Saves -> 1..IndexStep]
  /\ phase \in [Saves -> Phases]
  /\ file \in [Runs -> [FileNames -> {"absent", "empty", "mixed"} \cup Saves]]
  /\ lines \in Seq([record : Records, good : BOOLEAN])
  /\ cut \in BOOLEAN

\* A save has one run id, which names its spec and the second it began in, and
\* writes only once it has it.
NamesInv ==
  \A s \in Saves :
    /\ phase[s] = "idle" => run[s] = {} /\ next[s] = 1
    /\ \A r \in run[s] : r.spec = SpecOf[s] /\ since[s] = {r.second}
    /\ \A q, r \in run[s] : q = r

\* What the namesakes of a save leave in its files.
Intruded(s) == IF Namesakes(s) = {} THEN {} ELSE Namesakes(s) \cup {"empty", "mixed"}

\* How far a save is tells what its files hold, if no namesake writes them too.
FilesInv ==
  \A s \in Saves : \A r \in run[s], i \in 1..3 :
    /\ next[s] > 2 * i => file[r][Files[i]] \in {s} \cup Intruded(s)
    /\ next[s] = 2 * i => file[r][Files[i]] \in {"empty"} \cup Intruded(s)

\* A line of the index is that of a save that has come to its end.
LinesInv ==
  \A n \in 1..Len(lines) :
    LET rec == lines[n].record
    IN phase[rec.save] = "saved" /\ next[rec.save] = IndexStep /\ rec.run \in run[rec.save]

\* A reader has one record of the list in hand, and its evidence.
ReaderInv ==
  /\ wanted \subseteq Listed
  /\ \A x, y \in wanted : x = y
  /\ ReadersGetWhatWasListed

\* An answered save has made all its writes, and the saves that are missing from
\* the list, with half a line at the end of the index, are no more than those
\* that failed.
Missing == {s \in Saves : phase[s] = "saved"} \ {rec.save : rec \in Listed}

Broken == {s \in Saves : phase[s] = "failed"}

SavedInv ==
  /\ \A s \in Saves : phase[s] = "saved" =>
       /\ next[s] = IndexStep
       /\ \E i \in 1..Len(lines) : lines[i].record.save = s /\ lines[i].record.run \in run[s]
  /\ Cardinality(Missing) + (IF cut THEN 1 ELSE 0) <= Cardinality(Broken)

StoreInv == StoreTypeOK /\ NamesInv /\ FilesInv /\ LinesInv /\ ReaderInv

-----------------------------------------------------------------------------
(* The invariant.                                                          *)

LEMMA ThreeFiles ==
  /\ Len(Files) = 3 /\ IndexStep = 7
  /\ FileNames = {Files[1], Files[2], Files[3]}
  /\ \A i \in 1..3 : Files[i] \in FileNames
  /\ \A i, j \in 1..3 : Files[i] = Files[j] => i = j
  /\ Files[1] = "manifest.json"
<1>1. Len(Files) = 3 /\ Files[1] = "manifest.json" /\ Files[2] = "report.md" /\ Files[3] = "model_card.md"
  BY DEF Files
<1>2. FileNames = {Files[1], Files[2], Files[3]} /\ \A i \in 1..3 : Files[i] \in FileNames
  BY <1>1 DEF FileNames
<1> QED
  BY <1>1, <1>2 DEF IndexStep

LEMMA LineTyped ==
  ASSUME StoreTypeOK, NEW n \in 1..Len(lines)
  PROVE  lines[n].record \in Records /\ lines[n].record.save \in Saves
<1>1. lines \in Seq([record : Records, good : BOOLEAN])
  BY DEF StoreTypeOK
<1>2. lines[n] \in [record : Records, good : BOOLEAN]
  BY <1>1, ElementOfSeq
<1> QED
  BY <1>2 DEF Records

\* Run ids tell saves apart, but for those of one spec and one second, ...
LEMMA SharedRun ==
  ASSUME StoreInv, NEW s \in Saves, NEW t \in Saves, NEW r \in run[s], r \in run[t]
  PROVE  SpecOf[s] = SpecOf[t] /\ since[s] = since[t]
<1>1. r.spec = SpecOf[s] /\ since[s] = {r.second}
  BY DEF StoreInv, NamesInv
<1>2. r.spec = SpecOf[t] /\ since[t] = {r.second}
  BY DEF StoreInv, NamesInv
<1> QED
  BY <1>1, <1>2

\* ... of which there are none if the spec is solved once.
LEMMA OwnRun ==
  ASSUME StoreInv, NEW s \in Saves, NEW t \in Saves, NEW r \in run[s], r \in run[t],
         SolvedOnce(r.spec)
  PROVE  s = t
BY DEF StoreInv, NamesInv, SolvedOnce

LEMMA NoNamesakes ==
  ASSUME NEW s \in Saves, SolvedOnce(SpecOf[s])
  PROVE  Namesakes(s) = {} /\ Intruded(s) = {} /\ Attributable(s) = {s}
<1>1. Namesakes(s) = {}
  BY DEF SolvedOnce, Namesakes
<1> QED
  BY <1>1 DEF Intruded, Attributable

LEMMA AttributableIs ==
  ASSUME NEW s
  PROVE  Attributable(s) = {s} \cup Intruded(s) /\ Attributable(s)' = {s} \cup Intruded(s)'
BY DEF Attributable, Intruded

LEMMA AttributableStays ==
  ASSUME UNCHANGED <<since, next>>, NEW s
  PROVE  Intruded(s)' = Intruded(s) /\ Attributable(s)' = Attributable(s)
BY DEF Attributable, Intruded, Namesakes

\* Who has written under a run id stays a namesake, so that what could be in a
\* file of s once may be there later.
LEMMA NamesakesStay ==
  ASSUME NEW s \in Saves, since'[s] = since[s],
         \A t \in Saves : next[t] > 1 => since'[t] = since[t] /\ next'[t] > 1
  PROVE  Namesakes(s) \subseteq Namesakes(s)' /\ Intruded(s) \subseteq Intruded(s)'
<1>1. Namesakes(s) \subseteq Namesakes(s)'
  BY DEF Namesakes
<1> QED
  BY <1>1 DEF Intruded

\* What is listed comes from a line of the index.
LEMMA ListedRecord ==
  ASSUME StoreInv, NEW rec \in Listed
  PROVE  /\ rec.save \in Saves /\ rec.run \in Runs /\ rec \in Records
         /\ phase[rec.save] = "saved" /\ next[rec.save] = IndexStep /\ rec.run \in run[rec.save]
<1>1. PICK n \in 1..Len(lines) : rec = lines[n].record
  BY DEF Listed
<1>2. lines[n].record \in Records
  BY <1>1, LineTyped DEF StoreInv
<1> QED
  BY <1>1, <1>2 DEF StoreInv, LinesInv, Records

\* The evidence of a listed run is in its manifest, or that of a namesake.
LEMMA ListedManifest ==
  ASSUME StoreInv, NEW rec \in Listed
  PROVE  file[rec.run]["manifest.json"] \in Attributable(rec.save)
<1>1. rec.save \in Saves /\ rec.run \in run[rec.save] /\ next[rec.save] > 2 * 1
  BY ListedRecord, ThreeFiles
<1> QED
  BY <1>1, ThreeFiles, AttributableIs DEF StoreInv, FilesInv

LEMMA InitStoreInv == StoreInit => StoreInv
<1> SUFFICES ASSUME StoreInit
             PROVE  StoreInv
  OBVIOUS
<1>1. StoreTypeOK
  <2>1. clock \in 0..LastSecond /\ next \in [Saves -> 1..IndexStep] /\ phase \in [Saves -> Phases]
    BY EvidenceStoreAssumption, ThreeFiles DEF StoreInit, Phases
  <2>2. run \in [Saves -> SUBSET Runs] /\ cut \in BOOLEAN /\ since \in [Saves -> SUBSET (0..LastSecond)]
    BY DEF StoreInit
  <2>4. lines \in Seq([record : Records, good : BOOLEAN])
    BY EmptySeq DEF StoreInit
  <2>3. file \in [Runs -> [FileNames -> {"absent", "empty", "mixed"} \cup Saves]]
    BY DEF StoreInit
  <2> QED
    BY <2>1, <2>2, <2>3, <2>4 DEF StoreTypeOK
<1>2. NamesInv /\ FilesInv
  BY DEF StoreInit, NamesInv, FilesInv
<1>3. LinesInv /\ ReaderInv
  BY DEF StoreInit, LinesInv, ReaderInv, ReadersGetWhatWasListed
<1> QED
  BY <1>1, <1>2, <1>3 DEF StoreInv

\* Steps that move phases only: time, the lock, failures and deaths.
LEMMA PhaseStep ==
  ASSUME StoreInv, clock' \in 0..LastSecond, cut' \in BOOLEAN, phase' \in [Saves -> Phases],
         UNCHANGED <<since, run, next, file, lines, wanted, got>>,
         \A s \in Saves : /\ phase[s] = "saved" => phase'[s] = "saved"
                          /\ phase'[s] = "idle" => phase[s] = "idle"
  PROVE  StoreInv'
<1>1. StoreTypeOK'
  BY DEF StoreInv, StoreTypeOK
<1>2. NamesInv' /\ FilesInv'
  BY AttributableStays DEF StoreInv, NamesInv, FilesInv
<1>3. LinesInv'
  <2> SUFFICES ASSUME NEW n \in 1..Len(lines)
               PROVE  /\ phase'[lines[n].record.save] = "saved"
                      /\ next[lines[n].record.save] = IndexStep
                      /\ lines[n].record.run \in run[lines[n].record.save]
    BY DEF LinesInv
  <2>1. lines[n].record.save \in Saves
    BY LineTyped DEF StoreInv
  <2> QED
    BY <2>1 DEF StoreInv, LinesInv
<1>4. ReaderInv'
  BY AttributableStays DEF StoreInv, ReaderInv, ReadersGetWhatWasListed, Listed
<1> QED
  BY <1>1, <1>2, <1>3, <1>4 DEF StoreInv

\* A run is named.
LEMMA SolveStep ==
  ASSUME StoreInv, NEW s \in Saves, Solve(s)
  PROVE  StoreInv'
<1> DEFINE id == [second |-> clock, spec |-> SpecOf[s]]
<1>1. /\ since' = [since EXCEPT ![s] = {clock}]
      /\ run' = [run EXCEPT ![s] = {id}] /\ phase' = [phase EXCEPT ![s] = "solved"]
      /\ UNCHANGED <<clock, next, file, lines, cut, wanted, got>>
      /\ run[s] = {} /\ next[s] = 1 /\ phase[s] = "idle"
  BY DEF Solve, RunId, files, reader, StoreInv, NamesInv
<1>2. id \in Runs /\ id.spec = SpecOf[s] /\ id.second = clock /\ clock \in 0..LastSecond
  BY EvidenceStoreAssumption DEF StoreInv, StoreTypeOK, Runs
<1>3. StoreTypeOK'
  BY <1>1, <1>2 DEF StoreInv, StoreTypeOK, Phases
<1>4. NamesInv'
  BY <1>1, <1>2 DEF StoreInv, StoreTypeOK, NamesInv
<1>5. ASSUME NEW t \in Saves, t # s
      PROVE  Namesakes(t) \subseteq Namesakes(t)' /\ Intruded(t) \subseteq Intruded(t)'
  <2>1. since'[t] = since[t] /\ \A u \in Saves : next[u] > 1 => since'[u] = since[u] /\ next'[u] > 1
    BY <1>1, <1>5 DEF StoreInv, StoreTypeOK
  <2> QED
    BY <2>1, NamesakesStay
<1>6. FilesInv'
  <2> SUFFICES ASSUME NEW t \in Saves, NEW q \in run'[t], NEW j \in 1..3
               PROVE  /\ next'[t] > 2 * j => file'[q][Files[j]] \in {t} \cup Intruded(t)'
                      /\ next'[t] = 2 * j => file'[q][Files[j]] \in {"empty"} \cup Intruded(t)'
    BY DEF FilesInv
  <2>1. CASE t = s
    BY <1>1, <2>1
  <2>2. CASE t # s
    <3>1. q \in run[t] /\ file' = file /\ next' = next
      BY <1>1, <2>2 DEF StoreInv, StoreTypeOK
    <3> QED
      BY <1>5, <2>2, <3>1 DEF StoreInv, FilesInv
  <2> QED
    BY <2>1, <2>2
<1>7. LinesInv'
  <2> SUFFICES ASSUME NEW n \in 1..Len(lines)
               PROVE  /\ phase'[lines[n].record.save] = "saved"
                      /\ next[lines[n].record.save] = IndexStep
                      /\ lines[n].record.run \in run'[lines[n].record.save]
    BY <1>1 DEF LinesInv
  <2>1. lines[n].record.save \in Saves
    BY LineTyped DEF StoreInv
  <2>2. lines[n].record.save \in Saves /\ lines[n].record.save # s
    BY <1>1, <2>1 DEF StoreInv, LinesInv
  <2> QED
    BY <1>1, <2>2 DEF StoreInv, StoreTypeOK, LinesInv
<1>8. ReaderInv'
  <2>1. wanted' = wanted /\ got' = got /\ Listed' = Listed
    BY <1>1 DEF Listed
  <2>2. ASSUME NEW rec \in wanted, NEW c \in got
        PROVE  c \in Attributable(rec.save)'
    <3>1. rec.save \in Saves /\ rec.save # s
      BY <1>1, ListedRecord DEF StoreInv, ReaderInv
    <3> QED
      BY <1>5, <3>1, AttributableIs DEF StoreInv, ReaderInv, ReadersGetWhatWasListed
  <2> QED
    BY <2>1, <2>2 DEF StoreInv, ReaderInv, ReadersGetWhatWasListed
<1> QED
  BY <1>3, <1>4, <1>6, <1>7, <1>8 DEF StoreInv

\* A write to a file touches what is the save's own, and its namesakes'.
LEMMA WriteFileStep ==
  ASSUME StoreInv, NEW s \in Saves, phase[s] = "saving", NEW r \in run[s],
         WriteFile(s, r), UNCHANGED <<clock, since, run, reader>>
  PROVE  /\ StoreInv'
         /\ \A q \in Runs : q # r => file'[q] = file[q]
<1>1. PICK i \in 1..3, c \in {s, "empty", "mixed"} :
        /\ \/ next[s] = 2 * i - 1 /\ c = "empty"
           \/ next[s] = 2 * i /\ c \in {s, "mixed"} /\ (file[r][Files[i]] = "empty" => c = s)
        /\ file' = [file EXCEPT ![r][Files[i]] = c]
        /\ next' = [next EXCEPT ![s] = @ + 1]
        /\ UNCHANGED <<lines, cut, phase>>
  <2>1. PICK i \in 1..3 :
          /\ next[s] \in {2 * i - 1, 2 * i}
          /\ \E c \in IF next[s] = 2 * i - 1 THEN {"empty"}
                      ELSE IF file[r][Files[i]] = "empty" THEN {s} ELSE {s, "mixed"} :
               file' = [file EXCEPT ![r][Files[i]] = c]
          /\ next' = [next EXCEPT ![s] = @ + 1]
          /\ UNCHANGED <<lines, cut, phase, lock>>
    BY ThreeFiles DEF WriteFile
  <2>2. PICK c \in IF next[s] = 2 * i - 1 THEN {"empty"}
                   ELSE IF file[r][Files[i]] = "empty" THEN {s} ELSE {s, "mixed"} :
          file' = [file EXCEPT ![r][Files[i]] = c]
    BY <2>1
  <2>3. next[s] \in Int /\ 2 * i # 2 * i - 1
    BY ThreeFiles DEF StoreInv, StoreTypeOK
  <2>4. \/ next[s] = 2 * i - 1 /\ c = "empty"
        \/ next[s] = 2 * i /\ c \in {s, "mixed"} /\ (file[r][Files[i]] = "empty" => c = s)
    BY <2>1, <2>2, <2>3
  <2> QED
    BY <2>1, <2>2, <2>4
<1>2. /\ r \in Runs /\ Files[i] \in FileNames /\ next[s] \in 1..7
      /\ c \in {s, "empty", "mixed"} /\ next'[s] = next[s] + 1
      /\ \A t \in Saves : t # s => next'[t] = next[t]
  BY <1>1, ThreeFiles DEF StoreInv, StoreTypeOK
<1>3. ASSUME NEW t \in Saves
       PROVE  Namesakes(t) \subseteq Namesakes(t)' /\ Intruded(t) \subseteq Intruded(t)'
  <2>1. \A u \in Saves : next[u] > 1 => since'[u] = since[u] /\ next'[u] > 1
    BY <1>2
  <2> QED
    BY <2>1, NamesakesStay
<1>4. StoreTypeOK'
  <2>1. file' \in [Runs -> [FileNames -> {"absent", "empty", "mixed"} \cup Saves]]
    BY <1>1, <1>2 DEF StoreInv, StoreTypeOK
  <2>2. next' \in [Saves -> 1..IndexStep]
    <3>1. next[s] + 1 \in 1..7 /\ next \in [Saves -> 1..7]
      BY <1>1, <1>2, ThreeFiles DEF StoreInv, StoreTypeOK
    <3> QED
      BY <1>1, <3>1, ThreeFiles
  <2> QED
    BY <1>1, <2>1, <2>2 DEF StoreInv, StoreTypeOK
<1>5. NamesInv'
  BY <1>1 DEF StoreInv, StoreTypeOK, NamesInv
<1>6. \A q \in Runs : q # r => file'[q] = file[q]
  BY <1>1, <1>2 DEF StoreInv, StoreTypeOK
<1>7. FilesInv'
  <2> SUFFICES ASSUME NEW t \in Saves, NEW q \in run[t], NEW j \in 1..3
               PROVE  /\ next'[t] > 2 * j => file'[q][Files[j]] \in {t} \cup Intruded(t)'
                      /\ next'[t] = 2 * j => file'[q][Files[j]] \in {"empty"} \cup Intruded(t)'
    BY DEF FilesInv
  <2>1. file'[r][Files[j]] = IF j = i THEN c ELSE file[r][Files[j]]
    BY <1>1, <1>2, ThreeFiles DEF StoreInv, StoreTypeOK
  <2>2. CASE t # s
    <3>1. q \in Runs /\ next'[t] = next[t]
      BY <1>2, <2>2 DEF StoreInv, StoreTypeOK
    <3>2. CASE q # r \/ j # i
      <4>1. file'[q][Files[j]] = file[q][Files[j]]
        BY <1>6, <2>1, <3>1, <3>2
      <4> QED
        BY <1>3, <3>1, <4>1 DEF StoreInv, FilesInv
    <3>3. CASE q = r /\ j = i
      <4>1. s \in Namesakes(t)'
        <5>1. SpecOf[s] = SpecOf[t] /\ since[s] = since[t]
          BY <3>3, SharedRun
        <5> QED
          BY <1>2, <2>2, <5>1 DEF Namesakes
      <4>2. c \in Intruded(t)'
        BY <1>2, <4>1 DEF Intruded
      <4> QED
        BY <2>1, <3>3, <4>2
    <3> QED
      BY <3>2, <3>3
  <2>3. CASE t = s
    <3>1. q = r
      BY <2>3 DEF StoreInv, NamesInv
    <3>2. CASE j # i
      <4>1. /\ next'[s] > 2 * j => next[s] > 2 * j
            /\ next'[s] = 2 * j => FALSE
        BY <1>1, <1>2, <3>2
      <4> QED
        BY <1>3, <2>1, <2>3, <3>1, <3>2, <4>1 DEF StoreInv, FilesInv
    <3>3. CASE j = i /\ next[s] = 2 * i - 1
      BY <1>1, <1>2, <2>1, <2>3, <3>1, <3>3
    <3>4. CASE j = i /\ next[s] = 2 * i
      <4>1. file[r][Files[i]] \in {"empty"} \cup Intruded(s)
        BY <3>4 DEF StoreInv, FilesInv
      <4>2. c = s \/ (c = "mixed" /\ Intruded(s) # {})
        BY <1>1, <3>4, <4>1
      <4>3. c = s \/ c \in Intruded(s)
        BY <4>2 DEF Intruded
      <4> QED
        BY <1>2, <1>3, <2>1, <2>3, <3>1, <3>4, <4>3
    <3> QED
      BY <1>1, <3>2, <3>3, <3>4
  <2> QED
    BY <2>2, <2>3
<1>8. LinesInv'
  <2> SUFFICES ASSUME NEW n \in 1..Len(lines)
               PROVE  /\ phase[lines[n].record.save] = "saved"
                      /\ next'[lines[n].record.save] = IndexStep
                      /\ lines[n].record.run \in run[lines[n].record.save]
    BY <1>1 DEF LinesInv
  <2>1. lines[n].record.save \in Saves
    BY LineTyped DEF StoreInv
  <2>2. lines[n].record.save \in Saves /\ lines[n].record.save # s
    BY <2>1 DEF StoreInv, LinesInv
  <2> QED
    BY <1>1, <2>2 DEF StoreInv, StoreTypeOK, LinesInv
<1>9. ReaderInv'
  <2>1. wanted' = wanted /\ got' = got /\ Listed' = Listed
    BY <1>1 DEF Listed, reader
  <2>2. ASSUME NEW rec \in wanted, NEW x \in got
        PROVE  x \in Attributable(rec.save)'
    <3>1. rec.save \in Saves
      BY ListedRecord DEF StoreInv, ReaderInv
    <3> QED
      BY <1>3, <3>1, AttributableIs DEF StoreInv, ReaderInv, ReadersGetWhatWasListed
  <2> QED
    BY <2>1, <2>2 DEF StoreInv, ReaderInv, ReadersGetWhatWasListed
<1> QED
  BY <1>4, <1>5, <1>6, <1>7, <1>8, <1>9 DEF StoreInv

\* The line of the index lists the run, unless half a line was before it.
LEMMA AppendLineStep ==
  ASSUME StoreInv, NEW s \in Saves, phase[s] = "saving", NEW r \in run[s],
         AppendLine(s, r), UNCHANGED <<clock, since, run, reader>>
  PROVE  /\ StoreInv'
         /\ Listed' = Listed \cup IF cut THEN {} ELSE {[run |-> r, save |-> s]}
<1> DEFINE line == [record |-> [run |-> r, save |-> s], good |-> ~cut]
<1>1. /\ next[s] = IndexStep /\ lines' = Append(lines, line) /\ cut' = FALSE
      /\ phase' = [phase EXCEPT ![s] = "saved"]
      /\ UNCHANGED <<clock, since, run, next, file, wanted, got>>
  BY DEF AppendLine, EndSave, reader
<1>2. r \in Runs /\ line \in [record : Records, good : BOOLEAN]
  BY DEF StoreInv, StoreTypeOK, Records
<1>3. /\ Len(lines) \in Nat /\ Len(lines') = Len(lines) + 1
      /\ \A n \in 1..Len(lines) : lines'[n] = lines[n]
      /\ lines'[Len(lines) + 1] = line
      /\ lines' \in Seq([record : Records, good : BOOLEAN])
  BY <1>1, <1>2 DEF StoreInv, StoreTypeOK
<1>4. StoreTypeOK'
  BY <1>1, <1>3 DEF StoreInv, StoreTypeOK, Phases
<1>5. NamesInv' /\ FilesInv'
  BY <1>1, AttributableStays DEF StoreInv, StoreTypeOK, NamesInv, FilesInv
<1>6. LinesInv'
  <2> SUFFICES ASSUME NEW n \in 1..Len(lines')
               PROVE  /\ phase'[lines'[n].record.save] = "saved"
                      /\ next[lines'[n].record.save] = IndexStep
                      /\ lines'[n].record.run \in run[lines'[n].record.save]
    BY <1>1 DEF LinesInv
  <2>1. CASE n \in 1..Len(lines)
    <3>1. lines[n].record.save \in Saves
      BY <2>1, LineTyped DEF StoreInv
    <3>2. lines[n].record.save \in Saves /\ lines[n].record.save # s
      BY <2>1, <3>1 DEF StoreInv, LinesInv
    <3> QED
      BY <1>1, <1>3, <2>1, <3>2 DEF StoreInv, StoreTypeOK, LinesInv
  <2>2. CASE n = Len(lines) + 1
    BY <1>1, <1>3, <2>2 DEF StoreInv, StoreTypeOK
  <2> QED
    BY <1>3, <2>1, <2>2
<1>7. Listed' = Listed \cup IF cut THEN {} ELSE {[run |-> r, save |-> s]}
  <2>1. ASSUME NEW x
        PROVE  x \in Listed' <=> x \in Listed \/ (x = line.record /\ line.good)
    <3>1. x \in Listed' <=> \E n \in 1..Len(lines') : lines'[n].good /\ x = lines'[n].record
      BY DEF Listed
    <3>2. x \in Listed <=> \E n \in 1..Len(lines) : lines[n].good /\ x = lines[n].record
      BY DEF Listed
    <3>3. \A n : n \in 1..Len(lines') <=> n \in 1..Len(lines) \/ n = Len(lines) + 1
      BY <1>3
    <3> QED
      BY <1>3, <3>1, <3>2, <3>3
  <2> QED
    BY <2>1
<1>8. ReaderInv'
  BY <1>1, <1>7, AttributableStays DEF StoreInv, ReaderInv, ReadersGetWhatWasListed
<1> QED
  BY <1>4, <1>5, <1>6, <1>7, <1>8 DEF StoreInv

\* A reader gets the evidence of the run it chose.
LEMMA ReaderStep ==
  ASSUME StoreInv, ListRuns \/ LoadManifest \/ CloseReader
  PROVE  StoreInv'
<1>1. UNCHANGED <<clock, since, run, next, phase, lock, file, lines, cut>>
  BY DEF ListRuns, LoadManifest, CloseReader, files
<1>2. StoreTypeOK' /\ NamesInv' /\ FilesInv' /\ LinesInv' /\ Listed' = Listed
  BY <1>1, AttributableStays DEF StoreInv, StoreTypeOK, NamesInv, FilesInv, LinesInv, Listed
<1>3. ASSUME NEW t
      PROVE  Attributable(t)' = Attributable(t)
  BY <1>1, AttributableStays
<1>4. ReaderInv'
  <2>1. CASE ListRuns
    BY <1>2, <2>1 DEF ListRuns, StoreInv, ReaderInv, ReadersGetWhatWasListed
  <2>2. CASE LoadManifest
    <3>1. PICK rec \in wanted : got' = {file[rec.run]["manifest.json"]}
      BY <2>2 DEF LoadManifest
    <3>2. wanted' = wanted /\ wanted \subseteq Listed /\ \A x \in wanted : x = rec
      BY <2>2, <3>1 DEF LoadManifest, StoreInv, ReaderInv
    <3>3. file[rec.run]["manifest.json"] \in Attributable(rec.save)
      BY <3>2, ListedManifest
    <3> QED
      BY <1>2, <1>3, <3>1, <3>2, <3>3 DEF ReaderInv, ReadersGetWhatWasListed
  <2>3. CASE CloseReader
    BY <2>3 DEF CloseReader, ReaderInv, ReadersGetWhatWasListed
  <2> QED
    BY <2>1, <2>2, <2>3
<1> QED
  BY <1>2, <1>4 DEF StoreInv

-----------------------------------------------------------------------------
(* The registry.                                                           *)

\* What is shown depends on the list and on the files of listed runs.
LEMMA ShownStays ==
  ASSUME Listed' = Listed, \A rec \in Unshared : file'[rec.run] = file[rec.run]
  PROVE  Shown' = Shown
BY DEF Shown, Unshared, SolvedOnce

\* Saving, failing, dying and reading keep the invariant, and only a line of
\* the index publishes, namely a new run.
LEMMA SavePublishes ==
  ASSUME StoreInv, NEW s \in Saves, Write(s)
  PROVE  StoreInv' /\ [Registry!Next]_Shown
<1>1. PICK r \in run[s] :
        /\ phase[s] = "saving" /\ UNCHANGED <<clock, since, run, reader>>
        /\ WriteFile(s, r) \/ AppendLine(s, r)
  BY DEF Write
<1>2. r \in Runs /\ r.spec = SpecOf[s] /\ \A rec \in Unshared : rec.run \in Runs /\ rec.run # r
  <2>1. r \in Runs /\ r.spec = SpecOf[s]
    BY DEF StoreInv, StoreTypeOK, NamesInv
  <2>2. ASSUME NEW rec \in Unshared
        PROVE  rec.run \in Runs /\ rec.run # r
    <3>1. /\ rec.save \in Saves /\ rec.run \in Runs /\ rec.run \in run[rec.save] /\ rec.save # s
          /\ SolvedOnce(rec.run.spec)
      BY <1>1, ListedRecord DEF Unshared
    <3> QED
      BY <3>1, OwnRun
  <2> QED
    BY <2>1, <2>2
<1>3. CASE WriteFile(s, r)
  <2>1. StoreInv' /\ \A q \in Runs : q # r => file'[q] = file[q]
    BY <1>1, <1>3, WriteFileStep
  <2>2. Listed' = Listed
    BY <1>3 DEF WriteFile, Listed
  <2>3. \A rec \in Unshared : file'[rec.run] = file[rec.run]
    BY <1>2, <2>1
  <2> QED
    BY <2>1, <2>2, <2>3, ShownStays
<1>4. CASE AppendLine(s, r)
  <2>1. StoreInv' /\ Listed' = Listed \cup IF cut THEN {} ELSE {[run |-> r, save |-> s]}
    BY <1>1, <1>4, AppendLineStep
  <2>2. file' = file
    BY <1>4 DEF AppendLine
  <2>3. CASE cut \/ ~SolvedOnce(r.spec)
    <3>1. Unshared' = Unshared
      <4> DEFINE new == [run |-> r, save |-> s]
      <4>1. Listed' = Listed \/ (Listed' = Listed \cup {new} /\ ~SolvedOnce(new.run.spec))
        BY <2>1, <2>3
      <4> HIDE DEF new
      <4> QED
        BY <4>1 DEF Unshared, SolvedOnce
    <3>2. Shown' = Shown
      BY <2>2, <3>1 DEF Shown
    <3> QED
      BY <2>1, <3>2
  <2>4. CASE ~cut /\ SolvedOnce(r.spec)
    <3>1. next[s] > 2 * 1
      BY <1>4, ThreeFiles DEF AppendLine
    <3>2. file[r]["manifest.json"] = s
      BY <1>2, <2>4, <3>1, ThreeFiles, NoNamesakes DEF StoreInv, FilesInv
    <3>3. {rec.run : rec \in Unshared}' = {rec.run : rec \in Unshared} \cup {r}
      <4> DEFINE new == [run |-> r, save |-> s]
      <4>1. Listed' = Listed \cup {new} /\ new.run = r /\ SolvedOnce(new.run.spec)
        BY <2>1, <2>4
      <4> HIDE DEF new
      <4>2. Unshared' = Unshared \cup {new}
        BY <4>1 DEF Unshared, SolvedOnce
      <4> QED
        BY <4>1, <4>2
    <3>4. r \notin {rec.run : rec \in Unshared}
      BY <1>2
    <3>5. DOMAIN Shown = {rec.run : rec \in Unshared}
      BY DEF Shown
    <3>6. Shown' = [q \in DOMAIN Shown \cup {r} |-> IF q = r THEN s ELSE Shown[q]]
      BY <2>2, <3>2, <3>3, <3>4, <3>5 DEF Shown
    <3>7. Registry!Publish(r, s)
      BY <3>4, <3>5, <3>6 DEF Registry!Publish
    <3> QED
      BY <1>2, <2>1, <3>7 DEF Registry!Next
  <2> QED
    BY <2>3, <2>4
<1> QED
  BY <1>1, <1>3, <1>4

LEMMA StepPublishes ==
  ASSUME StoreInv, [StoreNext]_evidence
  PROVE  StoreInv' /\ [Registry!Next]_Shown
<1>1. ASSUME StoreInv', file' = file, lines' = lines
      PROVE  StoreInv' /\ [Registry!Next]_Shown
  BY <1>1, ShownStays DEF Listed
<1>2. StoreTypeOK
  BY DEF StoreInv
<1>3. CASE Tick
  <2>1. clock' \in 0..LastSecond
    BY <1>2, <1>3, EvidenceStoreAssumption DEF Tick, StoreTypeOK
  <2>2. StoreInv'
    BY <1>2, <1>3, <2>1, PhaseStep DEF Tick, StoreTypeOK, files, reader
  <2> QED
    BY <1>1, <1>3, <2>2 DEF Tick, files
<1>4. ASSUME NEW s \in Saves, Solve(s)
      PROVE  StoreInv' /\ [Registry!Next]_Shown
  BY <1>1, <1>4, SolveStep DEF Solve, files
<1>5. ASSUME NEW s \in Saves, BeginSave(s) \/ FailWrite(s)
      PROVE  StoreInv' /\ [Registry!Next]_Shown
  <2>1. /\ UNCHANGED <<clock, since, run, next, file, lines, wanted, got>>
        /\ cut' \in BOOLEAN
        /\ phase[s] \in {"solved", "saving"}
        /\ phase' = [phase EXCEPT ![s] = "saving"] \/ phase' = [phase EXCEPT ![s] = "failed"]
    BY <1>2, <1>5 DEF BeginSave, FailWrite, EndSave, StoreTypeOK, files, reader
  <2>2. StoreInv'
    BY <1>2, <2>1, PhaseStep DEF StoreTypeOK, Phases
  <2> QED
    BY <1>1, <2>1, <2>2
<1>6. ASSUME NEW s \in Saves, Write(s)
      PROVE  StoreInv' /\ [Registry!Next]_Shown
  BY <1>6, SavePublishes
<1>7. ASSUME CrashApi \/ \E s \in Saves : CrashCli(s)
      PROVE  StoreInv' /\ [Registry!Next]_Shown
  <2>1. /\ UNCHANGED <<clock, since, run, next, file, lines, cut, wanted, got>>
        /\ phase' \in [Saves -> Phases]
        /\ \A s \in Saves : phase'[s] = phase[s] \/ (phase[s] \in {"solved", "saving"} /\ phase'[s] = "dead")
    BY <1>2, <1>7 DEF CrashApi, CrashCli, Busy, StoreTypeOK, Phases, files, reader
  <2>2. StoreInv'
    BY <1>2, <2>1, PhaseStep DEF StoreTypeOK
  <2> QED
    BY <1>1, <2>1, <2>2
<1>8. CASE ListRuns \/ LoadManifest \/ CloseReader
  <2>1. UNCHANGED <<file, lines>>
    BY <1>8 DEF ListRuns, LoadManifest, CloseReader, files
  <2> QED
    BY <1>1, <1>8, <2>1, ReaderStep
<1>9. CASE UNCHANGED evidence
  <2>1. /\ UNCHANGED <<clock, since, run, next, phase, file, lines, cut, wanted, got>>
    BY <1>9 DEF evidence, files, reader
  <2>2. StoreInv'
    BY <1>2, <2>1, PhaseStep DEF StoreTypeOK
  <2> QED
    BY <1>1, <2>1, <2>2
<1> QED
  BY <1>3, <1>4, <1>5, <1>6, <1>7, <1>8, <1>9 DEF StoreNext, Save

-----------------------------------------------------------------------------
(* The account of saves that are missing from the list.                    *)

\* Steps that end no save, or end it as dead.
LEMMA AccountStays ==
  ASSUME SavedInv, UNCHANGED <<next, lines, cut>>,
         \A s \in Saves : /\ phase'[s] = "saved" <=> phase[s] = "saved"
                          /\ phase'[s] = "failed" <=> phase[s] = "failed"
                          /\ phase[s] = "saved" => run'[s] = run[s]
  PROVE  SavedInv'
<1>1. Listed' = Listed
  BY DEF Listed
<1>2. Missing' = Missing /\ Broken' = Broken
  BY <1>1 DEF Missing, Broken
<1> QED
  BY <1>2 DEF SavedInv

LEMMA FailWriteAccount ==
  ASSUME StoreInv, SavedInv, NEW s \in Saves, FailWrite(s)
  PROVE  SavedInv'
<1>1. /\ phase[s] = "saving" /\ phase' = [phase EXCEPT ![s] = "failed"]
      /\ UNCHANGED <<run, next, lines>> /\ cut' \in BOOLEAN /\ cut \in BOOLEAN
  BY DEF FailWrite, EndSave, StoreInv, StoreTypeOK
<1>2. \A t \in Saves : phase'[t] = IF t = s THEN "failed" ELSE phase[t]
  BY <1>1 DEF StoreInv, StoreTypeOK
<1>3. Missing' = Missing
  <2>1. Listed' = Listed
    BY <1>1 DEF Listed
  <2> QED
    BY <1>1, <1>2, <2>1 DEF Missing
<1>4. Broken' = Broken \cup {s} /\ s \notin Broken
  BY <1>1, <1>2 DEF Broken
<1>5. IsFiniteSet(Broken) /\ IsFiniteSet(Missing)
  BY EvidenceStoreAssumption, FS_Subset DEF Broken, Missing
<1>6. Cardinality(Broken') = Cardinality(Broken) + 1
  BY <1>4, <1>5, FS_AddElement
<1>7. Cardinality(Missing) \in Nat /\ Cardinality(Broken) \in Nat
  BY <1>5, FS_CardinalityType
<1>8. Cardinality(Missing') + (IF cut' THEN 1 ELSE 0) <= Cardinality(Broken')
  BY <1>1, <1>3, <1>6, <1>7 DEF SavedInv
<1>9. \A t \in Saves : phase'[t] = "saved" => phase[t] = "saved"
  BY <1>1, <1>2
<1> QED
  BY <1>1, <1>8, <1>9 DEF SavedInv

LEMMA AppendLineAccount ==
  ASSUME StoreInv, SavedInv, NEW s \in Saves, phase[s] = "saving", NEW r \in run[s],
         AppendLine(s, r), UNCHANGED <<clock, since, run, reader>>
  PROVE  SavedInv'
<1> DEFINE rec == [run |-> r, save |-> s]
<1>1. /\ next[s] = IndexStep /\ cut' = FALSE /\ cut \in BOOLEAN
      /\ phase' = [phase EXCEPT ![s] = "saved"]
      /\ lines' = Append(lines, [record |-> rec, good |-> ~cut])
      /\ UNCHANGED <<run, next>>
  BY DEF AppendLine, EndSave, StoreInv, StoreTypeOK
<1>2. \A t \in Saves : phase'[t] = IF t = s THEN "saved" ELSE phase[t]
  BY <1>1 DEF StoreInv, StoreTypeOK
<1>3. /\ Len(lines) \in Nat /\ Len(lines') = Len(lines) + 1
      /\ \A n \in 1..Len(lines) : lines'[n] = lines[n]
      /\ lines'[Len(lines) + 1].record = rec
  <2>1. lines \in Seq([record : Records, good : BOOLEAN])
    BY DEF StoreInv, StoreTypeOK
  <2> QED
    BY <1>1, <2>1, AppendProperties, LenProperties
<1>4. ASSUME NEW t \in Saves, phase'[t] = "saved"
      PROVE  /\ next'[t] = IndexStep
             /\ \E i \in 1..Len(lines') : lines'[i].record.save = t /\ lines'[i].record.run \in run'[t]
  <2>1. CASE t = s
    <3>1. Len(lines) + 1 \in 1..Len(lines') /\ rec.save = s /\ rec.run = r
      BY <1>3
    <3> QED
      BY <1>1, <1>3, <2>1, <3>1
  <2>2. CASE t # s
    <3>1. phase[t] = "saved"
      BY <1>2, <1>4, <2>2
    <3>2. PICK i \in 1..Len(lines) : lines[i].record.save = t /\ lines[i].record.run \in run[t]
      BY <3>1 DEF SavedInv
    <3>3. i \in 1..Len(lines') /\ lines'[i] = lines[i]
      BY <1>3
    <3> QED
      BY <1>1, <3>1, <3>2, <3>3 DEF SavedInv
  <2> QED
    BY <2>1, <2>2
<1>5. Listed' = Listed \cup IF cut THEN {} ELSE {rec}
  BY AppendLineStep
<1>6. Broken' = Broken
  BY <1>2 DEF Broken
<1>7. IsFiniteSet(Missing) /\ Cardinality(Missing) \in Nat
  BY EvidenceStoreAssumption, FS_Subset, FS_CardinalityType DEF Missing
<1>8. CASE cut
  <2>1. Missing' \subseteq Missing \cup {s}
    BY <1>2, <1>5, <1>8 DEF Missing
  <2>2. IsFiniteSet(Missing \cup {s}) /\ Cardinality(Missing \cup {s}) <= Cardinality(Missing) + 1
    <3>1. /\ IsFiniteSet(Missing \cup {s})
          /\ Cardinality(Missing \cup {s})
               = IF s \in Missing THEN Cardinality(Missing) ELSE Cardinality(Missing) + 1
      BY <1>7, FS_AddElement
    <3> QED
      BY <1>7, <3>1
  <2>3. Cardinality(Missing') <= Cardinality(Missing \cup {s}) /\ Cardinality(Missing') \in Nat
    BY <2>1, <2>2, FS_Subset, FS_CardinalityType
  <2>4. Cardinality(Broken) \in Nat /\ Cardinality(Missing \cup {s}) \in Nat
    BY <2>2, EvidenceStoreAssumption, FS_Subset, FS_CardinalityType DEF Broken
  <2> QED
    BY <1>1, <1>4, <1>6, <1>7, <1>8, <2>2, <2>3, <2>4 DEF SavedInv
<1>9. CASE ~cut
  <2>1. s \in {x.save : x \in Listed'} /\ {x.save : x \in Listed} \subseteq {x.save : x \in Listed'}
    <3>1. rec \in Listed' /\ rec.save = s /\ Listed \subseteq Listed'
      BY <1>5, <1>9
    <3> HIDE DEF rec
    <3> QED
      BY <3>1
  <2>2. Missing' \subseteq Missing
    BY <1>2, <2>1 DEF Missing
  <2>3. Cardinality(Missing') <= Cardinality(Missing) /\ Cardinality(Missing') \in Nat
    BY <1>7, <2>2, FS_Subset, FS_CardinalityType
  <2>4. Cardinality(Broken) \in Nat
    BY EvidenceStoreAssumption, FS_Subset, FS_CardinalityType DEF Broken
  <2> QED
    BY <1>1, <1>4, <1>6, <1>7, <1>9, <2>3, <2>4 DEF SavedInv
<1> QED
  BY <1>1, <1>8, <1>9

LEMMA StepAccount ==
  ASSUME StoreInv, SavedInv, [StoreNext]_evidence
  PROVE  SavedInv'
<1>1. CASE \E s \in Saves : FailWrite(s)
  BY <1>1, FailWriteAccount
<1>2. ASSUME NEW s \in Saves, Write(s)
      PROVE  SavedInv'
  <2>1. PICK r \in run[s] :
          /\ phase[s] = "saving" /\ UNCHANGED <<clock, since, run, reader>>
          /\ WriteFile(s, r) \/ AppendLine(s, r)
    BY <1>2 DEF Write
  <2>2. CASE AppendLine(s, r)
    BY <2>1, <2>2, AppendLineAccount
  <2>3. CASE WriteFile(s, r)
    <3>1. UNCHANGED <<run, phase, lines, cut>> /\ \A t \in Saves : t # s => next'[t] = next[t]
      BY <2>1, <2>3 DEF WriteFile, StoreInv, StoreTypeOK
    <3>2. Listed' = Listed
      BY <3>1 DEF Listed
    <3>3. Missing' = Missing /\ Broken' = Broken
      BY <3>1, <3>2 DEF Missing, Broken
    <3> QED
      BY <2>1, <3>1, <3>3 DEF SavedInv
  <2> QED
    BY <2>1, <2>2, <2>3
<1>3. CASE Tick \/ ListRuns \/ LoadManifest \/ CloseReader \/ UNCHANGED evidence
  <2>1. UNCHANGED <<run, next, phase, lines, cut>>
    BY <1>3 DEF Tick, ListRuns, LoadManifest, CloseReader, evidence, files
  <2> QED
    BY <2>1, AccountStays
<1>4. ASSUME NEW s \in Saves, Solve(s) \/ BeginSave(s)
      PROVE  SavedInv'
  <2>1. /\ UNCHANGED <<next, lines, cut>> /\ phase[s] \in {"idle", "solved"}
        /\ phase'[s] \in {"solved", "saving"}
        /\ \A t \in Saves : t # s => phase'[t] = phase[t] /\ run'[t] = run[t]
    BY <1>4 DEF Solve, BeginSave, StoreInv, StoreTypeOK, files
  <2> QED
    BY <2>1, AccountStays
<1>5. CASE CrashApi \/ \E s \in Saves : CrashCli(s)
  <2>1. /\ UNCHANGED <<run, next, lines, cut>>
        /\ \A s \in Saves : phase'[s] = phase[s] \/ (phase[s] \in {"solved", "saving"} /\ phase'[s] = "dead")
    BY <1>5 DEF CrashApi, CrashCli, Busy, StoreInv, StoreTypeOK, files
  <2> QED
    BY <2>1, AccountStays
<1> QED
  BY <1>1, <1>2, <1>3, <1>4, <1>5 DEF StoreNext, Save

-----------------------------------------------------------------------------
(* What callers and readers may rely on.                                   *)

LEMMA StoreInvariance == StoreSpec => []StoreInv
<1>1. StoreInv /\ [StoreNext]_evidence => StoreInv'
  BY StepPublishes
<1> QED
  BY <1>1, InitStoreInv, PTL DEF StoreSpec

\* A save that returned left its whole evidence and a line of the index, nobody
\* but executions of the same spec in the same second touch it, and no failed
\* save keeps more than one other from the list (store.py:52-85).
THEOREM SavesAreKept == StoreSpec => []SavedIsListed
<1>1. StoreInit => SavedInv
  <2> SUFFICES ASSUME StoreInit
               PROVE  SavedInv
    OBVIOUS
  <2>1. Missing = {} /\ Broken = {} /\ cut = FALSE
    BY DEF StoreInit, Missing, Broken
  <2>2. Cardinality({}) = 0
    BY FS_EmptySet
  <2> QED
    BY <2>1, <2>2 DEF StoreInit, SavedInv
<1>2. StoreInv /\ SavedInv /\ [StoreNext]_evidence => SavedInv'
  BY StepAccount
<1>3. ASSUME StoreInv, SavedInv
      PROVE  SavedIsListed
  <2>1. ASSUME NEW s \in Saves, phase[s] = "saved", NEW r \in run[s], NEW f \in FileNames
        PROVE  file[r][f] \in Attributable(s)
    <3>1. PICK i \in 1..3 : f = Files[i]
      BY ThreeFiles
    <3>2. next[s] > 2 * i
      BY <1>3, <2>1, ThreeFiles DEF SavedInv
    <3> QED
      BY <1>3, <3>1, <3>2, AttributableIs DEF StoreInv, FilesInv
  <2>2. Cardinality(Missing) <= Cardinality(Broken)
    <3>1. Cardinality(Missing) \in Nat /\ Cardinality(Broken) \in Nat
      BY EvidenceStoreAssumption, FS_Subset, FS_CardinalityType DEF Missing, Broken
    <3> QED
      BY <1>3, <3>1 DEF SavedInv
  <2> QED
    BY <1>3, <2>1, <2>2 DEF SavedIsListed, SavedInv, Missing, Broken
<1> QED
  BY <1>1, <1>2, <1>3, StoreInvariance, PTL DEF StoreSpec

\* Who opens a run of the list gets the evidence the list spoke of, complete,
\* whatever the API and command lines write meanwhile, unless it is an execution
\* of the same spec that began in the same second (store.py:73-92).
THEOREM ReadersAreServed == StoreSpec => []ReadersGetWhatWasListed
<1>1. StoreInv => ReadersGetWhatWasListed
  BY DEF StoreInv, ReaderInv
<1> QED
  BY <1>1, StoreInvariance, PTL

\* Listed runs of specs that are solved once are published once, with their
\* evidence, and neither disappear nor change, whatever fails and dies and
\* whatever else is saved (store.py:52-92).
THEOREM StoreIsRegistry == StoreSpec => ImplementsRegistry
<1>1. StoreInit => Registry!Init
  BY DEF StoreInit, Registry!Init, Shown, Unshared, Listed
<1>2. StoreInv /\ [StoreNext]_evidence => [Registry!Next]_Shown
  BY StepPublishes
<1> QED
  BY <1>1, <1>2, StoreInvariance, PTL DEF StoreSpec, ImplementsRegistry, Registry!Spec

=============================================================================
