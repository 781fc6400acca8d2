---------------------------- MODULE ResumeProofs ----------------------------
(***************************************************************************)
(* What is proved of what a resumed run may still use: of EvidenceLineage, *)
(* for every repository, every suite and every bound, and of               *)
(* ScenarioPlanner, for every generator, every history of the scenario     *)
(* files and every budget.                                                 *)
(***************************************************************************)
EXTENDS EvidenceLineage, ScenarioPlanner, FiniteSetTheorems, SequenceTheorems,
        WellFoundedInduction, TLAPS

Record == Outcome \cup {NoOutcome}

-----------------------------------------------------------------------------
(* The blast radius.                                                       *)

\* The present files are closed, so that the subject is closed as well, and it
\* is contained in every closed set.
LEMMA SubjectClosed ==
  ASSUME NEW d \in Definitions, NEW t \in Trees
  PROVE  /\ Closed(Subject(d, t), d, t)
         /\ Subject(d, t) \subseteq Present(t)
BY LineageAssumption DEF Subject, Closed, Present

\* Whatever is closed and present contains the subject.
LEMMA SubjectSmallest ==
  ASSUME NEW d \in Definitions, NEW t \in Trees, NEW X \in SUBSET Present(t),
         Closed(X, d, t)
  PROVE  Subject(d, t) \subseteq X
BY DEF Subject

\* Where nothing changed inside the later subject and nothing the scenario had
\* looked at is gone, the two trees have the same subject.
LEMMA SameSubject ==
  ASSUME NEW d \in Definitions, NEW t \in Trees, NEW u \in Trees,
         \A p \in Subject(d, u) : t[p] = u[p],
         Removed(d, t, u) = {}
  PROVE  Subject(d, t) = Subject(d, u)
<1> DEFINE both == Subject(d, t) \cap Subject(d, u)
<1>1. Closed(Subject(d, t), d, t) /\ Subject(d, t) \subseteq Present(t)
  BY SubjectClosed
<1>2. Closed(Subject(d, u), d, u) /\ Subject(d, u) \subseteq Present(u)
  BY SubjectClosed
<1>3. \A p \in Looks(d, t) : p \in Paths => (t[p] # Absent => u[p] # Absent)
  BY DEF Removed
<1>4. Subject(d, t) \subseteq both
  <2>1. Runs[d] \cap Present(t) \subseteq both
    BY <1>1, <1>2, <1>3 DEF Closed, Present, Looks
  <2>2. ASSUME NEW p \in both PROVE Imports[p, t[p]] \cap Present(t) \subseteq both
    <3>1. t[p] = u[p]
      OBVIOUS
    <3>2. Imports[p, t[p]] \subseteq Looks(d, t)
      BY DEF Looks
    <3> QED
      BY <1>1, <1>2, <1>3, <3>1, <3>2 DEF Closed, Present
  <2>3. Closed(both, d, t)
    BY <2>1, <2>2 DEF Closed
  <2> QED
    BY <1>1, <2>3, SubjectSmallest
<1>5. Subject(d, u) \subseteq both
  <2>1. Runs[d] \cap Present(u) \subseteq both
    BY <1>1, <1>2 DEF Closed, Present
  <2>2. ASSUME NEW p \in both PROVE Imports[p, u[p]] \cap Present(u) \subseteq both
    <3>1. t[p] = u[p]
      OBVIOUS
    <3> QED
      BY <1>1, <1>2, <3>1 DEF Closed, Present
  <2>3. Closed(both, d, u)
    BY <2>1, <2>2 DEF Closed
  <2> QED
    BY <1>2, <2>3, SubjectSmallest
<1> QED
  BY <1>4, <1>5

\* The rule of validity is sound: an untouched subject was seen the same.
LEMMA UntouchedSeesTheSame ==
  ASSUME NEW d \in Definitions, NEW t \in Trees, NEW u \in Trees, NEW changed,
         Differ(t, u) \subseteq changed,
         ~TouchedBy(changed, d, u)
  PROVE  SameView(d, t, u) \/ Removed(d, t, u) # {}
<1> SUFFICES ASSUME Removed(d, t, u) = {} PROVE SameView(d, t, u)
  OBVIOUS
<1>1. \A p \in Paths \cap (Global \cup Subject(d, u) \cup Mentioned(d, u)) : t[p] = u[p]
  BY DEF Differ, TouchedBy
<1>2. Subject(d, u) \subseteq Paths /\ \A p \in Subject(d, u) : t[p] = u[p]
  BY <1>1, SubjectClosed DEF Present
<1>3. Subject(d, t) = Subject(d, u)
  BY <1>2, SameSubject
<1>4. Mentioned(d, t) = Mentioned(d, u)
  BY <1>2, <1>3 DEF Mentioned
<1>5. \A p \in Looks(d, t) : p \in Paths
  <2>1. \A p \in Subject(d, t) : p \in Paths /\ t[p] \in Contents
    BY SubjectClosed, LineageAssumption DEF Present
  <2>2. \A p \in Subject(d, t) :
          Imports[p, t[p]] \subseteq Paths /\ Literals[p, t[p]] \subseteq Paths
    BY <2>1, LineageAssumption
  <2>3. Global \subseteq Paths /\ Runs[d] \subseteq Paths /\ Mentions[d] \subseteq Paths
    BY LineageAssumption
  <2> QED
    BY <2>1, <2>2, <2>3 DEF Looks, Mentioned
<1>6. ASSUME NEW p \in Looks(d, t), u[p] # Absent,
             p \in Runs[d] \/ \E q \in Subject(d, t) : p \in Imports[q, t[q]]
      PROVE  p \in Subject(d, u)
  <2>1. p \in Present(u)
    BY <1>5, <1>6 DEF Present
  <2>2. CASE p \in Runs[d]
    BY <2>1, <2>2, SubjectClosed DEF Closed
  <2>3. CASE \E q \in Subject(d, t) : p \in Imports[q, t[q]]
    <3>1. PICK q \in Subject(d, u) : p \in Imports[q, u[q]]
      BY <2>3, <1>2, <1>3
    <3> QED
      BY <2>1, <3>1, SubjectClosed DEF Closed
  <2> QED
    BY <1>6, <2>2, <2>3
<1>7. ASSUME NEW p \in Looks(d, t) PROVE t[p] = u[p]
  <2>1. CASE p \in Global \cup Subject(d, t) \cup Mentioned(d, t)
    BY <2>1, <1>1, <1>3, <1>4, <1>5
  <2>2. CASE p \in Runs[d] \/ \E q \in Subject(d, t) : p \in Imports[q, t[q]]
    <3>1. CASE u[p] = Absent
      BY <3>1 DEF Removed
    <3>2. CASE u[p] # Absent
      BY <3>2, <2>2, <1>2, <1>6
    <3> QED
      BY <3>1, <3>2
  <2> QED
    BY <2>1, <2>2 DEF Looks
<1> QED
  BY <1>7 DEF SameView

-----------------------------------------------------------------------------
(* The files of results.                                                   *)

\* Every non-empty set of iterations has a newest.
LEMMA HasNewest ==
  ASSUME NEW I \in SUBSET Iterations, I # {}
  PROVE  \E m \in I : \A j \in I : j <= m
<1> DEFINE back == {MaxIterations - i : i \in I}
<1>1. MaxIterations \in Nat /\ I \subseteq 1..MaxIterations
  BY LineageAssumption DEF Iterations
<1>2. \A i \in I : i \in Nat /\ i <= MaxIterations
  BY <1>1
<1>3. back \subseteq Nat /\ back # {}
  <2>1. \A x \in back : x \in Nat
    BY <1>1, <1>2
  <2>2. back # {}
    OBVIOUS
  <2> QED
    BY <2>1, <2>2
<1>4. \E less : /\ IsWellFoundedOn(less, Nat)
              /\ \A x, y \in Nat : x < y => <<x, y>> \in less
  <2>1. \A x, y \in Nat : x < y => <<x, y>> \in OpToRel(<, Nat)
    BY DEF OpToRel
  <2> QED
    BY <2>1, NatLessThanWellFounded
<1>5. ASSUME NEW T \in SUBSET Nat, T # {}
      PROVE  \E x \in T : \A y \in T : x <= y
  <2>1. PICK less : /\ IsWellFoundedOn(less, Nat)
                    /\ \A x, y \in Nat : x < y => <<x, y>> \in less
    BY <1>4
  <2>2. PICK x \in T : \A y \in T : ~(<<y, x>> \in less)
    <3>1. IsWellFoundedOn(less, Nat) /\ T \subseteq Nat /\ T # {}
      BY <1>5, <2>1
    <3> QED
      BY <3>1, WFMin, Zenon
  <2>3. ASSUME NEW y \in T PROVE x <= y
    <3>1. x \in Nat /\ y \in Nat /\ ~(y < x)
      BY <2>1, <2>2
    <3> QED
      BY <3>1
  <2> QED
    BY <2>3
<1>6. PICK x \in back : \A y \in back : x <= y
  BY <1>3, <1>5
<1>7. PICK m \in I : x = MaxIterations - m
  BY <1>6
<1>8. \A j \in I : j <= m
  BY <1>2, <1>1, <1>6, <1>7
<1> QED
  BY <1>8

\* What a resume recalls of a scenario is the newest file's outcome of it that
\* was not a skip.
LEMMA RecallsTheNewest ==
  ASSUME disk \in [Iterations -> [Scenarios -> Record]], NEW s \in Scenarios
  PROVE  \/ /\ Accumulated[s] = NoOutcome
            /\ \A i \in Iterations : ~Ran(disk[i][s])
         \/ \E m \in Iterations :
              /\ Accumulated[s] = disk[m][s]
              /\ Ran(disk[m][s])
              /\ \A i \in Iterations : Ran(disk[i][s]) => i <= m
<1> DEFINE ran == {i \in Iterations : Ran(disk[i][s])}
<1>1. Accumulated[s] = IF ran = {} THEN NoOutcome
                       ELSE disk[CHOOSE i \in Newest(ran) : TRUE][s]
  BY DEF Accumulated
<1>2. CASE ran = {}
  BY <1>1, <1>2
<1>3. CASE ran # {}
  <2>1. Newest(ran) # {}
    BY <1>3, HasNewest DEF Newest
  <2>2. (CHOOSE i \in Newest(ran) : TRUE) \in Newest(ran)
    BY <2>1
  <2> QED
    BY <1>1, <1>3, <2>2 DEF Newest
<1> QED
  BY <1>2, <1>3

-----------------------------------------------------------------------------
(* The inductive invariant.                                                *)

Begun == pc \notin {"build", "down"} => iteration \in Iterations

\* The files written so far, each of outcomes no later than itself.
Filed ==
  \A i \in Iterations, s \in Scenarios :
    disk[i][s] # NoOutcome =>
      /\ i <= iteration
      /\ disk[i][s].at <= i
      /\ s \in suite

Planned ==
  /\ Permanent \subseteq suite
  /\ \A s \in Scenarios : previous[s] # NoOutcome => s \in suite

\* The tree an outcome names is the tree it ran on.
Names(o) == o # NoOutcome /\ o.tree # Unstamped => o.content = o.tree

Stamped ==
  /\ \A s \in Scenarios : Names(previous[s])
  /\ \A i \in Iterations, s \in Scenarios : Names(disk[i][s])

\* A later file knows nothing older.
Ordered ==
  \A s \in Scenarios : \A i, j \in Iterations :
    i <= j /\ Ran(disk[i][s]) /\ Ran(disk[j][s]) => disk[i][s].at <= disk[j][s].at

\* A living process knows whatever is on disk, or something newer.
Behind ==
  pc # "down" =>
    \A s \in Scenarios : \A i \in Iterations :
      Ran(disk[i][s]) => previous[s] # NoOutcome /\ disk[i][s].at <= previous[s].at

Records == TypeOK /\ Begun /\ Filed /\ Planned /\ Stamped /\ Ordered /\ Behind

IInv == Records /\ CarriedMeansMeasured /\ NothingDropped /\ PermanentIsFresh

USE DEF trees, planned, process, place, counts

\* What a step that leaves alone the results, the plan and the tree that was
\* assessed has to show, when it does not go from "build" or "down" to a place
\* where evidence is judged.
LEMMA QuietStep ==
  ASSUME IInv, TypeOK',
         UNCHANGED <<suite, defn, disk, previous, seen, iteration>>,
         pc' \in Assessed => pc \in Assessed, pc # "down", pc' # "down",
         pc' # "suite"
  PROVE  IInv'
<1>1. Begun' /\ Filed' /\ Planned' /\ Stamped' /\ Ordered' /\ Behind'
  BY DEF IInv, Records, Begun, Filed, Planned, Stamped, Ordered, Behind, Ran, Names,
         Assessed, TypeOK
<1>2. NothingDropped' /\ PermanentIsFresh'
  BY DEF IInv, NothingDropped, PermanentIsFresh
<1>3. CarriedMeansMeasured'
  <2> SUFFICES ASSUME NEW s \in Scenarios, Carried(s)'
               PROVE  /\ Passed(previous[s])
                      /\ previous[s].defn = defn[s]
                      /\ \/ SameView(defn[s], previous[s].content, seen)
                         \/ Removed(defn[s], previous[s].content, seen) # {}
    BY DEF CarriedMeansMeasured
  <2>1. Carried(s)
    BY DEF Carried
  <2> QED
    BY <2>1 DEF IInv, CarriedMeansMeasured
<1> QED
  BY <1>1, <1>2, <1>3 DEF IInv, Records

\* The invariant holds at the start, and one lemma per action keeps it.
LEMMA InitIInv == Init => IInv
<1> SUFFICES ASSUME Init PROVE IInv
  OBVIOUS
<1> USE LineageAssumption
<1>1. TypeOK
  <2>1. {head, tree, seen} \subseteq Trees /\ defn \in [Scenarios -> Definitions]
    BY DEF Init
  <2>2. suite \subseteq Scenarios /\ rebound \subseteq suite /\ forced \subseteq suite
    BY DEF Init
  <2>3. /\ previous \in [Scenarios -> Outcome \cup {NoOutcome}]
        /\ disk \in [Iterations -> [Scenarios -> Outcome \cup {NoOutcome}]]
        /\ \A s \in Scenarios : previous[s] # NoOutcome => previous[s].at <= iteration
    BY DEF Init, Blank
  <2>4. iteration \in 0..MaxIterations /\ crashes \in 0..MaxCrashes
    BY DEF Init
  <2>5. pc \in Assessed \cup {"build", "suite", "down"} /\ writing \in BOOLEAN
    BY DEF Init, Assessed
  <2> QED
    BY <2>1, <2>2, <2>3, <2>4, <2>5 DEF TypeOK
<1>2. Begun /\ Planned
  BY DEF Init, Begun, Planned, Blank
<1>3. Filed /\ Stamped /\ Ordered /\ Behind
  BY DEF Init, Filed, Stamped, Ordered, Behind, Blank, Names, Ran
<1>4. CarriedMeansMeasured /\ NothingDropped /\ PermanentIsFresh
  BY DEF Init, CarriedMeansMeasured, NothingDropped, PermanentIsFresh, Carried, Assessed
<1> QED
  BY <1>1, <1>2, <1>3, <1>4 DEF IInv, Records

LEMMA NotedIInv == IInv /\ NoteExecuted => IInv'
<1> SUFFICES ASSUME IInv, NoteExecuted PROVE IInv'
  OBVIOUS
<1>1. TypeOK'
  BY DEF IInv, Records, TypeOK, NoteExecuted, Assessed
<1> QED
  BY <1>1, QuietStep DEF NoteExecuted, Assessed

LEMMA AcceptedIInv == IInv /\ Accept => IInv'
<1> SUFFICES ASSUME IInv, Accept PROVE IInv'
  OBVIOUS
<1>1. TypeOK'
  BY DEF IInv, Records, TypeOK, Accept, Assessed
<1> QED
  BY <1>1, QuietStep DEF Accept, Assessed

LEMMA CorrectedIInv == IInv /\ Correct => IInv'
<1> SUFFICES ASSUME IInv, Correct PROVE IInv'
  OBVIOUS
<1>1. TypeOK'
  BY DEF IInv, Records, TypeOK, Correct, Assessed
<1> QED
  BY <1>1, QuietStep DEF Correct, Assessed

LEMMA BuiltIInv == IInv /\ Build => IInv'
<1> SUFFICES ASSUME IInv, Build PROVE IInv'
  OBVIOUS
<1> USE LineageAssumption
<1>1. TypeOK'
  BY DEF IInv, Records, TypeOK, Build, Assessed, Outcome, Iterations
<1>2. Begun'
  BY DEF IInv, Records, TypeOK, Build, Begun, Iterations
<1>3. Filed' /\ Planned'
  BY DEF IInv, Records, TypeOK, Build, Filed, Planned, Iterations
<1>4. Stamped' /\ Ordered' /\ Behind'
  BY DEF IInv, Records, Build, Stamped, Ordered, Behind, Names, Ran
<1>5. CarriedMeansMeasured' /\ NothingDropped' /\ PermanentIsFresh'
  BY DEF Build, CarriedMeansMeasured, NothingDropped, PermanentIsFresh, Carried, Assessed
<1> QED
  BY <1>1, <1>2, <1>3, <1>4, <1>5 DEF IInv, Records

LEMMA CrashedIInv == IInv /\ Crash => IInv'
<1> SUFFICES ASSUME IInv, Crash PROVE IInv'
  OBVIOUS
<1> USE LineageAssumption
<1>1. TypeOK'
  <2>1. /\ previous' \in [Scenarios -> Outcome \cup {NoOutcome}]
        /\ \A s \in Scenarios : previous'[s] # NoOutcome => previous'[s].at <= iteration'
    BY DEF Crash, Blank
  <2>2. crashes' \in 0..MaxCrashes
    BY DEF IInv, Records, TypeOK, Crash
  <2>3. forced' \subseteq suite' /\ pc' \in {"down"} /\ writing' \in BOOLEAN
    BY DEF Crash
  <2> QED
    BY <2>1, <2>2, <2>3 DEF IInv, Records, TypeOK, Crash
<1>2. Begun' /\ Filed' /\ Planned'
  BY DEF IInv, Records, Crash, Blank, Begun, Filed, Planned
<1>3. Stamped' /\ Ordered' /\ Behind'
  BY DEF IInv, Records, Crash, Blank, Stamped, Ordered, Behind, Names, Ran
<1>4. CarriedMeansMeasured' /\ NothingDropped' /\ PermanentIsFresh'
  BY DEF Crash, CarriedMeansMeasured, NothingDropped, PermanentIsFresh, Carried, Assessed
<1> QED
  BY <1>1, <1>2, <1>3, <1>4 DEF IInv, Records

LEMMA BegunWriteIInv == IInv /\ BeginWrite => IInv'
<1> SUFFICES ASSUME IInv, BeginWrite PROVE IInv'
  OBVIOUS
<1> USE LineageAssumption
<1>1. iteration \in Iterations /\ disk' = [disk EXCEPT ![iteration] = Blank]
  BY DEF IInv, Records, Begun, BeginWrite
<1>2. \A i \in Iterations, s \in Scenarios :
        disk'[i][s] = IF i = iteration THEN NoOutcome ELSE disk[i][s]
  BY <1>1 DEF IInv, Records, TypeOK, Blank
<1>3. TypeOK'
  BY <1>1 DEF IInv, Records, TypeOK, BeginWrite, Blank
<1>4. Begun' /\ Filed' /\ Planned'
  BY <1>2 DEF IInv, Records, BeginWrite, Begun, Filed, Planned
<1>5. Stamped' /\ Ordered' /\ Behind'
  BY <1>2 DEF IInv, Records, BeginWrite, Stamped, Ordered, Behind, Names, Ran
<1>6. NothingDropped' /\ PermanentIsFresh'
  BY DEF IInv, BeginWrite, NothingDropped, PermanentIsFresh
<1>7. CarriedMeansMeasured'
  BY DEF IInv, BeginWrite, CarriedMeansMeasured, Carried
<1> QED
  BY <1>3, <1>4, <1>5, <1>6, <1>7 DEF IInv, Records

LEMMA EndedWriteIInv ==
  ASSUME IInv, NEW from \in Assessed, NEW to \in Assessed \cup {"build"},
         EndWrite(from, to)
  PROVE  IInv'
<1> USE LineageAssumption
<1>1. iteration \in Iterations /\ disk' = [disk EXCEPT ![iteration] = previous]
  BY DEF IInv, Records, Begun, EndWrite, Assessed
<1>2. \A i \in Iterations, s \in Scenarios :
        disk'[i][s] = IF i = iteration THEN previous[s] ELSE disk[i][s]
  BY <1>1 DEF IInv, Records, TypeOK
<1>3. TypeOK'
  <2>1. disk' \in [Iterations -> [Scenarios -> Outcome \cup {NoOutcome}]]
    BY <1>1 DEF IInv, Records, TypeOK
  <2>2. pc' \in Assessed \cup {"build", "suite", "down"} /\ writing' \in BOOLEAN
    BY DEF EndWrite
  <2> QED
    BY <2>1, <2>2 DEF IInv, Records, TypeOK, EndWrite
<1>4. Begun' /\ Planned'
  BY <1>1 DEF IInv, Records, EndWrite, Begun, Planned, Assessed
<1>5. Filed'
  BY <1>1, <1>2 DEF IInv, Records, TypeOK, EndWrite, Filed, Planned, Iterations
<1>6. Stamped'
  BY <1>2 DEF IInv, Records, EndWrite, Stamped, Names
<1>7. Behind'
  BY <1>1, <1>2 DEF IInv, Records, TypeOK, EndWrite, Behind, Ran, Assessed, Outcome,
                    Iterations
<1>8. Ordered'
  <2> SUFFICES ASSUME NEW s \in Scenarios, NEW i \in Iterations, NEW j \in Iterations,
                      i <= j, Ran(disk'[i][s]), Ran(disk'[j][s])
               PROVE  disk'[i][s].at <= disk'[j][s].at
    BY DEF Ordered
  <2>1. \A k \in Iterations : disk[k][s] \in Record /\ previous[s] \in Record
    BY DEF IInv, Records, TypeOK, Record
  <2>2. CASE j = iteration
    BY <1>1, <1>2, <2>1, <2>2 DEF IInv, Records, Behind, Ran, EndWrite, Assessed, Record,
                             Outcome, Iterations
  <2>3. CASE j # iteration
    <3>1. j <= iteration
      BY <1>2, <2>3 DEF IInv, Records, Filed, Ran
    <3>2. i # iteration
      BY <1>1, <2>3, <3>1 DEF Iterations
    <3> QED
      BY <1>2, <2>3, <3>2 DEF IInv, Records, Ordered, Ran
  <2> QED
    BY <2>2, <2>3
<1>9. NothingDropped' /\ PermanentIsFresh'
  BY DEF IInv, EndWrite, NothingDropped, PermanentIsFresh
<1>10. CarriedMeansMeasured'
  BY DEF IInv, EndWrite, CarriedMeansMeasured, Carried
<1> QED
  BY <1>3, <1>4, <1>5, <1>6, <1>7, <1>8, <1>9, <1>10 DEF IInv, Records

LEMMA WrittenIInv == IInv /\ Write => IInv'
<1> SUFFICES ASSUME IInv, Write PROVE IInv'
  OBVIOUS
<1>1. CASE BeginWrite
  BY <1>1, BegunWriteIInv
<1>2. CASE EndWrite("record", "note")
  BY <1>2, EndedWriteIInv DEF Assessed
<1>3. CASE EndWrite("rerecord", "judged")
  BY <1>3, EndedWriteIInv DEF Assessed
<1>4. CASE EndWrite("accept", "accepted")
  BY <1>4, EndedWriteIInv DEF Assessed
<1>5. CASE EndWrite("correct", IF iteration < MaxIterations THEN "build" ELSE "ended")
  BY <1>5, EndedWriteIInv DEF Assessed
<1> QED
  BY <1>1, <1>2, <1>3, <1>4, <1>5 DEF Write

LEMMA ResumedIInv == IInv /\ Resume => IInv'
<1> SUFFICES ASSUME IInv, Resume PROVE IInv'
  OBVIOUS
<1> USE LineageAssumption
<1>1. previous' = Accumulated /\ Accumulated = [s \in Scenarios |-> Accumulated[s]]
  BY DEF Resume, Accumulated
<1>2. \A s \in Scenarios :
        \/ /\ previous'[s] = NoOutcome
           /\ \A i \in Iterations : ~Ran(disk[i][s])
        \/ \E m \in Iterations :
             /\ previous'[s] = disk[m][s]
             /\ Ran(disk[m][s])
             /\ \A i \in Iterations : Ran(disk[i][s]) => i <= m
  BY <1>1, RecallsTheNewest DEF IInv, Records, TypeOK, Record
<1>3. \A s \in Scenarios :
        previous'[s] # NoOutcome =>
          \E m \in Iterations : previous'[s] = disk[m][s] /\ disk[m][s] # NoOutcome
  BY <1>2 DEF Ran
<1>4. TypeOK'
  <2>1. previous' \in [Scenarios -> Outcome \cup {NoOutcome}]
    <3>1. \A s \in Scenarios : previous'[s] \in Outcome \cup {NoOutcome}
      BY <1>3 DEF IInv, Records, TypeOK
    <3> QED
      BY <1>1, <3>1
  <2>2. \A s \in Scenarios : previous'[s] # NoOutcome => previous'[s].at <= iteration
    <3> SUFFICES ASSUME NEW s \in Scenarios, previous'[s] # NoOutcome
                 PROVE  previous'[s].at <= iteration
      OBVIOUS
    <3>1. PICK m \in Iterations : previous'[s] = disk[m][s] /\ disk[m][s] # NoOutcome
      BY <1>3
    <3>2. m <= iteration /\ disk[m][s].at <= m
      BY <3>1 DEF IInv, Records, Filed
    <3>3. disk[m][s] \in Outcome
      BY <3>1 DEF IInv, Records, TypeOK
    <3>4. disk[m][s].at \in Nat /\ m \in Nat
      BY <3>3 DEF Outcome, Iterations
    <3> QED
      BY <3>1, <3>2, <3>4 DEF IInv, Records, TypeOK
  <2>3. rebound' \subseteq suite /\ forced' \subseteq suite
    BY DEF IInv, Records, TypeOK, Resume
  <2>4. defn' \in [Scenarios -> Definitions] /\ pc' = "build"
    BY DEF Resume
  <2> QED
    BY <2>1, <2>2, <2>3, <2>4 DEF IInv, Records, TypeOK, Resume
<1>5. Begun' /\ Filed'
  BY DEF IInv, Records, Resume, Begun, Filed
<1>6. Planned'
  BY <1>3 DEF IInv, Records, Resume, Planned, Filed
<1>7. Stamped'
  <2>1. \A s \in Scenarios : Names(previous'[s])
    BY <1>3 DEF IInv, Records, Stamped, Names
  <2>2. \A i \in Iterations, s \in Scenarios : Names(disk'[i][s])
    BY DEF IInv, Records, Stamped, Names, Resume
  <2> QED
    BY <2>1, <2>2 DEF Stamped, Names
<1>8. Ordered'
  BY DEF IInv, Records, Resume, Ordered, Ran
<1>9. Behind'
  <2> SUFFICES ASSUME NEW s \in Scenarios, NEW i \in Iterations, Ran(disk[i][s])
               PROVE  previous'[s] # NoOutcome /\ disk[i][s].at <= previous'[s].at
    BY DEF Behind, Resume, Ran
  <2>1. PICK m \in Iterations : /\ previous'[s] = disk[m][s]
                                /\ Ran(disk[m][s])
                                /\ i <= m
    BY <1>2
  <2> QED
    BY <2>1 DEF IInv, Records, Ordered, Ran
<1>10. CarriedMeansMeasured' /\ NothingDropped' /\ PermanentIsFresh'
  BY DEF Resume, CarriedMeansMeasured, NothingDropped, PermanentIsFresh, Carried, Assessed
<1> QED
  BY <1>4, <1>5, <1>6, <1>7, <1>8, <1>9, <1>10 DEF IInv, Records

\* An outcome that is stamped now is of this iteration, and names the tree it
\* ran on or none.
LEMMA StampedNow ==
  ASSUME IInv, iteration \in Iterations, NEW s \in Scenarios, NEW v \in Verdicts,
         NEW left \in Trees
  PROVE  /\ Stamp(s, v, left) \in Outcome
         /\ Stamp(s, v, left) # NoOutcome
         /\ Stamp(s, v, left).at = iteration
         /\ Names(Stamp(s, v, left))
<1> USE LineageAssumption
<1>1. /\ head \in Trees /\ tree \in Trees /\ defn[s] \in Definitions
  BY DEF IInv, Records, TypeOK
<1>2. Stamp(s, v, left) \in Outcome
  BY <1>1 DEF Stamp, Outcome
<1>3. Stamp(s, v, left).at = iteration /\ Names(Stamp(s, v, left))
  BY <1>1 DEF Stamp, Names
<1> QED
  BY <1>2, <1>3

LEMMA GapClosedIInv == IInv /\ CloseGap => IInv'
<1> SUFFICES ASSUME IInv, CloseGap PROVE IInv'
  OBVIOUS
<1> USE LineageAssumption
<1>1. PICK new \in (SUBSET (Scenarios \ suite)) \ {{}}, left \in {tree} \cup Litter :
        \E verdicts \in Executions(new) :
          /\ suite' = suite \cup new
          /\ previous' = [s \in Scenarios |->
               IF s \in new THEN Stamp(s, verdicts[s], left) ELSE previous[s]]
          /\ tree' = left
  BY DEF CloseGap
<1>2. PICK verdicts \in Executions(new) :
        /\ suite' = suite \cup new
        /\ previous' = [s \in Scenarios |->
             IF s \in new THEN Stamp(s, verdicts[s], left) ELSE previous[s]]
        /\ tree' = left
  BY <1>1
<1>3. iteration \in Iterations /\ left \in Trees /\ \A s \in new : verdicts[s] \in Verdicts
  BY <1>1, <1>2 DEF IInv, Records, Begun, TypeOK, CloseGap, Executions
<1>4. \A s \in new : /\ previous'[s] \in Outcome
                     /\ previous'[s] # NoOutcome
                     /\ previous'[s].at = iteration
                     /\ Names(previous'[s])
                     /\ previous[s] = NoOutcome
                     /\ \A i \in Iterations : disk[i][s] = NoOutcome
  BY <1>2, <1>3, StampedNow DEF IInv, Records, Planned, Filed
<1>5. \A s \in Scenarios \ new : previous'[s] = previous[s]
  BY <1>2
<1>6. TypeOK'
  <2>1. \A s \in Scenarios : previous'[s] \in Outcome \cup {NoOutcome}
    BY <1>4, <1>5 DEF IInv, Records, TypeOK
  <2>2. previous' \in [Scenarios -> Outcome \cup {NoOutcome}]
    BY <2>1, <1>2
  <2>3. \A s \in Scenarios : previous'[s] # NoOutcome => previous'[s].at <= iteration
    BY <1>3, <1>4, <1>5 DEF IInv, Records, TypeOK, Iterations
  <2>4. /\ tree' \in Trees /\ suite' \subseteq Scenarios
        /\ rebound \subseteq suite' /\ forced \subseteq suite'
        /\ pc' \in Assessed
    BY <1>2, <1>3 DEF IInv, Records, TypeOK, CloseGap, Assessed
  <2> QED
    BY <2>2, <2>3, <2>4 DEF IInv, Records, TypeOK, CloseGap
<1>7. Begun' /\ Filed' /\ Planned'
  BY <1>2, <1>3, <1>5 DEF IInv, Records, CloseGap, Begun, Filed, Planned
<1>8. Stamped'
  <2>1. \A s \in Scenarios : Names(previous'[s])
    BY <1>4, <1>5 DEF IInv, Records, Stamped
  <2> QED
    BY <2>1 DEF IInv, Records, CloseGap, Stamped, Names
<1>9. Ordered'
  BY DEF IInv, Records, CloseGap, Ordered, Ran
<1>10. Behind'
  BY <1>4, <1>5 DEF IInv, Records, CloseGap, Behind, Ran
<1>11. NothingDropped'
  <2>1. \A s \in suite : s \in Scenarios /\ previous[s] # NoOutcome
    BY DEF IInv, Records, TypeOK, CloseGap, NothingDropped, Assessed
  <2>2. \A s \in suite' : previous'[s] # NoOutcome
    BY <1>2, <1>4, <1>5, <2>1
  <2> QED
    BY <2>2 DEF NothingDropped
<1>12. PermanentIsFresh'
  BY <1>5, <1>1 DEF IInv, Records, Planned, CloseGap, PermanentIsFresh, Assessed
<1>13. CarriedMeansMeasured'
  <2> SUFFICES ASSUME NEW s \in Scenarios, Carried(s)'
               PROVE  /\ Passed(previous'[s])
                      /\ previous'[s].defn = defn[s]
                      /\ \/ SameView(defn[s], previous'[s].content, seen)
                         \/ Removed(defn[s], previous'[s].content, seen) # {}
    BY DEF CarriedMeansMeasured, CloseGap, Passed
  <2>1. s \notin new
    <3>1. previous'[s].at < iteration
      BY DEF Carried, CloseGap
    <3>2. ~(iteration < iteration)
      BY <1>3 DEF Iterations
    <3> QED
      BY <1>4, <3>1, <3>2
  <2>2. Carried(s)
    BY <1>5, <2>1 DEF Carried, CloseGap, Assessed
  <2> QED
    BY <1>5, <2>1, <2>2 DEF IInv, CarriedMeansMeasured
<1> QED
  BY <1>6, <1>7, <1>8, <1>9, <1>10, <1>11, <1>12, <1>13 DEF IInv, Records

\* Assessing and executing: what is not executed is a pass whose subject nothing
\* changed in since.
LEMMA SuiteRanIInv == IInv /\ RunSuite => IInv'
<1> SUFFICES ASSUME IInv, RunSuite PROVE IInv'
  OBVIOUS
<1> USE LineageAssumption
<1>1. PICK lost \in SUBSET suite, left \in {tree} \cup Litter :
        \E verdicts \in Executions(Chosen(lost)) :
          /\ previous' = Inherit(verdicts, Valid(lost), left)
          /\ seen' = tree
          /\ tree' = left
  BY DEF RunSuite
<1>2. PICK verdicts \in Executions(Chosen(lost)) :
        /\ previous' = Inherit(verdicts, Valid(lost), left)
        /\ seen' = tree
        /\ tree' = left
  BY <1>1
<1> DEFINE ran  == Chosen(lost)
           kept == Valid(lost) \ ran
<1>3. /\ iteration \in Iterations /\ left \in Trees
      /\ DOMAIN verdicts = ran /\ \A s \in ran : verdicts[s] \in Verdicts
  BY <1>1, <1>2 DEF IInv, Records, Begun, TypeOK, RunSuite, Executions
<1>4. /\ ran \subseteq suite /\ kept \subseteq suite /\ suite = ran \cup kept
      /\ Permanent \subseteq ran /\ suite \subseteq Scenarios
  BY DEF IInv, Records, TypeOK, Planned, Chosen, SelectRerun, Valid
<1>5. \A s \in ran : /\ previous'[s] \in Outcome
                     /\ previous'[s] # NoOutcome
                     /\ previous'[s].at = iteration
                     /\ Names(previous'[s])
  BY <1>2, <1>3, <1>4, StampedNow DEF Inherit
<1>6. \A s \in kept : previous'[s] = previous[s] /\ previous[s] # NoOutcome
  BY <1>2, <1>3, <1>4 DEF Inherit, Valid, Passed
<1>7. \A s \in Scenarios \ suite : previous'[s] = NoOutcome
  BY <1>2, <1>3, <1>4 DEF Inherit
<1> HIDE DEF ran, kept
<1>8. TypeOK'
  <2>1. \A s \in Scenarios : previous'[s] \in Outcome \cup {NoOutcome}
    BY <1>4, <1>5, <1>6, <1>7 DEF IInv, Records, TypeOK
  <2>2. previous' \in [Scenarios -> Outcome \cup {NoOutcome}]
    BY <2>1, <1>2 DEF Inherit
  <2>3. \A s \in Scenarios : previous'[s] # NoOutcome => previous'[s].at <= iteration
    BY <1>3, <1>4, <1>5, <1>6, <1>7 DEF IInv, Records, TypeOK, Iterations
  <2>4. tree' \in Trees /\ seen' \in Trees /\ pc' \in Assessed
    BY <1>2, <1>3 DEF IInv, Records, TypeOK, RunSuite, Assessed
  <2> QED
    BY <2>2, <2>3, <2>4 DEF IInv, Records, TypeOK, RunSuite
<1>9. Begun' /\ Filed' /\ Planned'
  BY <1>3, <1>7 DEF IInv, Records, RunSuite, Begun, Filed, Planned
<1>10. Stamped'
  <2>1. \A s \in Scenarios : Names(previous'[s])
    BY <1>4, <1>5, <1>6, <1>7 DEF IInv, Records, Stamped, Names
  <2> QED
    BY <2>1 DEF IInv, Records, RunSuite, Stamped, Names
<1>11. Ordered'
  BY DEF IInv, Records, RunSuite, Ordered, Ran
<1>12. Behind'
  <2> SUFFICES ASSUME NEW s \in Scenarios, NEW i \in Iterations, Ran(disk[i][s])
               PROVE  previous'[s] # NoOutcome /\ disk[i][s].at <= previous'[s].at
    BY DEF Behind, RunSuite, Ran
  <2>1. s \in suite /\ disk[i][s].at <= i /\ i <= iteration /\ disk[i][s] \in Outcome
    BY DEF IInv, Records, TypeOK, Filed, Ran
  <2>2. disk[i][s].at \in Nat /\ i \in Nat /\ iteration \in Nat
    BY <1>3, <2>1 DEF Outcome, Iterations
  <2>3. CASE s \in ran
    BY <1>5, <2>1, <2>2, <2>3
  <2>4. CASE s \in kept
    BY <1>6, <2>4 DEF IInv, Records, Behind, RunSuite
  <2> QED
    BY <1>4, <2>1, <2>3, <2>4
<1>13. NothingDropped'
  BY <1>4, <1>5, <1>6 DEF RunSuite, NothingDropped
<1>14. PermanentIsFresh'
  BY <1>4, <1>5 DEF RunSuite, PermanentIsFresh
<1>15. CarriedMeansMeasured'
  <2> SUFFICES ASSUME NEW s \in Scenarios, Carried(s)'
               PROVE  /\ Passed(previous'[s])
                      /\ previous'[s].defn = defn[s]
                      /\ \/ SameView(defn[s], previous'[s].content, tree)
                         \/ Removed(defn[s], previous'[s].content, tree) # {}
    BY <1>2 DEF CarriedMeansMeasured, RunSuite, Passed
  <2>1. s \in kept
    BY <1>3, <1>4, <1>5, <1>7 DEF Carried, RunSuite, Iterations
  <2>2. /\ Passed(previous[s])
        /\ previous[s].tree # Unstamped
        /\ previous[s].defn = defn[s]
        /\ ~TouchedBy(Changed(previous[s].tree), defn[s], tree)
    BY <2>1 DEF kept, Valid
  <2>3. /\ previous[s].content = previous[s].tree /\ previous[s].tree \in Trees
        /\ tree \in Trees /\ defn[s] \in Definitions
    BY <2>1, <2>2, <1>6 DEF IInv, Records, Stamped, Names, TypeOK, Outcome
  <2>4. Differ(previous[s].tree, tree) \subseteq Changed(previous[s].tree)
    BY DEF Differ, Changed
  <2>5. \/ SameView(defn[s], previous[s].tree, tree)
        \/ Removed(defn[s], previous[s].tree, tree) # {}
    BY <2>2, <2>3, <2>4, UntouchedSeesTheSame
  <2> QED
    BY <1>6, <2>1, <2>2, <2>3, <2>5
<1> QED
  BY <1>8, <1>9, <1>10, <1>11, <1>12, <1>13, <1>14, <1>15 DEF IInv, Records

-----------------------------------------------------------------------------
(* The theorems.                                                           *)

\* Where every outcome the driver knows of comes from, at any time
\* (run_control_loop and the evidence files it writes).
THEOREM Invariance == Spec => []IInv
<1>1. IInv /\ UNCHANGED vars => IInv'
  <2> SUFFICES ASSUME IInv, UNCHANGED vars PROVE IInv'
    OBVIOUS
  <2>1. TypeOK' /\ Begun' /\ Filed' /\ Planned' /\ Stamped' /\ Ordered' /\ Behind'
    BY DEF IInv, Records, TypeOK, Begun, Filed, Planned, Stamped, Ordered, Behind,
           Names, Ran, vars
  <2>2. CarriedMeansMeasured' /\ NothingDropped' /\ PermanentIsFresh'
    BY DEF IInv, CarriedMeansMeasured, NothingDropped, PermanentIsFresh, Carried, vars
  <2> QED
    BY <2>1, <2>2 DEF IInv, Records
<1>2. IInv /\ [Next]_vars => IInv'
  BY <1>1, BuiltIInv, SuiteRanIInv, WrittenIInv, NotedIInv, GapClosedIInv, AcceptedIInv,
     CorrectedIInv, CrashedIInv, ResumedIInv DEF Next
<1> QED
  BY <1>2, InitIInv, PTL DEF Spec

\* Type correctness of the model, and no outcome from a later iteration.
THEOREM TypeCorrect == Spec => []TypeOK
<1>1. IInv => TypeOK
  BY DEF IInv, Records
<1> QED
  BY <1>1, Invariance, PTL

\* Evidence that is carried was a pass of the same definition on a tree in which
\* the scenario saw what it would see now (evidence_lineage.py, assess).
THEOREM CarriedIsMeasured == Spec => []CarriedMeansMeasured
<1>1. IInv => CarriedMeansMeasured
  BY DEF IInv
<1> QED
  BY <1>1, Invariance, PTL

\* The suite that is judged is complete (cli.py, the suite section; inherit).
THEOREM NoneDropped == Spec => []NothingDropped
<1>1. IInv => NothingDropped
  BY DEF IInv
<1> QED
  BY <1>1, Invariance, PTL

\* The permanent regression set runs in every iteration (select_rerun).
THEOREM PermanentRuns == Spec => []PermanentIsFresh
<1>1. IInv => PermanentIsFresh
  BY DEF IInv
<1> QED
  BY <1>1, Invariance, PTL

\* Neither a carried nor a recalled outcome is older than one that can be read
\* (accumulated_result, inherit).
THEOREM NewestIsKept == Spec => []NewestStands
<1>1. IInv => NewestStands
  BY DEF IInv, Records, Behind, NewestStands, Carried, Assessed
<1> QED
  BY <1>1, Invariance, PTL

-----------------------------------------------------------------------------
(* Naturals.                                                               *)

\* Less-than is well-founded on the naturals.
LEMMA LessThanWellFounded == IsWellFoundedOn({ss \in Nat \X Nat : ss[1] < ss[2]}, Nat)
BY NatLessThanWellFounded, Zenon DEF OpToRel

\* A set of naturals that is not empty has a least element.
LEMMA HasLeast ==
  ASSUME NEW D, D \subseteq Nat, D # {}
  PROVE  \E m \in D : \A k \in D : m <= k
<1> DEFINE R == {ss \in Nat \X Nat : ss[1] < ss[2]}
<1> HIDE DEF R
<1>1. IsWellFoundedOn(R, Nat)
  BY LessThanWellFounded DEF R
<1>2. PICK m \in D : \A k \in D : ~(<<k, m>> \in R)
  BY <1>1, WFMin
<1>3. \A k \in D : ~(k < m)
  BY <1>2 DEF R
<1> QED
  BY <1>3

\* A set of naturals that holds 0 and, with each member, the next holds them all.
LEMMA NaturalsByInduction ==
  ASSUME NEW T, 0 \in T, \A n \in Nat : n \in T => n + 1 \in T
  PROVE  \A n \in Nat : n \in T
<1> DEFINE Out == {n \in Nat : n \notin T}
<1>1. SUFFICES ASSUME Out # {} PROVE FALSE
  OBVIOUS
<1>2. PICK m \in Out : \A k \in Out : m <= k
  BY <1>1, HasLeast
<1>3. m \in Nat /\ m # 0 /\ m \notin T
  OBVIOUS
<1>4. m - 1 \in Nat /\ (m - 1) + 1 = m /\ ~(m <= m - 1)
  BY <1>3
<1>5. m - 1 \in T
  BY <1>2, <1>4
<1> QED
  BY <1>3, <1>4, <1>5

-----------------------------------------------------------------------------
(* Sequences of anything.                                                  *)

IsSequence(s) == Len(s) \in Nat /\ s = [i \in 1..Len(s) |-> s[i]]

\* A sequence in the sense used here is one of the sequences of its members.
LEMMA SequenceIs ==
  ASSUME NEW s, IsSequence(s)
  PROVE  /\ DOMAIN s = 1..Len(s)
         /\ s \in Seq({s[i] : i \in 1..Len(s)})
<1>1. DOMAIN s = 1..Len(s)
  BY DEF IsSequence
<1>2. s \in [1..Len(s) -> {s[i] : i \in 1..Len(s)}]
  BY DEF IsSequence
<1>3. s \in Seq({s[i] : i \in 1..Len(s)})
  BY <1>2, SeqDef DEF IsSequence
<1> QED
  BY <1>1, <1>3

LEMMA EmptySequence == IsSequence(<<>>) /\ Len(<<>>) = 0
BY DEF IsSequence

\* Any sequence over a set is one in this sense.
LEMMA MembersSequence ==
  ASSUME NEW S, NEW s \in Seq(S)
  PROVE  IsSequence(s) /\ \A i \in 1..Len(s) : s[i] \in S
BY DEF IsSequence

\* What a member appended to a sequence leaves as it was.
LEMMA AppendIs ==
  ASSUME NEW s, IsSequence(s), NEW x
  PROVE  /\ IsSequence(Append(s, x)) /\ Len(Append(s, x)) = Len(s) + 1
         /\ Append(s, x)[Len(s) + 1] = x
         /\ \A i \in 1..Len(s) : Append(s, x)[i] = s[i]
<1> DEFINE S == {s[i] : i \in 1..Len(s)} \cup {x}
<1>1. \A i \in 1..Len(s) : s[i] \in S
  OBVIOUS
<1>2. x \in S
  OBVIOUS
<1> HIDE DEF S
<1>3. s \in Seq(S)
  <2>1. s \in [1..Len(s) -> S]
    BY <1>1 DEF IsSequence
  <2> QED
    BY <2>1, SeqDef DEF IsSequence
<1>4. Append(s, x) \in Seq(S)
  BY <1>2, <1>3
<1>5. /\ Len(Append(s, x)) = Len(s) + 1
      /\ Append(s, x)[Len(s) + 1] = x
      /\ \A i \in 1..Len(s) : Append(s, x)[i] = s[i]
  BY <1>2, <1>3
<1>6. IsSequence(Append(s, x))
  BY <1>4, MembersSequence
<1> QED
  BY <1>5, <1>6

\* A function on 0..j carried one number further.
Further(f, j, x) == [k \in 0..(j + 1) |-> IF k = j + 1 THEN x ELSE f[k]]

-----------------------------------------------------------------------------
(* The recursive functions of the planner, one step at a time.             *)

\* f tells what is accepted of the first n candidates.
TellsAccepting(f, n, context, candidates, eligible, categories) ==
  /\ f = [k \in 0..n |-> f[k]]
  /\ f[0] = [context |-> context, accepted |-> <<>>]
  /\ \A k \in 1..n : f[k] = WithNext(f[k - 1], candidates[k], eligible, categories)

\* Batches are judged, admitted and carried by recursive functions. Each
\* exists: what tells it up to n can be told one further.
LEMMA AcceptingExists ==
  ASSUME NEW context, NEW candidates, NEW eligible, NEW categories
  PROVE  \A n \in Nat : \E f : TellsAccepting(f, n, context, candidates, eligible, categories)
<1> USE DEF TellsAccepting
<1> DEFINE Told(j) == \E f : TellsAccepting(f, j, context, candidates, eligible, categories)
           T == {j \in Nat : Told(j)}
<1>1. 0 \in T
  <2>1. Told(0)
    <3> WITNESS [k \in 0..0 |-> [context |-> context, accepted |-> <<>>]]
    <3> QED
      OBVIOUS
  <2> HIDE DEF Told
  <2> QED
    BY <2>1
<1>2. ASSUME NEW j \in Nat, j \in T
      PROVE  j + 1 \in T
  <2>1. PICK f : TellsAccepting(f, j, context, candidates, eligible, categories)
    BY <1>2
  <2>a. PICK x : x = WithNext(f[j], candidates[(j + 1)], eligible, categories)
    OBVIOUS
  <2> DEFINE g == Further(f, j, x)
  <2>2. /\ g = [k \in 0..(j + 1) |-> g[k]]
        /\ g[j + 1] = x
        /\ \A k \in 0..j : g[k] = f[k]
        /\ 0 \in 0..j /\ j \in 0..j
        /\ \A k \in 1..(j + 1) : k = j + 1 \/ (k \in 1..j /\ k \in 0..j /\ k - 1 \in 0..j)
        /\ (j + 1) - 1 = j
    BY DEF Further
  <2> HIDE DEF g
  <2>3. \A k \in 1..(j + 1) : g[k] = WithNext(g[k - 1], candidates[k], eligible, categories)
    BY <2>a, <2>1, <2>2
  <2>4. g[0] = [context |-> context, accepted |-> <<>>]
    BY <2>1, <2>2
  <2>5. Told(j + 1)
    BY <2>2, <2>3, <2>4
  <2> HIDE DEF Told
  <2> QED
    BY <2>5
<1> HIDE DEF T
<1>3. \A j \in Nat : j \in T
  BY <1>1, <1>2, NaturalsByInduction
<1> QED
  BY <1>3 DEF T

\* What validate_plan has accepted after each candidate.
LEMMA AcceptingStep ==
  ASSUME NEW context, NEW candidates, NEW eligible, NEW categories, Len(candidates) \in Nat
  PROVE  LET f == Accepting(context, candidates, eligible, categories)
         IN  /\ f[0] = [context |-> context, accepted |-> <<>>]
             /\ \A k \in 1..Len(candidates) :
                  f[k] = WithNext(f[k - 1], candidates[k], eligible, categories)
<1>1. PICK g : TellsAccepting(g, Len(candidates), context, candidates, eligible, categories)
  BY AcceptingExists
<1>2. g = [n \in 0..Len(candidates) |->
      IF n = 0 THEN [context |-> context, accepted |-> <<>>]
      ELSE WithNext(g[n - 1], candidates[n], eligible, categories)]
  <2>1. \A n \in 0..Len(candidates) : n = 0 \/ (n # 0 /\ n \in 1..Len(candidates))
    OBVIOUS
  <2>2. \A n \in 0..Len(candidates) : g[n] =
        IF n = 0 THEN [context |-> context, accepted |-> <<>>]
        ELSE WithNext(g[n - 1], candidates[n], eligible, categories)
    BY <1>1, <2>1 DEF TellsAccepting
  <2>3. g = [n \in 0..Len(candidates) |-> g[n]]
    BY <1>1 DEF TellsAccepting
  <2> QED
    BY <2>2, <2>3
<1>3. \E f : f = [n \in 0..Len(candidates) |->
      IF n = 0 THEN [context |-> context, accepted |-> <<>>]
      ELSE WithNext(f[n - 1], candidates[n], eligible, categories)]
  BY <1>2, Zenon
<1> DEFINE f == Accepting(context, candidates, eligible, categories)
<1>4. f = [n \in 0..Len(candidates) |->
      IF n = 0 THEN [context |-> context, accepted |-> <<>>]
      ELSE WithNext(f[n - 1], candidates[n], eligible, categories)]
  BY <1>3, Zenon DEF Accepting
<1> HIDE DEF f
<1>5. /\ f[0] = [context |-> context, accepted |-> <<>>]
      /\ \A k \in 1..Len(candidates) :
           f[k] = WithNext(f[k - 1], candidates[k], eligible, categories)
  BY <1>4
<1> QED
  BY <1>5 DEF f

\* What the n-th valid candidate makes of the plan.
Admission(q, valid, allowed, n) == IF n > allowed THEN q ELSE Admitted(q, valid[n])

\* f tells the plan after each of the first n valid candidates.
TellsAdmitting(f, n, p, valid, allowed) ==
  /\ f = [k \in 0..n |-> f[k]]
  /\ f[0] = p
  /\ \A k \in 1..n : f[k] = Admission(f[k - 1], valid, allowed, k)

LEMMA AdmittingExists ==
  ASSUME NEW p, NEW valid, NEW allowed
  PROVE  \A n \in Nat : \E f : TellsAdmitting(f, n, p, valid, allowed)
<1> USE DEF TellsAdmitting
<1> DEFINE Told(j) == \E f : TellsAdmitting(f, j, p, valid, allowed)
           T == {j \in Nat : Told(j)}
<1>1. 0 \in T
  <2>1. Told(0)
    <3> WITNESS [k \in 0..0 |-> p]
    <3> QED
      OBVIOUS
  <2> HIDE DEF Told
  <2> QED
    BY <2>1
<1>2. ASSUME NEW j \in Nat, j \in T
      PROVE  j + 1 \in T
  <2>1. PICK f : TellsAdmitting(f, j, p, valid, allowed)
    BY <1>2
  <2>a. PICK x : x = Admission(f[j], valid, allowed, (j + 1))
    OBVIOUS
  <2> DEFINE g == Further(f, j, x)
  <2>2. /\ g = [k \in 0..(j + 1) |-> g[k]]
        /\ g[j + 1] = x
        /\ \A k \in 0..j : g[k] = f[k]
        /\ 0 \in 0..j /\ j \in 0..j
        /\ \A k \in 1..(j + 1) : k = j + 1 \/ (k \in 1..j /\ k \in 0..j /\ k - 1 \in 0..j)
        /\ (j + 1) - 1 = j
    BY DEF Further
  <2> HIDE DEF g
  <2>3. \A k \in 1..(j + 1) : g[k] = Admission(g[k - 1], valid, allowed, k)
    BY <2>a, <2>1, <2>2
  <2>4. g[0] = p
    BY <2>1, <2>2
  <2>5. Told(j + 1)
    BY <2>2, <2>3, <2>4
  <2> HIDE DEF Told
  <2> QED
    BY <2>5
<1> HIDE DEF T
<1>3. \A j \in Nat : j \in T
  BY <1>1, <1>2, NaturalsByInduction
<1> QED
  BY <1>3 DEF T

\* The plan after each admitted candidate.
LEMMA AdmittingStep ==
  ASSUME NEW p, NEW valid, NEW allowed, Len(valid) \in Nat
  PROVE  LET f == Admitting(p, valid, allowed)
         IN  f[0] = p /\ \A k \in 1..Len(valid) : f[k] = Admission(f[k - 1], valid, allowed, k)
<1>1. PICK g : TellsAdmitting(g, Len(valid), p, valid, allowed)
  BY AdmittingExists
<1>2. g = [n \in 0..Len(valid) |->
      IF n = 0 THEN p ELSE IF n > allowed THEN g[n - 1] ELSE Admitted(g[n - 1], valid[n])]
  <2>1. \A n \in 0..Len(valid) : n = 0 \/ (n # 0 /\ n \in 1..Len(valid))
    OBVIOUS
  <2>2. \A n \in 0..Len(valid) : g[n] =
        IF n = 0 THEN p ELSE IF n > allowed THEN g[n - 1] ELSE Admitted(g[n - 1], valid[n])
    BY <1>1, <2>1 DEF TellsAdmitting, Admission
  <2>3. g = [n \in 0..Len(valid) |-> g[n]]
    BY <1>1 DEF TellsAdmitting
  <2> QED
    BY <2>2, <2>3
<1>3. \E f : f = [n \in 0..Len(valid) |->
      IF n = 0 THEN p ELSE IF n > allowed THEN f[n - 1] ELSE Admitted(f[n - 1], valid[n])]
  BY <1>2, Zenon
<1> DEFINE f == Admitting(p, valid, allowed)
<1>4. f = [n \in 0..Len(valid) |->
      IF n = 0 THEN p ELSE IF n > allowed THEN f[n - 1] ELSE Admitted(f[n - 1], valid[n])]
  BY <1>3, Zenon DEF Admitting
<1> HIDE DEF f
<1>5. f[0] = p /\ \A k \in 1..Len(valid) : f[k] = Admission(f[k - 1], valid, allowed, k)
  BY <1>4 DEF Admission
<1> QED
  BY <1>5 DEF f

\* What the n-th of a list makes of the risks.
Owing(risks, list, ids, n) == IF list[n].id \in ids THEN Carry(risks, list[n].id) ELSE risks

\* f tells the risks after each of the first n of the list.
TellsCarrying(f, n, risks, list, ids) ==
  /\ f = [k \in 0..n |-> f[k]]
  /\ f[0] = risks
  /\ \A k \in 1..n : f[k] = Owing(f[k - 1], list, ids, k)

LEMMA CarryingExists ==
  ASSUME NEW risks, NEW list, NEW ids
  PROVE  \A n \in Nat : \E f : TellsCarrying(f, n, risks, list, ids)
<1> USE DEF TellsCarrying
<1> DEFINE Told(j) == \E f : TellsCarrying(f, j, risks, list, ids)
           T == {j \in Nat : Told(j)}
<1>1. 0 \in T
  <2>1. Told(0)
    <3> WITNESS [k \in 0..0 |-> risks]
    <3> QED
      OBVIOUS
  <2> HIDE DEF Told
  <2> QED
    BY <2>1
<1>2. ASSUME NEW j \in Nat, j \in T
      PROVE  j + 1 \in T
  <2>1. PICK f : TellsCarrying(f, j, risks, list, ids)
    BY <1>2
  <2>a. PICK x : x = Owing(f[j], list, ids, (j + 1))
    OBVIOUS
  <2> DEFINE g == Further(f, j, x)
  <2>2. /\ g = [k \in 0..(j + 1) |-> g[k]]
        /\ g[j + 1] = x
        /\ \A k \in 0..j : g[k] = f[k]
        /\ 0 \in 0..j /\ j \in 0..j
        /\ \A k \in 1..(j + 1) : k = j + 1 \/ (k \in 1..j /\ k \in 0..j /\ k - 1 \in 0..j)
        /\ (j + 1) - 1 = j
    BY DEF Further
  <2> HIDE DEF g
  <2>3. \A k \in 1..(j + 1) : g[k] = Owing(g[k - 1], list, ids, k)
    BY <2>a, <2>1, <2>2
  <2>4. g[0] = risks
    BY <2>1, <2>2
  <2>5. Told(j + 1)
    BY <2>2, <2>3, <2>4
  <2> HIDE DEF Told
  <2> QED
    BY <2>5
<1> HIDE DEF T
<1>3. \A j \in Nat : j \in T
  BY <1>1, <1>2, NaturalsByInduction
<1> QED
  BY <1>3 DEF T

\* The register after each obligation that is carried.
LEMMA CarryingStep ==
  ASSUME NEW risks, NEW list, NEW ids, Len(list) \in Nat
  PROVE  LET f == Carrying(risks, list, ids)
         IN  f[0] = risks /\ \A k \in 1..Len(list) : f[k] = Owing(f[k - 1], list, ids, k)
<1>1. PICK g : TellsCarrying(g, Len(list), risks, list, ids)
  BY CarryingExists
<1>2. g = [n \in 0..Len(list) |->
      IF n = 0 THEN risks ELSE IF list[n].id \in ids THEN Carry(g[n - 1], list[n].id) ELSE g[n - 1]]
  <2>1. \A n \in 0..Len(list) : n = 0 \/ (n # 0 /\ n \in 1..Len(list))
    OBVIOUS
  <2>2. \A n \in 0..Len(list) : g[n] =
        IF n = 0 THEN risks
        ELSE IF list[n].id \in ids THEN Carry(g[n - 1], list[n].id) ELSE g[n - 1]
    BY <1>1, <2>1 DEF TellsCarrying, Owing
  <2>3. g = [n \in 0..Len(list) |-> g[n]]
    BY <1>1 DEF TellsCarrying
  <2> QED
    BY <2>2, <2>3
<1>3. \E f : f = [n \in 0..Len(list) |->
      IF n = 0 THEN risks ELSE IF list[n].id \in ids THEN Carry(f[n - 1], list[n].id) ELSE f[n - 1]]
  BY <1>2, Zenon
<1> DEFINE f == Carrying(risks, list, ids)
<1>4. f = [n \in 0..Len(list) |->
      IF n = 0 THEN risks ELSE IF list[n].id \in ids THEN Carry(f[n - 1], list[n].id) ELSE f[n - 1]]
  BY <1>3, Zenon DEF Carrying
<1> HIDE DEF f
<1>5. f[0] = risks /\ \A k \in 1..Len(list) : f[k] = Owing(f[k - 1], list, ids, k)
  BY <1>4 DEF Owing
<1> QED
  BY <1>5 DEF f

-----------------------------------------------------------------------------
(* What is accepted of a batch.                                            *)

\* What an accepted candidate was found to be.
Fit(repo, c) ==
  /\ Safe(repo, c)
  /\ ~Misjudged(repo, c.body, Category[c.id])
  /\ Coherent(repo, c.body)

\* What is so far accepted: candidates that are eligible and fit, under names
\* that are not taken, each once.
AcceptedSo(so, context, candidates, eligible) ==
  /\ so = [context |-> so.context, accepted |-> so.accepted]
  /\ so.context = [context EXCEPT !.signatures = so.context.signatures, !.ids = so.context.ids]
  /\ IsSequence(so.accepted)
  /\ context.ids \subseteq so.context.ids
  /\ \A i \in 1..Len(so.accepted) :
       /\ so.accepted[i] \in eligible
       /\ Fit(context.repo, so.accepted[i])
       /\ so.accepted[i].id \in so.context.ids \ context.ids
       /\ \E k \in 1..Len(candidates) : so.accepted[i] = candidates[k]
  /\ \A i, j \in 1..Len(so.accepted) : so.accepted[i].id = so.accepted[j].id => i = j

IsContext(context) ==
  context = [repo |-> context.repo, stage |-> context.stage, risks |-> context.risks,
             failures |-> context.failures, held |-> context.held,
             signatures |-> context.signatures, ids |-> context.ids]

\* One more candidate keeps what is said of the accepted ones.
LEMMA WithNextAccepted ==
  ASSUME NEW context, IsContext(context), NEW candidates, NEW eligible, NEW so,
         AcceptedSo(so, context, candidates, eligible),
         NEW n \in 1..Len(candidates)
  PROVE  AcceptedSo(WithNext(so, candidates[n], eligible, Category), context, candidates, eligible)
<1> DEFINE c == candidates[n]
           new == WithNext(so, c, eligible, Category)
<1>1. CASE c \in eligible /\ Sound(so.context, c, Category[c.id])
  <2>1. new = [context |-> Taken(so.context, c), accepted |-> Append(so.accepted, c)]
    BY <1>1 DEF WithNext
  <2>2. new.context = Taken(so.context, c) /\ new.accepted = Append(so.accepted, c)
        /\ new = [context |-> new.context, accepted |-> new.accepted]
    BY <2>1
  <2>3. /\ so.context.repo = context.repo
        /\ Taken(so.context, c).ids = so.context.ids \cup {c.id}
        /\ Taken(so.context, c) = [context EXCEPT !.signatures = Taken(so.context, c).signatures,
                                                  !.ids = Taken(so.context, c).ids]
    BY DEF AcceptedSo, IsContext, Taken
  <2>4. Fit(context.repo, c) /\ c.id \notin so.context.ids
    BY <1>1, <2>3 DEF Sound, Fit, Worthwhile
  <2>5. /\ IsSequence(new.accepted) /\ Len(new.accepted) = Len(so.accepted) + 1
        /\ new.accepted[Len(so.accepted) + 1] = c
        /\ \A i \in 1..Len(so.accepted) : new.accepted[i] = so.accepted[i]
    BY <2>2, AppendIs DEF AcceptedSo
  <2>6. \A i \in 1..Len(new.accepted) : i = Len(so.accepted) + 1 \/ i \in 1..Len(so.accepted)
    BY <2>5 DEF AcceptedSo, IsSequence
  <2> HIDE DEF new
  <2>7. new.context.ids = so.context.ids \cup {c.id}
    BY <2>2, <2>3
  <2>8. \A i \in 1..Len(new.accepted) :
          /\ new.accepted[i] \in eligible
          /\ Fit(context.repo, new.accepted[i])
          /\ new.accepted[i].id \in new.context.ids \ context.ids
          /\ \E k \in 1..Len(candidates) : new.accepted[i] = candidates[k]
    BY <1>1, <2>4, <2>5, <2>6, <2>7 DEF AcceptedSo
  <2>9. \A i, j \in 1..Len(new.accepted) : new.accepted[i].id = new.accepted[j].id => i = j
    <3>1. \A i \in 1..Len(so.accepted) : new.accepted[i].id \in so.context.ids
      BY <2>5 DEF AcceptedSo
    <3>2. \A i, j \in 1..Len(so.accepted) :
            new.accepted[i].id = new.accepted[j].id => i = j
      BY <2>5 DEF AcceptedSo
    <3> QED
      BY <2>4, <2>5, <2>6, <3>1, <3>2
  <2>10. new.context = [context EXCEPT !.signatures = new.context.signatures,
                                       !.ids = new.context.ids]
    BY <2>2, <2>3
  <2>11. context.ids \subseteq new.context.ids
    BY <2>7 DEF AcceptedSo
  <2>12. AcceptedSo(new, context, candidates, eligible)
    BY <2>2, <2>5, <2>8, <2>9, <2>10, <2>11 DEF AcceptedSo
  <2> QED
    BY <2>12 DEF new
<1>2. CASE ~(c \in eligible /\ Sound(so.context, c, Category[c.id]))
  BY <1>2 DEF WithNext
<1> QED
  BY <1>1, <1>2 DEF new

\* What validate_plan accepts is fit, was proposed, is not taken already and is
\* not taken twice.
LEMMA AcceptedFit ==
  ASSUME NEW context, IsContext(context), NEW candidates, Len(candidates) \in Nat, NEW eligible
  PROVE  LET A == Accepted(context, candidates, eligible, Category)
         IN  /\ IsSequence(A)
             /\ \A i \in 1..Len(A) : /\ A[i] \in eligible /\ Fit(context.repo, A[i])
                                     /\ A[i].id \notin context.ids
                                     /\ \E k \in 1..Len(candidates) : A[i] = candidates[k]
             /\ \A i, j \in 1..Len(A) : A[i].id = A[j].id => i = j
<1> DEFINE f == Accepting(context, candidates, eligible, Category)
           Well(k) == AcceptedSo(f[k], context, candidates, eligible)
           T == {k \in Nat : k <= Len(candidates) => Well(k)}
<1>1. /\ f[0] = [context |-> context, accepted |-> <<>>]
      /\ \A k \in 1..Len(candidates) : f[k] = WithNext(f[k - 1], candidates[k], eligible, Category)
  BY AcceptingStep
<1> HIDE DEF f
<1>2. Well(0)
  <2>1. f[0].context = context /\ f[0].accepted = <<>>
    BY <1>1
  <2>2. context = [context EXCEPT !.signatures = context.signatures, !.ids = context.ids]
    BY DEF IsContext
  <2> QED
    BY <1>1, <2>1, <2>2, EmptySequence DEF AcceptedSo
<1>3. ASSUME NEW k \in Nat, k \in T PROVE k + 1 \in T
  <2>1. SUFFICES ASSUME k + 1 <= Len(candidates) PROVE Well(k + 1)
    OBVIOUS
  <2>2. Well(k) /\ k + 1 \in 1..Len(candidates) /\ (k + 1) - 1 = k
    BY <1>3, <2>1
  <2>3. f[k + 1] = WithNext(f[k], candidates[k + 1], eligible, Category)
    BY <1>1, <2>2
  <2> QED
    BY <2>2, <2>3, WithNextAccepted
<1>4. 0 \in T
  BY <1>2
<1> HIDE DEF T
<1>5. Len(candidates) \in T
  BY <1>3, <1>4, NaturalsByInduction
<1>6. Well(Len(candidates))
  BY <1>5 DEF T
<1> QED
  BY <1>6 DEF Accepted, AcceptedSo, f

-----------------------------------------------------------------------------
(* What a plan is.                                                         *)

\* A scenario of a plan.
IsScenario(s) ==
  /\ s = [id |-> s.id, held |-> s.held, retired |-> s.retired, by |-> s.by,
          attempts |-> s.attempts, replaces |-> s.replaces, body |-> s.body]
  /\ s.id \in Ids
  /\ s.held \in BOOLEAN
  /\ s.attempts \in 0..MaxAttempts

IsRisk(r) == r.severity \in 0..3

\* The risks name the category of a scenario as severely as it, or its very risk.
Stands(risks, id) ==
  \E r \in risks : /\ r.category = Category[id]
                   /\ r.severity <= Rank[id] \/ r.says = Describes[id]

\* What retired the i-th scenario: nothing, one listed after it that answers for
\* its category and its attempts, or a risk that stands for it.
Chained(S, risks, i) ==
  \/ S[i].retired = "no" /\ S[i].by = {}
  \/ /\ S[i].retired = "replaced"
     /\ \E j \in (i + 1)..Len(S) : /\ S[i].by = {S[j].id}
                                   /\ Category[S[j].id] = Category[S[i].id]
                                   /\ Rank[S[j].id] <= Rank[S[i].id]
                                   /\ S[i].attempts <= S[j].attempts
  \/ S[i].retired = "impossible" /\ S[i].by = {} /\ Stands(risks, S[i].id)

Distinct(S) == \A i, j \in 1..Len(S) : S[i].id = S[j].id => i = j

GoodList(S, risks) ==
  /\ IsSequence(S) /\ Distinct(S)
  /\ \A i \in 1..Len(S) : IsScenario(S[i]) /\ Chained(S, risks, i)

GoodPlan(p) ==
  /\ p = [scenarios |-> p.scenarios, risks |-> p.risks, waves |-> p.waves]
  /\ GoodList(p.scenarios, p.risks)
  /\ \A r \in p.risks : IsRisk(r)
  /\ IsSequence(p.waves)
  /\ \A i \in 1..Len(p.waves) : p.waves[i].wave \in Nat

\* A plan of nothing is well formed.
LEMMA EmptyGood == GoodPlan(Empty)
BY EmptySequence DEF GoodPlan, GoodList, Distinct, Empty

\* Scenarios are known by their names.
LEMMA ByIdIs ==
  ASSUME NEW p, GoodPlan(p), NEW i \in 1..Len(p.scenarios)
  PROVE  ById(p, p.scenarios[i].id) = p.scenarios[i] /\ p.scenarios[i].id \in Listed(p)
<1>1. DOMAIN p.scenarios = 1..Len(p.scenarios)
  BY SequenceIs DEF GoodPlan, GoodList
<1> DEFINE k == CHOOSE j \in DOMAIN p.scenarios : p.scenarios[j].id = p.scenarios[i].id
<1>2. k \in 1..Len(p.scenarios) /\ p.scenarios[k].id = p.scenarios[i].id
  BY <1>1
<1>3. k = i
  BY <1>2 DEF GoodPlan, GoodList, Distinct
<1> QED
  BY <1>1, <1>3 DEF ById, Listed

\* The ids of a plan in terms of its positions.
LEMMA ListedIs ==
  ASSUME NEW p, GoodPlan(p)
  PROVE  /\ DOMAIN p.scenarios = 1..Len(p.scenarios)
         /\ \A id : id \in Listed(p) <=> \E i \in 1..Len(p.scenarios) : p.scenarios[i].id = id
         /\ \A id : id \in ActiveIds(p) <=>
              \E i \in 1..Len(p.scenarios) : p.scenarios[i].id = id /\ IsActive(p.scenarios[i])
         /\ \A id : id \in HeldIds(p) <=>
              \E i \in 1..Len(p.scenarios) : p.scenarios[i].id = id /\ IsHeld(p.scenarios[i])
         /\ Listed(p) \subseteq Ids
<1>1. DOMAIN p.scenarios = 1..Len(p.scenarios)
  BY SequenceIs DEF GoodPlan, GoodList
<1>2. Listed(p) \subseteq Ids
  BY <1>1 DEF GoodPlan, GoodList, IsScenario, Listed
<1> QED
  BY <1>1, <1>2 DEF Listed, ActiveIds, HeldIds

-----------------------------------------------------------------------------
(* Numbers.                                                                *)

\* Naturals below a bound have a greatest.
LEMMA HasGreatest ==
  ASSUME NEW m \in Nat, NEW D, D \subseteq 0..m, D # {}
  PROVE  \E n \in D : \A x \in D : x <= n
<1> DEFINE E == {m - n : n \in D}
<1>1. E \subseteq Nat /\ E # {}
  <2>1. \A n \in D : n \in 0..m /\ m - n \in Nat
    OBVIOUS
  <2> QED
    BY <2>1
<1>2. PICK e \in E : \A x \in E : e <= x
  BY <1>1, HasLeast
<1>3. m - e \in D /\ \A x \in D : e <= m - x
  BY <1>2
<1>4. \A x \in D : x <= m - e
  BY <1>1, <1>3
<1> QED
  BY <1>3, <1>4

\* A function on 1..n is a sequence.
LEMMA FunctionSequence ==
  ASSUME NEW n \in Nat, NEW f, f = [i \in 1..n |-> f[i]]
  PROVE  IsSequence(f) /\ Len(f) = n
<1>1. f \in [1..n -> {f[i] : i \in 1..n}]
  OBVIOUS
<1>2. Len(f) = n
  BY <1>1
<1> QED
  BY <1>2 DEF IsSequence

-----------------------------------------------------------------------------
(* Admission.                                                              *)

\* The count a replacement inherits is within the bound and no less than any it
\* replaces.
LEMMA MostAttemptsIs ==
  ASSUME NEW p, IsSequence(p.scenarios), \A i \in 1..Len(p.scenarios) : IsScenario(p.scenarios[i]),
         MaxAttempts \in Nat, NEW s, s.attempts \in 0..MaxAttempts
  PROVE  /\ MostAttempts(p, s) \in 0..MaxAttempts
         /\ \A i \in Replaced(p, s) : p.scenarios[i].attempts <= MostAttempts(p, s)
<1> DEFINE attempts == {p.scenarios[i].attempts : i \in Replaced(p, s)} \cup {s.attempts}
<1>1. DOMAIN p.scenarios = 1..Len(p.scenarios)
  BY SequenceIs
<1>2. attempts \subseteq 0..MaxAttempts /\ attempts # {}
  BY <1>1 DEF Replaced, IsScenario
<1>3. \A i \in Replaced(p, s) : p.scenarios[i].attempts \in attempts
  OBVIOUS
<1>4. MostAttempts(p, s) = CHOOSE n \in attempts : \A x \in attempts : x <= n
  BY DEF MostAttempts
<1> HIDE DEF attempts
<1>5. \E n \in attempts : \A x \in attempts : x <= n
  BY <1>2, HasGreatest
<1>6. MostAttempts(p, s) \in attempts /\ \A x \in attempts : x <= MostAttempts(p, s)
  BY <1>4, <1>5
<1> QED
  BY <1>2, <1>3, <1>6

\* What is listed after one admission: what was, a replaced hold retired in
\* favour of the new one, and the new one.
Onward(p, q, c, repo) ==
  /\ q = [scenarios |-> q.scenarios, risks |-> p.risks, waves |-> p.waves]
  /\ IsSequence(q.scenarios) /\ Len(q.scenarios) = Len(p.scenarios) + 1
  /\ LET n == Len(p.scenarios) + 1 IN
     /\ IsScenario(q.scenarios[n]) /\ IsActive(q.scenarios[n])
     /\ q.scenarios[n].id = c.id /\ q.scenarios[n].by = {}
     /\ q.scenarios[n].body = Bind(repo, c.body)
     /\ \A i \in 1..Len(p.scenarios) :
          \/ q.scenarios[i] = p.scenarios[i]
          \/ /\ IsHeld(p.scenarios[i]) /\ p.scenarios[i].id \in c.replaces
             /\ q.scenarios[i] = [p.scenarios[i] EXCEPT !.retired = "replaced", !.by = {c.id}]
             /\ p.scenarios[i].attempts <= q.scenarios[n].attempts

\* _admit either leaves the plan alone or goes on to one with the candidate at
\* its end.
LEMMA AdmittedIs ==
  ASSUME NEW p, GoodPlan(p), NEW c, c.id \in Ids, c.id \notin Listed(p)
  PROVE  Admitted(p, c) = p \/ Onward(p, Admitted(p, c), c, repository)
<1> DEFINE s == Scenario(c.id, c.replaces, Bind(repository, c.body))
           r == [p EXCEPT !.scenarios = Append(p.scenarios, s)]
           n == Len(p.scenarios) + 1
           q == Release(r, s)
           S == r.scenarios
<1>1. SUFFICES ASSUME Admits(p, c), Admitted(p, c) = q
               PROVE  Onward(p, q, c, repository)
  BY DEF Admitted
<1>2. /\ s = [id |-> c.id, held |-> FALSE, retired |-> "no", by |-> {}, attempts |-> 0,
              replaces |-> c.replaces, body |-> Bind(repository, c.body)]
  BY DEF Scenario
<1>3. /\ s.id = c.id /\ s.held = FALSE /\ s.retired = "no" /\ s.by = {} /\ s.attempts = 0
      /\ s.replaces = c.replaces /\ s.body = Bind(repository, c.body)
      /\ IsScenario(s)
  BY <1>2, PlannerAssumption DEF IsScenario
<1> HIDE DEF s
<1>4. IsSequence(p.scenarios) /\ Len(p.scenarios) \in Nat
  BY DEF GoodPlan, GoodList, IsSequence
<1>5. r.scenarios = Append(p.scenarios, s) /\ r.risks = p.risks /\ r.waves = p.waves
      /\ r = [scenarios |-> r.scenarios, risks |-> p.risks, waves |-> p.waves]
  BY DEF GoodPlan
<1> HIDE DEF r
<1>6. /\ IsSequence(S) /\ Len(S) = n /\ S[n] = s
      /\ \A i \in 1..Len(p.scenarios) : S[i] = p.scenarios[i]
  BY <1>4, <1>5, AppendIs
<1>7. DOMAIN S = 1..n
  BY <1>6, SequenceIs
<1>8. \A i \in 1..n : i = n \/ i \in 1..Len(p.scenarios)
  BY <1>4
<1>9. n \in 1..n
  BY <1>4
<1>10. \A i \in 1..n : IsScenario(S[i]) /\ (i # n => S[i].id # c.id)
  BY <1>3, <1>6, <1>8, ListedIs DEF GoodPlan, GoodList
<1>11. n \notin Replaced(r, s) /\ \A i \in Replaced(r, s) : i \in 1..Len(p.scenarios)
       /\ IsHeld(p.scenarios[i]) /\ p.scenarios[i].id \in c.replaces
  BY <1>3, <1>6, <1>7, <1>8 DEF Replaced, IsHeld
<1>12. /\ MostAttempts(r, s) \in 0..MaxAttempts
       /\ \A i \in Replaced(r, s) : S[i].attempts <= MostAttempts(r, s)
  <2>1. MaxAttempts \in Nat
    BY PlannerAssumption
  <2>2. s.attempts \in 0..MaxAttempts
    BY <1>3, <2>1
  <2>3. IsSequence(r.scenarios)
        /\ \A i \in 1..Len(r.scenarios) : IsScenario(r.scenarios[i])
    BY <1>6, <1>10
  <2> HIDE DEF S
  <2>4. /\ MostAttempts(r, s) \in 0..MaxAttempts
        /\ \A i \in Replaced(r, s) : r.scenarios[i].attempts <= MostAttempts(r, s)
    BY <2>1, <2>2, <2>3, MostAttemptsIs, Zenon
  <2> USE DEF S
  <2> QED
    BY <2>4
<1> DEFINE M(i) == IF i \in Replaced(r, s)
                   THEN [S[i] EXCEPT !.retired = "replaced", !.by = {c.id}]
                   ELSE IF S[i].id = c.id
                   THEN [S[i] EXCEPT !.attempts = MostAttempts(r, s)]
                   ELSE S[i]
           L == [i \in 1..n |-> M(i)]
<1>13. q.scenarios = L /\ q = [scenarios |-> q.scenarios, risks |-> p.risks, waves |-> p.waves]
  <2>1. q = [r EXCEPT !.scenarios = L]
    BY <1>3, <1>7 DEF Release
  <2> HIDE DEF L, q
  <2> QED
    BY <1>5, <2>1
<1> HIDE DEF q, S
<1> DEFINE Q == q.scenarios
<1>14. IsSequence(Q) /\ Len(Q) = n
  <2>1. L = [i \in 1..n |-> L[i]] /\ n \in Nat
    <3> HIDE DEF M
    <3> QED
      BY <1>4
  <2> HIDE DEF L
  <2> QED
    BY <1>13, <2>1, FunctionSequence
<1>15. Q[n] = [s EXCEPT !.attempts = MostAttempts(r, s)]
  <2>1. Q[n] = L[n] /\ S[n] = s /\ n \in 1..n /\ n \notin Replaced(r, s) /\ s.id = c.id
    BY <1>3, <1>6, <1>9, <1>11, <1>13
  <2> HIDE DEF Q
  <2> QED
    BY <2>1
<1>16. /\ IsScenario(Q[n]) /\ IsActive(Q[n]) /\ Q[n].id = c.id /\ Q[n].by = {}
       /\ Q[n].body = Bind(repository, c.body) /\ Q[n].attempts = MostAttempts(r, s)
  BY <1>3, <1>12, <1>15 DEF IsScenario, IsActive
<1>17. ASSUME NEW i \in 1..Len(p.scenarios)
       PROVE  \/ Q[i] = p.scenarios[i]
              \/ /\ IsHeld(p.scenarios[i]) /\ p.scenarios[i].id \in c.replaces
                 /\ Q[i] = [p.scenarios[i] EXCEPT !.retired = "replaced", !.by = {c.id}]
                 /\ p.scenarios[i].attempts <= Q[n].attempts
  <2>1. i \in 1..n /\ i # n
    BY <1>4
  <2>2. S[i] = p.scenarios[i]
    BY <1>6
  <2>3. CASE i \in Replaced(r, s)
    BY <1>11, <1>12, <1>13, <1>16, <2>1, <2>2, <2>3
  <2>4. CASE i \notin Replaced(r, s)
    BY <1>10, <1>13, <2>1, <2>2, <2>4
  <2> QED
    BY <2>3, <2>4
<1> HIDE DEF Q
<1> QED
  BY <1>13, <1>14, <1>16, <1>17 DEF Onward, Q

-----------------------------------------------------------------------------
\* What a candidate may replace.
Heir(c) ==
  \A h \in c.replaces : h \in Ids => Category[h] = Category[c.id] /\ Rank[c.id] <= Rank[h]

\* Admitting keeps a plan well formed: what is replaced points forward.
LEMMA OnwardGood ==
  ASSUME NEW p, GoodPlan(p), NEW q, NEW c, NEW repo, c.id \in Ids, c.id \notin Listed(p), Heir(c),
         Onward(p, q, c, repo)
  PROVE  GoodPlan(q)
<1> DEFINE S == p.scenarios
           Q == q.scenarios
           n == Len(S) + 1
<1>1. /\ IsSequence(S) /\ Distinct(S) /\ Len(S) \in Nat
      /\ \A i \in 1..Len(S) : IsScenario(S[i]) /\ Chained(S, p.risks, i)
      /\ \A i \in 1..Len(S) : S[i].id \in Ids /\ S[i].id # c.id
  BY ListedIs DEF GoodPlan, GoodList, IsSequence, IsScenario
<1>2. /\ IsSequence(Q) /\ Len(Q) = n /\ n \in Nat
      /\ IsScenario(Q[n]) /\ IsActive(Q[n]) /\ Q[n].id = c.id /\ Q[n].by = {}
  <2>1. n \in Nat
    BY <1>1
  <2> QED
    BY <2>1, Zenon DEF Onward
<1>3. \A i \in 1..n : i = n \/ i \in 1..Len(S)
  BY <1>1
<1>4. ASSUME NEW i \in 1..Len(S)
      PROVE  /\ Q[i].id = S[i].id /\ IsScenario(Q[i]) /\ Q[i].attempts = S[i].attempts
             /\ \/ Q[i].retired = S[i].retired /\ Q[i].by = S[i].by
                \/ /\ Q[i].retired = "replaced" /\ Q[i].by = {c.id} /\ S[i].id \in c.replaces
                   /\ Q[i].attempts <= Q[n].attempts
  <2>1. CASE Q[i] = S[i]
    BY <1>1, <2>1
  <2>2. CASE /\ S[i].id \in c.replaces /\ S[i].attempts <= Q[n].attempts
             /\ Q[i] = [S[i] EXCEPT !.retired = "replaced", !.by = {c.id}]
    BY <1>1, <2>2 DEF IsScenario
  <2> QED
    BY <2>1, <2>2 DEF Onward
<1>5. Distinct(Q)
  <2>1. ASSUME NEW i \in 1..n, NEW j \in 1..n, Q[i].id = Q[j].id PROVE i = j
    BY <1>1, <1>2, <1>3, <1>4, <2>1 DEF Distinct
  <2> QED
    BY <1>2, <2>1 DEF Distinct
<1>6. \A i \in 1..n : IsScenario(Q[i])
  BY <1>2, <1>3, <1>4
<1>7. ASSUME NEW i \in 1..n PROVE Chained(Q, p.risks, i)
  <2>1. CASE i = n
    BY <1>2, <2>1 DEF Chained, IsActive
  <2>2. CASE i \in 1..Len(S) /\ Q[i].retired = S[i].retired /\ Q[i].by = S[i].by
    <3>1. Chained(S, p.risks, i) /\ Q[i].id = S[i].id
      BY <1>1, <1>4, <2>2
    <3>2. CASE S[i].retired = "replaced"
      <4>1. PICK j \in (i + 1)..Len(S) : /\ S[i].by = {S[j].id}
                                         /\ Category[S[j].id] = Category[S[i].id]
                                         /\ Rank[S[j].id] <= Rank[S[i].id]
                                         /\ S[i].attempts <= S[j].attempts
        BY <3>1, <3>2 DEF Chained
      <4>2. j \in 1..Len(S) /\ j \in (i + 1)..n
        BY <1>1
      <4>3. Q[j].id = S[j].id /\ Q[j].attempts = S[j].attempts /\ Q[i].attempts = S[i].attempts
        BY <1>4, <2>2, <4>2
      <4> QED
        BY <1>2, <2>2, <3>1, <3>2, <4>1, <4>2, <4>3 DEF Chained
    <3>3. CASE S[i].retired # "replaced"
      BY <2>2, <3>1, <3>3 DEF Chained
    <3> QED
      BY <3>2, <3>3
  <2>3. CASE /\ i \in 1..Len(S) /\ Q[i].retired = "replaced" /\ Q[i].by = {c.id}
             /\ S[i].id \in c.replaces /\ Q[i].attempts <= Q[n].attempts
    <3>1. Q[i].id = S[i].id /\ n \in (i + 1)..n /\ S[i].id \in Ids
      BY <1>1, <1>4, <2>3
    <3>2. Category[S[i].id] = Category[c.id] /\ Rank[c.id] <= Rank[S[i].id]
      BY <2>3, <3>1 DEF Heir
    <3> QED
      BY <1>2, <2>3, <3>1, <3>2 DEF Chained
  <2> QED
    BY <1>3, <1>4, <2>1, <2>2, <2>3
<1>8. GoodList(Q, p.risks)
  BY <1>2, <1>5, <1>6, <1>7 DEF GoodList
<1>9. q = [scenarios |-> q.scenarios, risks |-> p.risks, waves |-> p.waves]
  BY DEF Onward
<1> HIDE DEF Q
<1>10. q.risks = p.risks /\ q.waves = p.waves
  BY <1>9
<1> QED
  BY <1>8, <1>9, <1>10 DEF GoodPlan, Q

-----------------------------------------------------------------------------
\* What a wave admitted is a fit proposal as it is written down.
Proposed(s, repo) ==
  \E c : /\ Fit(repo, c) /\ IsProposal(c.body) /\ c.id = s.id
         /\ s.body = Bind(repo, c.body)

\* What was listed is listed as it was, or retired where it was held; what is
\* new is active, and is a fit proposal.
Lists(p, q, repo) ==
  /\ Len(p.scenarios) <= Len(q.scenarios)
  /\ \A i \in 1..Len(p.scenarios) :
       /\ q.scenarios[i].id = p.scenarios[i].id
       /\ q.scenarios[i].body = p.scenarios[i].body
       /\ q.scenarios[i].attempts = p.scenarios[i].attempts
       /\ IsActive(q.scenarios[i]) <=> IsActive(p.scenarios[i])
  /\ \A i \in (Len(p.scenarios) + 1)..Len(q.scenarios) :
       IsActive(q.scenarios[i]) /\ Proposed(q.scenarios[i], repo)

Grown(p, q, repo) == q.risks = p.risks /\ q.waves = p.waves /\ Lists(p, q, repo)

\* Several admissions grow a plan like one.
LEMMA OnwardGrown ==
  ASSUME NEW p, GoodPlan(p), NEW q, GoodPlan(q), NEW r, NEW c, NEW repo,
         Grown(p, q, repo), Onward(q, r, c, repo), Fit(repo, c), IsProposal(c.body)
  PROVE  Grown(p, r, repo)
<1> DEFINE P == p.scenarios
           Q == q.scenarios
           R == r.scenarios
           n == Len(Q) + 1
<1>1. Len(P) \in Nat /\ Len(Q) \in Nat /\ Len(P) <= Len(Q)
      /\ \A i \in 1..Len(Q) : IsScenario(Q[i])
  BY DEF GoodPlan, GoodList, IsSequence, Grown, Lists
<1>2. Len(R) = n /\ IsActive(R[n]) /\ R[n].id = c.id /\ R[n].body = Bind(repo, c.body)
      /\ r = [scenarios |-> R, risks |-> q.risks, waves |-> q.waves]
  BY DEF Onward
<1>3. r.risks = p.risks /\ r.waves = p.waves
  BY <1>2 DEF Grown, Lists
<1>4. ASSUME NEW i \in 1..Len(Q)
      PROVE  /\ R[i].id = Q[i].id /\ R[i].body = Q[i].body /\ R[i].attempts = Q[i].attempts
             /\ IsActive(R[i]) <=> IsActive(Q[i])
             /\ IsActive(Q[i]) => R[i] = Q[i]
  <2>1. CASE R[i] = Q[i]
    BY <2>1
  <2>2. CASE IsHeld(Q[i]) /\ R[i] = [Q[i] EXCEPT !.retired = "replaced", !.by = {c.id}]
    <3>1. IsScenario(Q[i])
      BY <1>1
    <3>2. /\ R[i].id = Q[i].id /\ R[i].body = Q[i].body /\ R[i].attempts = Q[i].attempts
          /\ R[i].retired = "replaced"
      BY <2>2, <3>1 DEF IsScenario
    <3> QED
      BY <2>2, <3>2 DEF IsHeld, IsActive
  <2> QED
    BY <2>1, <2>2 DEF Onward
<1>5. Proposed(R[n], repo)
  BY <1>2 DEF Proposed
<1>6. \A i \in 1..Len(P) : i \in 1..Len(Q)
  BY <1>1
<1>7. \A i \in (Len(P) + 1)..Len(R) : i = n \/ (i \in 1..Len(Q) /\ i \in (Len(P) + 1)..Len(Q))
  BY <1>1, <1>2
<1>8. \A i \in 1..Len(P) :
       /\ R[i].id = P[i].id /\ R[i].body = P[i].body /\ R[i].attempts = P[i].attempts
       /\ IsActive(R[i]) <=> IsActive(P[i])
  BY <1>4, <1>6 DEF Grown, Lists
<1>9. \A i \in (Len(P) + 1)..Len(R) : IsActive(R[i]) /\ Proposed(R[i], repo)
  BY <1>2, <1>4, <1>5, <1>7 DEF Grown, Lists
<1> QED
  BY <1>1, <1>2, <1>3, <1>8, <1>9 DEF Grown, Lists

-----------------------------------------------------------------------------
\* A batch fit to be admitted.
FitBatch(valid, p, repo) ==
  /\ IsSequence(valid)
  /\ \A i \in 1..Len(valid) : /\ valid[i].id \in Ids \ Listed(p) /\ Heir(valid[i])
                              /\ Fit(repo, valid[i]) /\ IsProposal(valid[i].body)
  /\ \A i, j \in 1..Len(valid) : valid[i].id = valid[j].id => i = j

\* A batch that is fit grows the plan, whatever its length.
LEMMA AfterCandidatesGood ==
  ASSUME NEW p, GoodPlan(p), NEW valid, FitBatch(valid, p, repository), NEW allowed
  PROVE  LET q == AfterCandidates(p, valid, allowed)
         IN  GoodPlan(q) /\ Grown(p, q, repository)
<1> DEFINE f == Admitting(p, valid, allowed)
           Well(k) ==
             /\ GoodPlan(f[k]) /\ Grown(p, f[k], repository)
             /\ \A id \in Listed(f[k]) : id \in Listed(p) \/ \E j \in 1..k : id = valid[j].id
           T == {k \in Nat : k <= Len(valid) => Well(k)}
<1>1. f[0] = p /\ \A k \in 1..Len(valid) : f[k] = Admission(f[k - 1], valid, allowed, k)
  BY AdmittingStep DEF FitBatch, IsSequence
<1> HIDE DEF f
<1>2. Len(valid) \in Nat
  BY DEF FitBatch, IsSequence
<1>3. Well(0)
  <2>1. Grown(p, p, repository)
    BY DEF Grown, Lists, GoodPlan, GoodList, IsSequence
  <2> QED
    BY <1>1, <2>1
<1>4. ASSUME NEW k \in Nat, k \in T PROVE k + 1 \in T
  <2>1. SUFFICES ASSUME k + 1 <= Len(valid) PROVE Well(k + 1)
    OBVIOUS
  <2> DEFINE c == valid[k + 1]
  <2>2. Well(k) /\ k + 1 \in 1..Len(valid) /\ (k + 1) - 1 = k
        /\ \A j \in 1..k : j \in 1..Len(valid) /\ j # k + 1 /\ j \in 1..(k + 1)
    BY <1>2, <1>4, <2>1
  <2>3. f[k + 1] = Admission(f[k], valid, allowed, k + 1)
    BY <1>1, <2>2
  <2>4. f[k + 1] = f[k] \/ f[k + 1] = Admitted(f[k], c)
    BY <2>3 DEF Admission
  <2>5. c.id \in Ids /\ c.id \notin Listed(f[k]) /\ Heir(c) /\ Fit(repository, c)
        /\ IsProposal(c.body)
    BY <2>2 DEF FitBatch
  <2>6. f[k + 1] = f[k] \/ Onward(f[k], f[k + 1], c, repository)
    BY <2>2, <2>4, <2>5, AdmittedIs
  <2>7. CASE f[k + 1] = f[k]
    BY <2>2, <2>7
  <2>8. CASE Onward(f[k], f[k + 1], c, repository)
    <3> HIDE DEF c
    <3>1. GoodPlan(f[k + 1]) /\ Grown(p, f[k + 1], repository)
      BY <2>2, <2>5, <2>8, OnwardGood, OnwardGrown
    <3>2. \A id \in Listed(f[k + 1]) : id \in Listed(f[k]) \/ id = c.id
      <4>1. ASSUME NEW i \in 1..Len(f[k + 1].scenarios)
            PROVE  f[k + 1].scenarios[i].id \in Listed(f[k]) \cup {c.id}
        <5>1. i = Len(f[k].scenarios) + 1 \/ i \in 1..Len(f[k].scenarios)
          <6>1. Len(f[k].scenarios) \in Nat
            BY <2>2 DEF GoodPlan, GoodList, IsSequence
          <6>2. Len(f[k + 1].scenarios) = Len(f[k].scenarios) + 1
            BY <2>8 DEF Onward
          <6> QED
            BY <6>1, <6>2
        <5>2. CASE i = Len(f[k].scenarios) + 1
          BY <2>8, <5>2 DEF Onward
        <5>3. CASE i \in 1..Len(f[k].scenarios)
          <6>1. IsScenario(f[k].scenarios[i]) /\ f[k].scenarios[i].id \in Listed(f[k])
            BY <2>2, <5>3, ByIdIs DEF GoodPlan, GoodList
          <6>2. f[k + 1].scenarios[i].id = f[k].scenarios[i].id
            BY <2>8, <5>3, <6>1 DEF Onward, IsScenario
          <6> QED
            BY <6>1, <6>2
        <5> QED
          BY <5>1, <5>2, <5>3
      <4> QED
        BY <3>1, <4>1, ListedIs
    <3>3. \A id \in Listed(f[k + 1]) : id \in Listed(p) \/ \E j \in 1..(k + 1) : id = valid[j].id
      BY <2>2, <3>2 DEF c
    <3> QED
      BY <3>1, <3>3
  <2> QED
    BY <2>6, <2>7, <2>8
<1>5. 0 \in T
  BY <1>3
<1> HIDE DEF T
<1>6. Len(valid) \in T
  BY <1>2, <1>4, <1>5, NaturalsByInduction
<1>7. Well(Len(valid))
  BY <1>2, <1>6 DEF T
<1> QED
  BY <1>7 DEF AfterCandidates, f

-----------------------------------------------------------------------------
(* The risks.                                                              *)

\* After _carry_obligation the register stands for the scenario.
LEMMA CarryIs ==
  ASSUME NEW risks, \A r \in risks : IsRisk(r), NEW id \in Ids
  PROVE  /\ risks \subseteq Carry(risks, id) /\ Stands(Carry(risks, id), id)
         /\ \A r \in Carry(risks, id) : IsRisk(r)
<1> DEFINE new == Risk(Category[id], Describes[id], Rank[id])
<1>1. /\ new.category = Category[id] /\ new.says = Describes[id] /\ new.severity = Rank[id]
      /\ Rank[id] \in 0..3
  BY PlannerAssumption DEF Risk
<1>2. CASE Stands(risks, id)
  BY <1>2 DEF Carry, Stands
<1>3. CASE ~Stands(risks, id)
  <2>1. Carry(risks, id) = risks \cup {new}
    BY <1>3 DEF Carry, Stands
  <2> HIDE DEF new
  <2> QED
    BY <1>1, <2>1 DEF Stands, IsRisk
<1> QED
  BY <1>2, <1>3

\* So it does after all of them.
LEMMA CarryAllIs ==
  ASSUME NEW risks, \A r \in risks : IsRisk(r), NEW list, Len(list) \in Nat, NEW ids,
         \A k \in 1..Len(list) : list[k].id \in Ids
  PROVE  LET R == CarryAll(risks, list, ids)
         IN  /\ risks \subseteq R
             /\ \A r \in R : IsRisk(r)
             /\ \A k \in 1..Len(list) : list[k].id \in ids => Stands(R, list[k].id)
<1> DEFINE f == Carrying(risks, list, ids)
           Well(k) == /\ risks \subseteq f[k] /\ \A r \in f[k] : IsRisk(r)
                      /\ \A j \in 1..k : list[j].id \in ids => Stands(f[k], list[j].id)
           T == {k \in Nat : k <= Len(list) => Well(k)}
<1>1. f[0] = risks /\ \A k \in 1..Len(list) : f[k] = Owing(f[k - 1], list, ids, k)
  BY CarryingStep
<1> HIDE DEF f
<1>2. 0 \in T
  BY <1>1
<1>3. ASSUME NEW k \in Nat, k \in T PROVE k + 1 \in T
  <2>1. SUFFICES ASSUME k + 1 <= Len(list) PROVE Well(k + 1)
    OBVIOUS
  <2>2. Well(k) /\ k + 1 \in 1..Len(list) /\ (k + 1) - 1 = k
        /\ \A j \in 1..(k + 1) : j = k + 1 \/ j \in 1..k
    BY <1>3, <2>1
  <2>3. f[k + 1] = Owing(f[k], list, ids, k + 1)
    BY <1>1, <2>2
  <2>4. /\ f[k] \subseteq f[k + 1] /\ \A r \in f[k + 1] : IsRisk(r)
        /\ list[k + 1].id \in ids => Stands(f[k + 1], list[k + 1].id)
    <3>1. list[k + 1].id \in Ids
      BY <2>2
    <3>2. CASE list[k + 1].id \in ids
      <4>1. f[k + 1] = Carry(f[k], list[k + 1].id)
        BY <2>3, <3>2 DEF Owing
      <4>2. \A r \in f[k] : IsRisk(r)
        BY <2>2
      <4>3. PICK before : before = f[k]
        OBVIOUS
      <4>4. PICK id \in Ids : id = list[k + 1].id
        BY <3>1
      <4>5. /\ before \subseteq Carry(before, id) /\ Stands(Carry(before, id), id)
            /\ \A r \in Carry(before, id) : IsRisk(r)
        BY <4>2, <4>3, CarryIs
      <4> QED
        BY <4>1, <4>3, <4>4, <4>5
    <3>3. CASE list[k + 1].id \notin ids
      BY <2>2, <2>3, <3>3 DEF Owing
    <3> QED
      BY <3>2, <3>3
  <2>5. \A id : Stands(f[k], id) => Stands(f[k + 1], id)
    BY <2>4 DEF Stands
  <2> QED
    BY <2>2, <2>4, <2>5
<1> HIDE DEF T
<1>4. Len(list) \in T
  BY <1>2, <1>3, NaturalsByInduction
<1>5. Well(Len(list))
  BY <1>4 DEF T
<1> QED
  BY <1>5 DEF CarryAll, f

-----------------------------------------------------------------------------
(* A plan whose scenarios are attempted, held, rebuilt or retired as       *)
(* impossible.                                                             *)

\* The scenario as it may have become: attempts are only added to one that is
\* not retired.
Became(s, t, risks) ==
  /\ IsScenario(t) /\ t.id = s.id
  /\ s.attempts <= t.attempts /\ (s.retired # "no" => t.attempts = s.attempts)
  /\ \/ t.retired = s.retired /\ t.by = s.by
     \/ s.retired = "no" /\ t.retired = "impossible" /\ t.by = s.by /\ Stands(risks, t.id)

\* Changing scenarios one by one keeps a list well formed.
LEMMA BecameGood ==
  ASSUME NEW S, NEW risks, GoodList(S, risks), NEW more, risks \subseteq more,
         NEW Q, Q = [i \in 1..Len(S) |-> Q[i]],
         \A i \in 1..Len(S) : Became(S[i], Q[i], more)
  PROVE  GoodList(Q, more) /\ Len(Q) = Len(S)
<1>1. IsSequence(S) /\ Distinct(S) /\ Len(S) \in Nat
      /\ \A i \in 1..Len(S) : IsScenario(S[i]) /\ Chained(S, risks, i)
  BY DEF GoodList, IsSequence
<1>2. IsSequence(Q) /\ Len(Q) = Len(S)
  BY <1>1, FunctionSequence
<1>3. Distinct(Q)
  BY <1>1, <1>2 DEF Distinct, Became
<1>4. ASSUME NEW i \in 1..Len(S) PROVE Chained(Q, more, i)
  <2>1. Chained(S, risks, i) /\ Became(S[i], Q[i], more)
    BY <1>1
  <2>2. CASE S[i].retired = "no" /\ S[i].by = {}
    BY <2>1, <2>2 DEF Became, Chained
  <2>3. CASE S[i].retired = "replaced"
    <3>1. Q[i].retired = "replaced" /\ Q[i].by = S[i].by /\ Q[i].id = S[i].id
          /\ Q[i].attempts = S[i].attempts
      BY <2>1, <2>3 DEF Became
    <3>2. PICK j \in (i + 1)..Len(S) : /\ S[i].by = {S[j].id}
                                       /\ Category[S[j].id] = Category[S[i].id]
                                       /\ Rank[S[j].id] <= Rank[S[i].id]
                                       /\ S[i].attempts <= S[j].attempts
      BY <2>1, <2>3 DEF Chained
    <3>3. j \in 1..Len(S) /\ i \in 1..Len(S)
      BY <1>1
    <3>4. Q[j].id = S[j].id /\ S[j].attempts <= Q[j].attempts
          /\ S[i].attempts \in Nat /\ S[j].attempts \in Nat /\ Q[j].attempts \in Nat
      <4>1. Became(S[j], Q[j], more) /\ IsScenario(S[i]) /\ IsScenario(S[j])
        BY <1>1, <3>3
      <4>2. MaxAttempts \in Nat
        BY PlannerAssumption
      <4> QED
        BY <4>1, <4>2 DEF Became, IsScenario
    <3>5. Q[i].attempts <= Q[j].attempts
      BY <3>1, <3>2, <3>4
    <3> QED
      BY <1>2, <3>1, <3>2, <3>4, <3>5 DEF Chained
  <2>4. CASE S[i].retired = "impossible" /\ S[i].by = {} /\ Stands(risks, S[i].id)
    <3>1. Q[i].retired = "impossible" /\ Q[i].by = {} /\ Q[i].id = S[i].id
      BY <2>1, <2>4 DEF Became
    <3>2. Stands(more, S[i].id)
      BY <2>4 DEF Stands
    <3> QED
      BY <3>1, <3>2 DEF Chained
  <2> QED
    BY <2>1, <2>2, <2>3, <2>4 DEF Chained
<1> QED
  BY <1>2, <1>3, <1>4 DEF GoodList, Became

\* Nothing changed is one way of changing.
LEMMA ItselfBecame ==
  ASSUME NEW s, IsScenario(s), NEW risks PROVE Became(s, s, risks)
BY DEF Became, IsScenario

\* A plan whose list is good, with or without one more wave on record.
LEMMA PlanGood ==
  ASSUME NEW p, GoodPlan(p), NEW q,
         q = [scenarios |-> q.scenarios, risks |-> q.risks, waves |-> q.waves],
         GoodList(q.scenarios, q.risks), \A r \in q.risks : IsRisk(r),
         \/ q.waves = p.waves
         \/ \E rec : rec.wave \in Nat /\ q.waves = Append(p.waves, rec)
  PROVE  GoodPlan(q)
<1>1. CASE q.waves = p.waves
  BY <1>1 DEF GoodPlan
<1>2. CASE \E rec : rec.wave \in Nat /\ q.waves = Append(p.waves, rec)
  <2>1. PICK rec : rec.wave \in Nat /\ q.waves = Append(p.waves, rec)
    BY <1>2
  <2>3. IsSequence(p.waves) /\ Len(p.waves) \in Nat
        /\ \A i \in 1..Len(p.waves) : p.waves[i].wave \in Nat
    BY DEF GoodPlan, IsSequence
  <2>4. /\ IsSequence(q.waves) /\ Len(q.waves) = Len(p.waves) + 1
        /\ q.waves[Len(p.waves) + 1] = rec
        /\ \A i \in 1..Len(p.waves) : q.waves[i] = p.waves[i]
    BY <2>1, <2>3, AppendIs
  <2>5. \A i \in 1..Len(q.waves) : i = Len(p.waves) + 1 \/ i \in 1..Len(p.waves)
    BY <2>3, <2>4
  <2>6. \A i \in 1..Len(q.waves) : q.waves[i].wave \in Nat
    BY <2>1, <2>3, <2>4, <2>5
  <2> QED
    BY <2>4, <2>6 DEF GoodPlan
<1> QED
  BY <1>1, <1>2

-----------------------------------------------------------------------------
(* A wave.                                                                 *)

\* What _generate admits of an answer is fit for the plan.
LEMMA BatchFit ==
  ASSUME NEW p, GoodPlan(p), NEW answer \in Answers, NEW stage
  PROVE  FitBatch(Admissible(p, answer, stage), p, repository)
<1> DEFINE list == answer.candidates
           eligible == {c \in {list[i] : i \in DOMAIN list} : c.readable /\ Lawful(p, c, stage)}
           A == Admissible(p, answer, stage)
<1>1. PICK context : context = Context(p, stage)
  OBVIOUS
<1>2. IsContext(context) /\ context.repo = repository /\ Listed(p) \subseteq context.ids
  BY <1>1 DEF Context, IsContext
<1>3. /\ Len(list) \in Nat /\ DOMAIN list = 1..Len(list)
      /\ \A k \in 1..Len(list) : list[k].id \in Ids /\ IsProposal(list[k].body)
  BY PlannerAssumption
<1>4. A = Accepted(context, list, eligible, Category)
  BY <1>1 DEF Admissible
<1>5. \A c \in eligible : Heir(c)
  BY DEF Lawful, Heir
<1> HIDE DEF eligible, A
<1>6. /\ IsSequence(A)
      /\ \A i \in 1..Len(A) : /\ A[i] \in eligible /\ Fit(context.repo, A[i])
                              /\ A[i].id \notin context.ids
                              /\ \E k \in 1..Len(list) : A[i] = list[k]
      /\ \A i, j \in 1..Len(A) : A[i].id = A[j].id => i = j
  BY <1>2, <1>3, <1>4, AcceptedFit
<1>7. FitBatch(A, p, repository)
  BY <1>2, <1>3, <1>5, <1>6 DEF FitBatch
<1> QED
  BY <1>7 DEF A

\* A wave keeps the plan well formed, grows it and appends one record.
LEMMA AfterWaveGood ==
  ASSUME NEW p, GoodPlan(p), NEW answer \in Answers, NEW stage, NEW allowed, NEW n \in Nat
  PROVE  LET q == AfterWave(p, n, stage, answer, allowed)
         IN  /\ GoodPlan(q) /\ Lists(p, q, repository)
             /\ \E rec : rec.wave = n /\ q.waves = Append(p.waves, rec)
<1> DEFINE m == AfterCandidates(p, Admissible(p, answer, stage), allowed)
           list == answer.candidates
           base == MergeRisks(m.risks, answer.risks)
           R == CarryAll(base, list, Refused(answer))
           problem == \E i \in DOMAIN list : ~list[i].readable
           q == AfterWave(p, n, stage, answer, allowed)
<1>1. GoodPlan(m) /\ Grown(p, m, repository)
  BY BatchFit, AfterCandidatesGood
<1>2. q = Recorded([m EXCEPT !.risks = R], WaveRecord(n, problem))
  BY DEF AfterWave
<1>3. m = [scenarios |-> m.scenarios, risks |-> m.risks, waves |-> m.waves]
  BY <1>1 DEF GoodPlan
<1>4. /\ Len(list) \in Nat /\ \A k \in 1..Len(list) : list[k].id \in Ids
      /\ \A r \in answer.risks : IsRisk(r)
  BY PlannerAssumption DEF IsRisk
<1> HIDE DEF m
<1>5. m.risks \subseteq base /\ \A r \in base : IsRisk(r)
  BY <1>1, <1>4 DEF MergeRisks, GoodPlan
<1> HIDE DEF base
<1>6. base \subseteq R /\ \A r \in R : IsRisk(r)
  BY <1>4, <1>5, CarryAllIs
<1> HIDE DEF R, problem, q
<1>7. /\ q = [scenarios |-> q.scenarios, risks |-> q.risks, waves |-> q.waves]
      /\ q.scenarios = m.scenarios /\ q.risks = R
      /\ q.waves = Append(m.waves, WaveRecord(n, problem))
      /\ WaveRecord(n, problem).wave = n
  BY <1>2, <1>3 DEF Recorded, WaveRecord
<1>8. GoodList(q.scenarios, q.risks)
  <2>1. GoodList(m.scenarios, m.risks) /\ m.risks \subseteq R
    BY <1>1, <1>5, <1>6 DEF GoodPlan
  <2>2. m.scenarios = [i \in 1..Len(m.scenarios) |-> m.scenarios[i]]
        /\ \A i \in 1..Len(m.scenarios) : IsScenario(m.scenarios[i])
    BY <2>1 DEF GoodList, IsSequence
  <2>3. \A i \in 1..Len(m.scenarios) : Became(m.scenarios[i], m.scenarios[i], R)
    BY <2>2, ItselfBecame
  <2>4. GoodList(m.scenarios, R)
    BY <2>1, <2>2, <2>3, BecameGood
  <2> QED
    BY <1>7, <2>4
<1>9. m.waves = p.waves
  BY <1>1 DEF Grown
<1>10. GoodPlan(q)
  BY <1>1, <1>6, <1>7, <1>8, PlanGood
<1>11. Lists(p, q, repository)
  BY <1>1, <1>7 DEF Grown, Lists
<1> QED
  BY <1>7, <1>9, <1>10, <1>11 DEF q

-----------------------------------------------------------------------------
(* Writing the plan.                                                       *)

\* One of the waves is the n-th or a later one.
Recalls(waves, n) == n = 0 \/ \E i \in 1..Len(waves) : n <= waves[i].wave

\* The records of the plan's waves are the last of the records.
LastOf(files, waves) ==
  /\ Len(waves) <= Len(files)
  /\ \A j \in 1..Len(waves) : files[(Len(files) - Len(waves)) + j] = waves[j]

\* The records after the first k of some waves are written over them from an offset.
Overlaid(files, o, waves, k) ==
  [i \in 1..(IF o + k > Len(files) THEN o + k ELSE Len(files)) |->
     IF i > o /\ i <= o + k THEN waves[i - o] ELSE files[i]]

AreRecords(waves) == IsSequence(waves) /\ \A i \in 1..Len(waves) : waves[i].wave \in Nat

\* What is in the wave files once the first k records of a plan are written.
LEMMA OverlaidIs ==
  ASSUME NEW files, AreRecords(files), NEW waves, AreRecords(waves), NEW o \in Nat,
         o <= Len(files), NEW k \in 0..Len(waves)
  PROVE  LET f == Overlaid(files, o, waves, k)
         IN  /\ AreRecords(f) /\ Len(files) <= Len(f) /\ o + k <= Len(f)
             /\ Len(f) = Len(files) \/ Len(f) = o + k
             /\ \A i \in 1..o : f[i] = files[i]
             /\ \A j \in 1..k : f[o + j] = waves[j]
<1> DEFINE n == IF o + k > Len(files) THEN o + k ELSE Len(files)
           F(i) == IF i > o /\ i <= o + k THEN waves[i - o] ELSE files[i]
           f == Overlaid(files, o, waves, k)
<1>1. /\ Len(files) \in Nat /\ Len(waves) \in Nat /\ k \in Nat
      /\ \A i \in 1..Len(files) : files[i].wave \in Nat
      /\ \A i \in 1..Len(waves) : waves[i].wave \in Nat
  BY DEF AreRecords, IsSequence
<1>2. n \in Nat /\ n >= Len(files) /\ n >= o + k /\ (n = Len(files) \/ n = o + k)
  BY <1>1
<1>3. f = [i \in 1..n |-> F(i)]
  BY DEF Overlaid
<1> HIDE DEF f
<1>4. IsSequence(f) /\ Len(f) = n
  <2> HIDE DEF F, n
  <2>1. f = [i \in 1..n |-> f[i]]
    BY <1>3
  <2> QED
    BY <1>2, <2>1, FunctionSequence
<1>5. \A i \in 1..n : f[i] = F(i)
  <2> HIDE DEF F, n
  <2> QED
    BY <1>3
<1>6. ASSUME NEW i \in 1..n PROVE F(i).wave \in Nat
  <2>1. CASE i > o /\ i <= o + k
    <3>1. i - o \in 1..Len(waves)
      BY <1>1, <1>2, <2>1
    <3> QED
      BY <1>1, <2>1, <3>1
  <2>2. CASE ~(i > o /\ i <= o + k)
    <3>1. i \in 1..Len(files)
      BY <1>1, <1>2, <2>2
    <3> QED
      BY <1>1, <2>2, <3>1
  <2> QED
    BY <2>1, <2>2
<1>7. ASSUME NEW i \in 1..o PROVE f[i] = files[i]
  <2>1. i \in 1..n /\ ~(i > o)
    BY <1>1, <1>2
  <2> QED
    BY <1>5, <2>1
<1>8. ASSUME NEW j \in 1..k PROVE f[o + j] = waves[j]
  <2>1. o + j \in 1..n /\ o + j > o /\ o + j <= o + k /\ (o + j) - o = j
    BY <1>1, <1>2
  <2>2. F(o + j) = waves[(o + j) - o]
    BY <2>1
  <2> QED
    BY <1>5, <2>1, <2>2
<1> HIDE DEF n, F
<1> QED
  BY <1>1, <1>2, <1>4, <1>5, <1>6, <1>7, <1>8 DEF AreRecords, f

\* f is what is left of whole records once a plan's waves and at most one more were
\* written over them from o on.
WrittenOver(files, waves, more, o, f) ==
  /\ AreRecords(files) /\ AreRecords(waves) /\ LastOf(files, waves) /\ AreRecords(more)
  /\ more = waves \/ \E rec : more = Append(waves, rec)
  /\ o = Len(files) - Len(waves)
  /\ f = Overlaid(files, o, more, Len(more))

\* Then they are whole again, and nothing is lost.
LEMMA OverlaidWhole ==
  ASSUME NEW files, NEW waves, NEW more, NEW o, NEW f, WrittenOver(files, waves, more, o, f)
  PROVE  /\ LastOf(f, more) /\ o = Len(f) - Len(more)
         /\ \A i \in 1..Len(files) : i \in 1..Len(f) /\ f[i] = files[i]
         /\ \A j \in 1..Len(more) : \E i \in 1..Len(f) : f[i] = more[j]
<1>1. /\ Len(files) \in Nat /\ Len(waves) \in Nat /\ Len(more) \in Nat
      /\ IsSequence(waves) /\ o \in Nat /\ o <= Len(files) /\ Len(files) = o + Len(waves)
  <2>1. /\ Len(files) \in Nat /\ Len(waves) \in Nat /\ Len(more) \in Nat
        /\ IsSequence(waves) /\ Len(waves) <= Len(files)
    BY DEF WrittenOver, AreRecords, IsSequence, LastOf
  <2>2. o = Len(files) - Len(waves)
    BY DEF WrittenOver
  <2> QED
    BY <2>1, <2>2
<1>2. \A j \in 1..Len(waves) : files[o + j] = waves[j]
  BY DEF WrittenOver, LastOf
<1>3. /\ Len(more) = Len(waves) \/ Len(more) = Len(waves) + 1
      /\ \A j \in 1..Len(waves) : more[j] = waves[j]
  <2>1. CASE more = waves
    BY <2>1
  <2>2. CASE \E rec : more = Append(waves, rec)
    BY <1>1, <2>2, AppendIs
  <2> QED
    BY <2>1, <2>2 DEF WrittenOver
<1>4. Len(more) \in 0..Len(more)
  BY <1>1
<1>5. /\ AreRecords(f) /\ Len(files) <= Len(f) /\ o + Len(more) <= Len(f)
      /\ Len(f) = Len(files) \/ Len(f) = o + Len(more)
      /\ \A i \in 1..o : f[i] = files[i]
      /\ \A j \in 1..Len(more) : f[o + j] = more[j]
  <2>1. PICK k \in 0..Len(more), low \in Nat : k = Len(more) /\ low = o
    BY <1>1, <1>4
  <2> DEFINE h == Overlaid(files, low, more, k)
  <2>2. low <= Len(files)
    BY <1>1, <2>1
  <2>3. /\ AreRecords(h) /\ Len(files) <= Len(h) /\ low + k <= Len(h)
        /\ Len(h) = Len(files) \/ Len(h) = low + k
        /\ \A i \in 1..low : h[i] = files[i]
        /\ \A j \in 1..k : h[low + j] = more[j]
    <3>1. AreRecords(files) /\ AreRecords(more)
      BY DEF WrittenOver
    <3> QED
      BY <2>2, <3>1, OverlaidIs
  <2>4. f = h
    <3>1. f = Overlaid(files, o, more, Len(more))
      BY DEF WrittenOver
    <3> QED
      BY <2>1, <3>1
  <2> HIDE DEF h
  <2> QED
    BY <2>1, <2>3, <2>4
<1>6. Len(f) = o + Len(more)
  <2>1. Len(f) \in Nat
    BY <1>5 DEF AreRecords, IsSequence
  <2> QED
    BY <1>1, <1>3, <1>5, <2>1
<1>7. LastOf(f, more) /\ o = Len(f) - Len(more)
  BY <1>1, <1>5, <1>6 DEF LastOf
<1>8. ASSUME NEW i \in 1..Len(files) PROVE i \in 1..Len(f) /\ f[i] = files[i]
  <2>1. i \in 1..Len(f)
    BY <1>1, <1>3, <1>6
  <2>2. CASE i <= o
    BY <1>1, <1>5, <2>1, <2>2
  <2>3. CASE i > o
    <3>1. PICK j \in 1..Len(waves) : i = o + j
      <4>1. i - o \in 1..Len(waves) /\ i = o + (i - o)
        BY <1>1, <2>3
      <4> QED
        BY <4>1
    <3>2. j \in 1..Len(more)
      BY <1>1, <1>3
    <3> QED
      BY <1>2, <1>3, <1>5, <2>1, <3>1, <3>2
  <2> QED
    BY <1>1, <2>2, <2>3
<1>9. ASSUME NEW j \in 1..Len(more) PROVE \E i \in 1..Len(f) : f[i] = more[j]
  <2>1. o + j \in 1..Len(f) /\ f[o + j] = more[j]
    BY <1>1, <1>5, <1>6
  <2> QED
    BY <2>1
<1> QED
  BY <1>7, <1>8, <1>9

-----------------------------------------------------------------------------
(* What is charged.                                                        *)

Counted(charges, p) ==
  /\ charges \in [Ids -> Nat]
  /\ \A i \in 1..Len(p.scenarios) : charges[p.scenarios[i].id] <= p.scenarios[i].attempts
  /\ \A id \in Ids \ Listed(p) : charges[id] = 0

\* A plan that was grown lists what it listed, and what it gained is active.
LEMMA ListsIds ==
  ASSUME NEW p, GoodPlan(p), NEW q, GoodPlan(q), NEW repo, Lists(p, q, repo)
  PROVE  /\ Listed(p) \subseteq Listed(q)
         /\ ActiveIds(q) = ActiveIds(p) \cup (Listed(q) \ Listed(p))
         /\ \A i \in 1..Len(p.scenarios) : i \in 1..Len(q.scenarios)
         /\ \A i \in 1..Len(q.scenarios) :
              i \in 1..Len(p.scenarios) \/ (/\ i \in (Len(p.scenarios) + 1)..Len(q.scenarios)
                                            /\ q.scenarios[i].id \notin Listed(p))
<1> DEFINE P == p.scenarios
           Q == q.scenarios
<1>1. Len(P) \in Nat /\ Len(Q) \in Nat /\ Len(P) <= Len(Q)
  BY DEF GoodPlan, GoodList, IsSequence, Lists
<1>2. \A i \in 1..Len(P) : i \in 1..Len(Q)
  BY <1>1
<1>3. \A i \in 1..Len(Q) : i \in 1..Len(P) \/ i \in (Len(P) + 1)..Len(Q)
  BY <1>1
<1>4. \A i \in 1..Len(P) : Q[i].id = P[i].id /\ (IsActive(Q[i]) <=> IsActive(P[i]))
  BY DEF Lists
<1>5. \A i \in (Len(P) + 1)..Len(Q) : i \in 1..Len(Q) /\ i \notin 1..Len(P) /\ IsActive(Q[i])
  BY <1>1 DEF Lists
<1>6. \A i \in (Len(P) + 1)..Len(Q) : Q[i].id \notin Listed(p)
  <2>1. ASSUME NEW i \in (Len(P) + 1)..Len(Q), Q[i].id \in Listed(p) PROVE FALSE
    <3>1. PICK j \in 1..Len(P) : P[j].id = Q[i].id
      BY <2>1, ListedIs
    <3>2. j \in 1..Len(Q) /\ Q[j].id = Q[i].id
      BY <1>2, <1>4, <3>1
    <3>3. j = i
      BY <1>5, <3>2 DEF GoodPlan, GoodList, Distinct
    <3> QED
      BY <1>5, <3>3
  <2> QED
    BY <2>1
<1>7. Listed(p) \subseteq Listed(q)
  BY <1>2, <1>4, ListedIs
<1>8. ASSUME NEW id PROVE id \in ActiveIds(q) <=> id \in ActiveIds(p) \cup (Listed(q) \ Listed(p))
  <2>1. CASE id \in ActiveIds(q)
    <3>1. PICK i \in 1..Len(Q) : Q[i].id = id /\ IsActive(Q[i])
      BY <2>1, ListedIs
    <3> QED
      BY <1>3, <1>4, <1>6, <3>1, ListedIs
  <2>2. CASE id \in ActiveIds(p)
    <3>1. PICK i \in 1..Len(P) : P[i].id = id /\ IsActive(P[i])
      BY <2>2, ListedIs
    <3> QED
      BY <1>2, <1>4, <3>1, ListedIs
  <2>3. CASE id \in Listed(q) \ Listed(p)
    <3>1. PICK i \in 1..Len(Q) : Q[i].id = id
      BY <2>3, ListedIs
    <3>2. i \notin 1..Len(P)
      BY <1>4, <2>3, <3>1, ListedIs
    <3>3. IsActive(Q[i])
      BY <1>3, <1>5, <3>2
    <3>4. id \in ActiveIds(q)
      BY <3>1, <3>3, ListedIs
    <3> QED
      BY <2>3, <3>4
  <2> QED
    BY <2>1, <2>2, <2>3
<1> HIDE DEF P, Q
<1> QED
  BY <1>2, <1>3, <1>6, <1>7, <1>8 DEF P, Q

\* Growing a plan keeps every charge covered by an attempt.
LEMMA ListsCounted ==
  ASSUME NEW p, GoodPlan(p), NEW q, GoodPlan(q), NEW repo, Lists(p, q, repo),
         NEW charges, Counted(charges, p)
  PROVE  Counted(charges, q)
<1>1. ASSUME NEW i \in 1..Len(q.scenarios)
      PROVE  charges[q.scenarios[i].id] <= q.scenarios[i].attempts
  <2>1. CASE i \in 1..Len(p.scenarios)
    <3>1. q.scenarios[i].id = p.scenarios[i].id /\ q.scenarios[i].attempts = p.scenarios[i].attempts
      BY <2>1 DEF Lists
    <3> QED
      BY <2>1, <3>1 DEF Counted
  <2>2. CASE q.scenarios[i].id \notin Listed(p)
    <3>1. q.scenarios[i].id \in Ids /\ q.scenarios[i].attempts \in 0..MaxAttempts
      BY DEF GoodPlan, GoodList, IsScenario
    <3>2. charges[q.scenarios[i].id] = 0
      BY <2>2, <3>1 DEF Counted
    <3> QED
      BY <3>1, <3>2
  <2> QED
    BY <2>1, <2>2, ListsIds
<1>2. \A id \in Ids \ Listed(q) : charges[id] = 0
  BY ListsIds DEF Counted
<1> QED
  BY <1>1, <1>2 DEF Counted

\* A charge that is covered is within the bound.
LEMMA CountedBounded ==
  ASSUME NEW p, GoodPlan(p), NEW charges, Counted(charges, p)
  PROVE  \A id \in Ids : charges[id] \in 0..MaxAttempts
<1>1. MaxAttempts \in Nat
  BY PlannerAssumption
<1> SUFFICES ASSUME NEW id \in Ids PROVE charges[id] \in 0..MaxAttempts
  OBVIOUS
<1>2. charges[id] \in Nat
  BY DEF Counted
<1>3. CASE id \in Listed(p)
  <2>1. PICK i \in 1..Len(p.scenarios) : p.scenarios[i].id = id
    BY <1>3, ListedIs
  <2>2. p.scenarios[i].attempts \in 0..MaxAttempts /\ charges[id] <= p.scenarios[i].attempts
    BY <2>1 DEF GoodPlan, GoodList, IsScenario, Counted
  <2> QED
    BY <1>1, <1>2, <2>2
<1>4. CASE id \notin Listed(p)
  BY <1>1, <1>4 DEF Counted
<1> QED
  BY <1>3, <1>4

\* What is charged to each scenario once it inherits.
Recharged(q) ==
  [id \in Ids |-> CHOOSE n \in Inherited(q, id) : \A x \in Inherited(q, id) : x <= n]

\* What a replacement inherits it answers for.
LEMMA InheritedCounted ==
  ASSUME NEW q, GoodPlan(q), Counted(charged, q)
  PROVE  Counted(Recharged(q), q)
<1> DEFINE top(id) == CHOOSE n \in Inherited(q, id) : \A x \in Inherited(q, id) : x <= n
           S == q.scenarios
<1>1. ASSUME NEW h \in Listed(q), NEW id \in Ids, ById(q, h).by = {id}
      PROVE  /\ h \in Ids
             /\ \E j \in 1..Len(S) : S[j].id = id /\ charged[h] <= S[j].attempts
  <2>1. PICK i \in 1..Len(S) : S[i].id = h
    BY ListedIs
  <2>2. S[i].by = {id}
    BY <1>1, <2>1, ByIdIs
  <2>3. IsScenario(S[i]) /\ Chained(S, q.risks, i) /\ charged[h] <= S[i].attempts
        /\ h \in Ids /\ charged[h] \in Nat
    BY <2>1, ListedIs DEF GoodPlan, GoodList, Counted
  <2>4. PICK j \in (i + 1)..Len(S) : S[i].by = {S[j].id} /\ S[i].attempts <= S[j].attempts
    BY <2>2, <2>3 DEF Chained
  <2>5. j \in 1..Len(S) /\ S[j].id = id
    <3>1. Len(S) \in Nat
      BY DEF GoodPlan, GoodList, IsSequence
    <3>2. j \in 1..Len(S)
      BY <3>1
    <3> QED
      BY <2>2, <2>4, <3>2
  <2>6. S[j].attempts \in 0..MaxAttempts /\ S[i].attempts \in 0..MaxAttempts /\ MaxAttempts \in Nat
    BY <2>5, PlannerAssumption DEF GoodPlan, GoodList, IsScenario
  <2>7. charged[h] <= S[j].attempts
    BY <2>3, <2>4, <2>6
  <2> QED
    BY <2>3, <2>5, <2>7
<1>2. ASSUME NEW id \in Ids
      PROVE  /\ top(id) \in Nat
             /\ \/ top(id) = charged[id]
                \/ \E j \in 1..Len(S) : S[j].id = id /\ top(id) <= S[j].attempts
  <2> DEFINE I == Inherited(q, id)
  <2>1. \A n \in I : \/ n = charged[id]
                     \/ \E h \in Listed(q) : n = charged[h] /\ ById(q, h).by = {id}
    BY DEF Inherited
  <2>2. charged[id] \in I
    BY DEF Inherited
  <2>3. I \subseteq 0..MaxAttempts /\ MaxAttempts \in Nat
    <3>1. \A h \in Ids : charged[h] \in 0..MaxAttempts
      BY CountedBounded
    <3>2. ASSUME NEW n \in I PROVE n \in 0..MaxAttempts
      BY <1>1, <2>1, <3>1, <3>2
    <3> QED
      BY <3>2, PlannerAssumption
  <2>4. top(id) \in I
    <3>1. \E n \in I : \A x \in I : x <= n
      BY <2>2, <2>3, HasGreatest
    <3> QED
      BY <3>1
  <2> HIDE DEF top, I
  <2>5. top(id) \in Nat
    <3>1. top(id) \in 0..MaxAttempts
      BY <2>3, <2>4
    <3> QED
      BY <2>3, <3>1
  <2>6. CASE top(id) = charged[id]
    BY <2>5, <2>6
  <2>7. CASE \E h \in Listed(q) : top(id) = charged[h] /\ ById(q, h).by = {id}
    BY <1>1, <2>5, <2>7
  <2> QED
    BY <2>1, <2>4, <2>6, <2>7
<1> DEFINE new == [id \in Ids |-> top(id)]
<1>3. Counted(new, q)
  <2> HIDE DEF top
  <2>1. new \in [Ids -> Nat] /\ \A id \in Ids : new[id] = top(id)
    BY <1>2
  <2>2. ASSUME NEW i \in 1..Len(S) PROVE new[S[i].id] <= S[i].attempts
    <3>1. S[i].id \in Ids /\ charged[S[i].id] <= S[i].attempts
      BY DEF GoodPlan, GoodList, IsScenario, Counted
    <3>2. CASE top(S[i].id) = charged[S[i].id]
      BY <2>1, <3>1, <3>2
    <3>3. CASE \E j \in 1..Len(S) : S[j].id = S[i].id /\ top(S[i].id) <= S[j].attempts
      BY <2>1, <3>1, <3>3 DEF GoodPlan, GoodList, Distinct
    <3> QED
      BY <1>2, <3>1, <3>2, <3>3
  <2>3. ASSUME NEW id \in Ids \ Listed(q) PROVE new[id] = 0
    <3>1. ~\E j \in 1..Len(S) : S[j].id = id
      BY ListedIs
    <3> QED
      BY <1>2, <2>1, <3>1 DEF Counted
  <2> HIDE DEF new
  <2> QED
    BY <2>1, <2>2, <2>3 DEF Counted
<1> QED
  BY <1>3 DEF Recharged

-----------------------------------------------------------------------------
(* What a resume makes of a body.                                          *)

\* What is impossible is told by the command, the exit code, the literals and the
\* evidence; what is coherent by the command, the literals and what is observed.
SameMeasure(b, d) ==
  b.run = d.run /\ b.exit = d.exit /\ b.expects = d.expects /\ b.evidence = d.evidence

\* Two bodies that measure the same are impossible together,
LEMMA MeasureImpossible ==
  ASSUME NEW repo, NEW b, NEW d, SameMeasure(b, d), NEW category
  PROVE  Impossible(repo, b, category) = Impossible(repo, d, category)
<1>1. \A controls : AssertsRefusal(b, controls) <=> AssertsRefusal(d, controls)
  BY DEF AssertsRefusal, SameMeasure
<1> QED
  BY <1>1 DEF Impossible, SameMeasure

\* and coherent together.
LEMMA MeasureCoherent ==
  ASSUME NEW repo, NEW b, NEW d, SameMeasure(b, d), b.observes = d.observes
  PROVE  Coherent(repo, b) = Coherent(repo, d)
BY DEF Coherent, CrossContract, Unattributed, SameMeasure

\* A name that a command is known by is the name of that command alone.
LEMMA NamedAlone ==
  ASSUME NEW repo, NEW c, NameFor(repo, c) # Unnamed
  PROVE  EstablishedByName(repo, NameFor(repo, c)) = Established(repo, c)
<1> DEFINE those == {e \in repo.entries : Of(e) = c /\ Named(repo, e.name) # {}}
<1>1. those # {} /\ NameFor(repo, c) = (CHOOSE e \in those : TRUE).name
  BY DEF NameFor
<1>2. PICK e \in those : NameFor(repo, c) = e.name
  BY <1>1
<1>3. e \in repo.entries /\ Of(e) = c /\ Named(repo, e.name) # {} /\ e.name # Unnamed
  BY <1>2
<1>4. Named(repo, e.name) = {c}
  BY <1>3 DEF Named
<1>5. EstablishedByName(repo, e.name) = Established(repo, c)
  BY <1>4 DEF EstablishedByName
<1> QED
  BY <1>2, <1>5

\* What is established by a name is established by a name that says something.
LEMMA EstablishedNamed ==
  ASSUME NEW repo, NEW name, EstablishedByName(repo, name) # {}
  PROVE  name # Unnamed
BY DEF EstablishedByName, Named

\* A body whose record of ownership holds what its owner prints is left as it is.
OwnedStands(repo, b) ==
  IF b.owner = Unnamed THEN ~b.repaired
  ELSE b.owned \subseteq EstablishedByName(repo, b.owner)

\* A body whose owned literals the owner still prints is left alone.
LEMMA OwnedRematerialized ==
  ASSUME NEW repo, NEW b, OwnedStands(repo, b)
  PROVE  Rematerialize(repo, b) = Result(b, TRUE)
<1> DEFINE recorded == b.owner # Unnamed
           name == IF recorded THEN b.owner ELSE b.source
           now == EstablishedByName(repo, name)
           stale == {l \in b.expects :
                       IF recorded
                       THEN l \in b.owned /\ CannotProduce(repo, b, l, now, TRUE)
                       ELSE /\ b.repaired /\ now # {}
                            /\ l \notin UNION {e.prints : e \in repo.entries}
                            /\ CannotProduce(repo, b, l, now, FALSE)}
<1>1. stale = {}
  BY DEF OwnedStands, CannotProduce
<1> QED
  BY <1>1 DEF Rematerialize

\* A body that is approved, possible, coherent and owns what it says reads as it is.
LEMMA StandsFine ==
  ASSUME NEW repo, NEW b, NEW category, ~Impossible(repo, b, category), Compiles(repo, b),
         Rematerialize(repo, b) = Result(b, TRUE), Coherent(repo, b)
  PROVE  Reading(repo, b, category, FALSE).kind \in {"fine", "held"}
<1>1. CASE Contradicted(repo, b)
  BY <1>1 DEF Reading
<1>2. CASE ~Contradicted(repo, b)
  <2>1. Rebind(repo, b) = Result(b, TRUE) /\ Result(b, TRUE).ok = TRUE /\ Result(b, TRUE).body = b
    BY DEF Rebind, Result
  <2>2. Recohere(repo, b) = Result(b, TRUE)
    BY <2>1 DEF Recohere, Recohered
  <2>3. Rebound(repo, b, category, Rebind(repo, b)) = Remade(b, b)
    BY <2>1, <2>2 DEF Rebound, Settled
  <2>4. Reading(repo, b, category, FALSE) = Remade(b, b)
    BY <1>2, <2>3 DEF Reading
  <2>5. Remade(b, b).kind = "fine"
    BY DEF Remade
  <2> QED
    BY <2>4, <2>5
<1> QED
  BY <1>1, <1>2

\* What binding a proposal changes, and what it leaves.
LEMMA BindIs ==
  ASSUME NEW repo, NEW b, IsBody(b)
  PROVE  LET d == Bind(repo, b)
         IN  /\ IsBody(d) /\ SameMeasure(b, d) /\ d.observes = b.observes
             /\ d.services = b.services /\ d.repaired = b.repaired
             /\ \/ d.owner = b.owner /\ d.owned = b.owned
                \/ /\ d.owner = NameFor(repo, b.run) /\ d.owner # Unnamed
                   /\ d.owned \subseteq Established(repo, b.run)
<1> DEFINE c == BindCitation(repo, b)
           d == BindObservations(repo, c)
<1>1. /\ IsBody(c) /\ SameMeasure(b, c) /\ c.observes = b.observes /\ c.services = b.services
      /\ c.repaired = b.repaired /\ c.owner = b.owner /\ c.owned = b.owned
  BY DEF BindCitation, IsBody, SameMeasure
<1> HIDE DEF c
<1> DEFINE owned == c.expects \cap Established(repo, c.run)
<1>2. CASE NameFor(repo, c.run) = Unnamed \/ owned = {}
  <2>1. d = c
    BY <1>2 DEF BindObservations
  <2> QED
    BY <1>1, <2>1 DEF Bind, c
<1>3. CASE ~(NameFor(repo, c.run) = Unnamed \/ owned = {})
  <2>1. d = [c EXCEPT !.owned = owned, !.owner = NameFor(repo, c.run)]
    BY <1>3 DEF BindObservations
  <2> HIDE DEF d
  <2>2. /\ IsBody(d) /\ SameMeasure(c, d) /\ d.observes = c.observes /\ d.services = c.services
        /\ d.repaired = c.repaired /\ d.owner = NameFor(repo, c.run) /\ d.owned = owned
    BY <1>1, <2>1 DEF IsBody, SameMeasure
  <2>3. SameMeasure(b, d) /\ c.run = b.run
    BY <1>1, <2>2 DEF SameMeasure
  <2>4. Bind(repo, b) = d
    BY DEF Bind, c, d
  <2> QED
    BY <1>1, <1>3, <2>2, <2>3, <2>4
<1> QED
  BY <1>2, <1>3

\* A fit proposal, as it is written down, reads as it is.
LEMMA ProposedFine ==
  ASSUME NEW repo, NEW c, Fit(repo, c), IsProposal(c.body)
  PROVE  /\ IsBody(Bind(repo, c.body))
         /\ Reading(repo, Bind(repo, c.body), Category[c.id], FALSE).kind \in {"fine", "held"}
<1> DEFINE b == c.body
           d == Bind(repo, b)
<1>1. IsBody(b) /\ b.owner = Unnamed /\ ~b.repaired
  BY DEF IsProposal
<1>2. /\ IsBody(d) /\ SameMeasure(b, d) /\ d.observes = b.observes
      /\ d.services = b.services /\ d.repaired = b.repaired
      /\ \/ d.owner = b.owner /\ d.owned = b.owned
         \/ /\ d.owner = NameFor(repo, b.run) /\ d.owner # Unnamed
            /\ d.owned \subseteq Established(repo, b.run)
  BY <1>1, BindIs
<1> HIDE DEF d
<1>3. ~Impossible(repo, d, Category[c.id])
  <2>1. ~Impossible(repo, b, Category[c.id])
    BY DEF Fit, Misjudged
  <2> QED
    BY <1>2, <2>1, MeasureImpossible
<1>4. Compiles(repo, d)
  BY <1>2 DEF Fit, Safe, Compiles, SameMeasure
<1>5. Coherent(repo, d)
  <2>1. Coherent(repo, b)
    BY DEF Fit
  <2> QED
    BY <1>2, <2>1, MeasureCoherent
<1>6. OwnedStands(repo, d)
  <2>1. CASE d.owner = b.owner
    BY <1>1, <1>2, <2>1 DEF OwnedStands
  <2>2. CASE /\ d.owner = NameFor(repo, b.run) /\ d.owner # Unnamed
             /\ d.owned \subseteq Established(repo, b.run)
    BY <2>2, NamedAlone DEF OwnedStands
  <2> QED
    BY <1>2, <2>1, <2>2
<1>7. Reading(repo, d, Category[c.id], FALSE).kind \in {"fine", "held"}
  BY <1>3, <1>4, <1>5, <1>6, OwnedRematerialized, StandsFine
<1> QED
  BY <1>2, <1>7 DEF d

-----------------------------------------------------------------------------
\* A body that is made to run what is approved runs that.
LEMMA RebindIs ==
  ASSUME NEW repo, NEW b, IsBody(b)
  PROVE  IsBody(Rebind(repo, b).body)
<1> DEFINE after(base) == Command(base.text, base.tail \o b.extra)
<1>1. Rebind(repo, b).body = b
      \/ \E base : Rebind(repo, b).body = [b EXCEPT !.run = after(base), !.repaired = TRUE]
  BY DEF Rebind, Result
<1> HIDE DEF after
<1> QED
  BY <1>1 DEF IsBody

\* A body that is made to measure what its source prints is left as it is when it
\* is read again.
LEMMA RematerializeIs ==
  ASSUME NEW repo, NEW b, IsBody(b)
  PROVE  LET d == Rematerialize(repo, b).body
         IN  /\ IsBody(d) /\ d.run = b.run /\ d.services = b.services
             /\ Rematerialize(repo, b).ok => Rematerialize(repo, d) = Result(d, TRUE)
<1> DEFINE recorded == b.owner # Unnamed
           name == IF recorded THEN b.owner ELSE b.source
           now == EstablishedByName(repo, name)
           stale == {l \in b.expects :
                       IF recorded
                       THEN l \in b.owned /\ CannotProduce(repo, b, l, now, TRUE)
                       ELSE /\ b.repaired /\ now # {}
                            /\ l \notin UNION {e.prints : e \in repo.entries}
                            /\ CannotProduce(repo, b, l, now, FALSE)}
           kept == b.expects \ stale
           printed == IF b.observes \cap stale = {} THEN b.observes
                   ELSE (b.observes \ stale) \cup (now \ kept)
           d == [b EXCEPT !.expects = kept \cup now, !.owner = name, !.owned = now,
                          !.observes = printed]
<1>1. Rematerialize(repo, b) = IF stale = {} THEN Result(b, TRUE)
                               ELSE IF now = {} THEN Result(b, FALSE) ELSE Result(d, TRUE)
  BY DEF Rematerialize, IsBody
<1>2. \A x, y : Result(x, y).ok = y /\ Result(x, y).body = x
  BY DEF Result
<1>3. CASE stale = {}
  <2>1. Rematerialize(repo, b) = Result(b, TRUE)
    BY <1>1, <1>3
  <2> QED
    BY <1>2, <2>1
<1>4. CASE stale # {} /\ now = {}
  <2>1. Rematerialize(repo, b) = Result(b, FALSE)
    BY <1>1, <1>4
  <2> QED
    BY <1>2, <2>1
<1>5. CASE stale # {} /\ now # {}
  <2> HIDE DEF stale
  <2>1. now # {} /\ Rematerialize(repo, b) = Result(d, TRUE)
    BY <1>1, <1>5
  <2>2. name # Unnamed
    BY <2>1, EstablishedNamed
  <2> HIDE DEF kept, printed, name
  <2>3. IsBody(d) /\ d.run = b.run /\ d.services = b.services /\ d.owner = name /\ d.owned = now
    <3>1. \E x, y : d = [b EXCEPT !.expects = x, !.owner = name, !.owned = now, !.observes = y]
      OBVIOUS
    <3> HIDE DEF d, now
    <3> QED
      BY <3>1 DEF IsBody
  <2> HIDE DEF d
  <2>4. OwnedStands(repo, d)
    BY <2>2, <2>3 DEF OwnedStands
  <2>5. Rematerialize(repo, d) = Result(d, TRUE)
    BY <2>4, OwnedRematerialized
  <2> QED
    BY <1>2, <2>1, <2>3, <2>5
<1> QED
  BY <1>3, <1>4, <1>5

\* What is contested is another command's, which the repository wrote down.
LEMMA ContestedApproved ==
  ASSUME NEW repo, NEW c, NEW literal, NEW d \in Contested(repo, c, literal)
  PROVE  Approves(repo, d)
BY DEF Contested, Approves, Bound

\* A reconstructed command is approved and needs no second reconstruction.
LEMMA ReconstructIs ==
  ASSUME NEW repo, NEW b, IsBody(b),
         Rematerialize(repo, b) = Result(b, TRUE), Approves(repo, b.run)
  PROVE  LET d == Reconstruct(repo, b).body
         IN  /\ IsBody(d) /\ Approves(repo, d.run) /\ d.services = b.services
             /\ Rematerialize(repo, d) = Result(d, TRUE)
<1> DEFINE contested == {l \in b.expects : Contested(repo, b.run, l) # {}}
           owners == {c \in UNION {Contested(repo, b.run, l) : l \in contested} :
                        \A l \in contested : c \in Contested(repo, b.run, l)}
           owner == CHOOSE c \in owners : TRUE
           refused == \/ Cardinality(owners) # 1
                      \/ ~(b.expects \subseteq Established(repo, owner))
                      \/ NameFor(repo, owner) = Unnamed
           d == [b EXCEPT !.run = owner, !.source = NameFor(repo, owner),
                          !.cited = owner, !.extra = <<>>,
                          !.owned = b.expects, !.owner = NameFor(repo, owner)]
<1>1. Reconstruct(repo, b) = IF contested = {} THEN Result(b, TRUE)
                             ELSE IF refused THEN Result(b, FALSE) ELSE Result(d, TRUE)
  BY DEF Reconstruct
<1>2. \A x, y : Result(x, y).ok = y /\ Result(x, y).body = x
  BY DEF Result
<1>3. CASE contested = {}
  <2>1. Reconstruct(repo, b) = Result(b, TRUE)
    BY <1>1, <1>3
  <2> QED
    BY <1>2, <2>1
<1>4. CASE contested # {} /\ refused
  <2>1. Reconstruct(repo, b) = Result(b, FALSE)
    BY <1>1, <1>4
  <2> QED
    BY <1>2, <2>1
<1>5. CASE contested # {} /\ ~refused
  <2>1. ~refused /\ Reconstruct(repo, b) = Result(d, TRUE)
    <3> HIDE DEF refused, d, contested
    <3> QED
      BY <1>1, <1>5
  <2>2. owners # {}
    <3>1. Cardinality(owners) = 1
      BY <2>1
    <3> HIDE DEF owners
    <3> QED
      BY <3>1, FS_EmptySet
  <2>3. owner \in owners
    BY <2>2
  <2>4. Approves(repo, owner)
    BY <2>3, ContestedApproved
  <2>5. b.expects \subseteq Established(repo, owner) /\ NameFor(repo, owner) # Unnamed
    BY <2>1
  <2> HIDE DEF owner, refused, contested, owners
  <2>6. /\ IsBody(d) /\ d.run = owner /\ d.services = b.services /\ d.owned = b.expects
        /\ d.owner = NameFor(repo, owner)
    <3>1. \E label : label = NameFor(repo, owner)
                     /\ d = [b EXCEPT !.run = owner, !.source = label, !.cited = owner,
                                      !.extra = <<>>, !.owned = b.expects, !.owner = label]
      OBVIOUS
    <3> HIDE DEF d
    <3> QED
      BY <3>1 DEF IsBody
  <2> HIDE DEF d
  <2>7. OwnedStands(repo, d)
    BY <2>5, <2>6, NamedAlone DEF OwnedStands
  <2>8. Rematerialize(repo, d) = Result(d, TRUE)
    BY <2>7, OwnedRematerialized
  <2>9. Reconstruct(repo, b).body = d
    BY <2>1 DEF Result
  <2> QED
    BY <2>4, <2>6, <2>8, <2>9
<1> QED
  BY <1>3, <1>4, <1>5

\* What a resume may run it would read as it is, and what it makes of a body is one.
LEMMA ReadingIs ==
  ASSUME NEW repo, NEW b, IsBody(b), NEW category, NEW met
  PROVE  LET r == Reading(repo, b, category, met)
         IN  /\ r.kind \in {"fine", "rebound", "lost", "impossible", "held"}
             /\ IsBody(r.body)
             /\ r.kind = "fine" => r.body = b
             /\ r.kind \in {"fine", "rebound"} =>
                  Reading(repo, r.body, category, FALSE).kind \in {"fine", "held"}
<1> DEFINE stands(w) == Reading(repo, w, category, FALSE).kind \in {"fine", "held"}
           Sure(r) == /\ r.kind \in {"fine", "rebound", "lost", "impossible", "held"}
                      /\ IsBody(r.body)
                      /\ r.kind = "fine" => r.body = b
                      /\ r.kind \in {"fine", "rebound"} => stands(r.body)
<1> HIDE DEF stands
<1>1. \A x : IsBody(x) => /\ Sure([kind |-> "lost", body |-> x])
                          /\ Sure([kind |-> "impossible", body |-> x])
                          /\ Sure([kind |-> "held", body |-> x])
  OBVIOUS
<1>2. ASSUME NEW w, IsBody(w), stands(w) PROVE Sure(Remade(b, w))
  BY <1>2 DEF Remade
<1> HIDE DEF Sure
<1> DEFINE bound == Rebind(repo, b)
           v == bound.body
           fresh == Rematerialize(repo, v)
           again == Recohere(repo, v)
<1>3. ASSUME Compiles(repo, v)
      PROVE  /\ IsBody(again.body)
             /\ again.ok /\ ~Impossible(repo, again.body, category) => stands(again.body)
  <2>1. IsBody(v) /\ Approves(repo, v.run) /\ v.services \subseteq repo.services
    BY <1>3, RebindIs DEF Compiles
  <2>2. again = Recohered(repo, fresh)
    BY DEF Recohere
  <2>3. \A x, y : Result(x, y).ok = y /\ Result(x, y).body = x
    BY DEF Result
  <2> HIDE DEF v
  <2>4. /\ IsBody(fresh.body) /\ fresh.body.run = v.run /\ fresh.body.services = v.services
        /\ fresh.ok => Rematerialize(repo, fresh.body) = Result(fresh.body, TRUE)
    BY <2>1, RematerializeIs
  <2>5. CASE ~fresh.ok
    <3>1. again = fresh
      BY <2>2, <2>5 DEF Recohered
    <3> HIDE DEF again, fresh
    <3> QED
      BY <2>4, <2>5, <3>1
  <2>6. CASE fresh.ok /\ Coherent(repo, fresh.body)
    <3>1. again = fresh
      BY <2>2, <2>6 DEF Recohered
    <3>2. Compiles(repo, fresh.body)
      BY <2>1, <2>4 DEF Compiles
    <3> HIDE DEF again, fresh
    <3>3. ~Impossible(repo, fresh.body, category) =>
            Reading(repo, fresh.body, category, FALSE).kind \in {"fine", "held"}
      BY <2>4, <2>6, <3>2, StandsFine
    <3> QED
      BY <2>4, <3>1, <3>3 DEF stands
  <2>7. CASE fresh.ok /\ ~Coherent(repo, fresh.body)
    <3> DEFINE built == Reconstruct(repo, fresh.body)
    <3>1. again = Result(built.body, built.ok /\ Coherent(repo, built.body))
      BY <2>2, <2>7 DEF Recohered
    <3>2. /\ again.body = built.body
          /\ again.ok => Coherent(repo, built.body)
      <4> HIDE DEF again, built, fresh
      <4>1. again = [body |-> built.body, ok |-> built.ok /\ Coherent(repo, built.body)]
        BY <3>1 DEF Result
      <4> QED
        BY <4>1
    <3>3. Approves(repo, fresh.body.run)
      BY <2>1, <2>4
    <3> HIDE DEF again, fresh
    <3>4. /\ IsBody(built.body) /\ Approves(repo, built.body.run)
          /\ built.body.services = fresh.body.services
          /\ Rematerialize(repo, built.body) = Result(built.body, TRUE)
      BY <2>4, <2>7, <3>3, ReconstructIs
    <3>5. Compiles(repo, built.body)
      BY <2>1, <2>4, <3>4 DEF Compiles
    <3> HIDE DEF built
    <3>6. again.ok /\ ~Impossible(repo, built.body, category) =>
            Reading(repo, built.body, category, FALSE).kind \in {"fine", "held"}
      BY <3>2, <3>4, <3>5, StandsFine
    <3> QED
      BY <3>2, <3>4, <3>6 DEF stands
  <2> QED
    BY <2>5, <2>6, <2>7
<1>4. IsBody(v)
  BY RebindIs
<1> HIDE DEF bound
<1>5. Compiles(repo, v) => Sure(Settled(repo, b, category, again))
  <2> HIDE DEF again, v
  <2>1. CASE ~Compiles(repo, v)
    BY <2>1
  <2>2. CASE Compiles(repo, v) /\ (~again.ok \/ Impossible(repo, again.body, category))
    BY <1>1, <1>3, <2>2 DEF Settled
  <2>3. CASE Compiles(repo, v) /\ again.ok /\ ~Impossible(repo, again.body, category)
    BY <1>2, <1>3, <2>3 DEF Settled
  <2> QED
    BY <2>1, <2>2, <2>3
<1>6. Sure(Rebound(repo, b, category, bound))
  <2> HIDE DEF bound
  <2>1. CASE ~bound.ok
    BY <1>1, <2>1 DEF Rebound
  <2>2. CASE bound.ok /\ Impossible(repo, v, category)
    BY <1>1, <2>2 DEF Rebound
  <2>3. CASE bound.ok /\ ~Impossible(repo, v, category) /\ ~Compiles(repo, v)
    BY <1>1, <2>3 DEF Rebound
  <2>4. CASE bound.ok /\ ~Impossible(repo, v, category) /\ Compiles(repo, v)
    <3>1. Rebound(repo, b, category, bound) = Settled(repo, b, category, Recohere(repo, v))
      BY <2>4 DEF Rebound
    <3> QED
      BY <1>5, <2>4, <3>1 DEF again
  <2> QED
    BY <2>1, <2>2, <2>3, <2>4
<1>7. Sure(Reading(repo, b, category, met))
  <2> HIDE DEF again, v
  <2>1. CASE Impossible(repo, b, category)
    BY <1>1, <2>1 DEF Reading
  <2>2. CASE ~Impossible(repo, b, category) /\ (met \/ Contradicted(repo, b))
    BY <1>1, <2>2 DEF Reading
  <2>3. CASE ~Impossible(repo, b, category) /\ ~(met \/ Contradicted(repo, b))
    <3>1. Reading(repo, b, category, met) = Rebound(repo, b, category, Rebind(repo, b))
      BY <2>3 DEF Reading
    <3> QED
      BY <1>6, <3>1 DEF bound
  <2> QED
    BY <2>1, <2>2, <2>3
<1> QED
  BY <1>7 DEF Sure, stands

-----------------------------------------------------------------------------
(* What the steps make of a plan.                                          *)

\* What is owed is what can be run and what could not be built.
Accounts(p, c, u) == c \cup u = ActiveIds(p) /\ c \cap u = {}

Bodies(p) == \A i \in 1..Len(p.scenarios) : IsBody(p.scenarios[i].body)

\* What can be run reads as it is.
Settles(p, c, repo) ==
  \A i \in 1..Len(p.scenarios) :
    p.scenarios[i].id \in c =>
      Reading(repo, p.scenarios[i].body, Category[p.scenarios[i].id], FALSE).kind
        \in {"fine", "held"}

\* What a wave gained is what can be run besides (compiled).
LEMMA GrowAccounts ==
  ASSUME NEW p, GoodPlan(p), NEW q, GoodPlan(q), NEW repo, Lists(p, q, repo),
         NEW c, NEW u, Accounts(p, c, u)
  PROVE  Accounts(q, c \cup (Listed(q) \ Listed(p)), u)
<1>1. ActiveIds(p) \subseteq Listed(p)
  BY ListedIs
<1>2. ActiveIds(q) = ActiveIds(p) \cup (Listed(q) \ Listed(p))
  BY ListsIds
<1> QED
  BY <1>1, <1>2 DEF Accounts

\* What a wave gained is settled as it stands.
LEMMA GrowBodies ==
  ASSUME NEW p, GoodPlan(p), NEW q, GoodPlan(q), NEW repo, Lists(p, q, repo), Bodies(p),
         NEW c, c \subseteq Listed(p), Settles(p, c, repo)
  PROVE  Bodies(q) /\ Settles(q, c \cup (Listed(q) \ Listed(p)), repo)
<1> DEFINE S == p.scenarios
           Q == q.scenarios
<1> SUFFICES ASSUME NEW i \in 1..Len(Q)
             PROVE  /\ IsBody(Q[i].body)
                    /\ Q[i].id \in c \cup (Listed(q) \ Listed(p)) =>
                         Reading(repo, Q[i].body, Category[Q[i].id], FALSE).kind
                                 \in {"fine", "held"}
  BY DEF Bodies, Settles
<1>1. CASE i \in 1..Len(S)
  <2>1. Q[i].id = S[i].id /\ Q[i].body = S[i].body
    BY <1>1 DEF Lists
  <2>2. S[i].id \in Listed(p)
    BY <1>1, ListedIs
  <2> QED
    BY <1>1, <2>1, <2>2 DEF Bodies, Settles
<1>2. CASE i \in (Len(S) + 1)..Len(Q)
  <2>1. PICK x : /\ Fit(repo, x) /\ IsProposal(x.body) /\ x.id = Q[i].id
                 /\ Q[i].body = Bind(repo, x.body)
    BY <1>2 DEF Lists, Proposed
  <2> QED
    BY <2>1, ProposedFine
<1> QED
  BY <1>1, <1>2, ListsIds

\* The same scenarios, whatever became of each.
SameList(p, q) ==
  /\ Len(q.scenarios) = Len(p.scenarios)
  /\ \A i \in 1..Len(p.scenarios) : q.scenarios[i].id = p.scenarios[i].id

\* The same scenarios have the same ids.
LEMMA SameListed ==
  ASSUME NEW p, GoodPlan(p), NEW q, GoodPlan(q), SameList(p, q)
  PROVE  Listed(q) = Listed(p)
<1>1. \A id : id \in Listed(q) <=> \E i \in 1..Len(p.scenarios) : q.scenarios[i].id = id
  BY ListedIs DEF SameList
<1>2. \A id : id \in Listed(p) <=> \E i \in 1..Len(p.scenarios) : p.scenarios[i].id = id
  BY ListedIs
<1> QED
  BY <1>1, <1>2 DEF SameList

\* A wave's record changes the records only.
LEMMA RecordedIs ==
  ASSUME NEW p, GoodPlan(p), NEW rec, rec.wave \in Nat
  PROVE  LET q == Recorded(p, rec)
         IN  /\ GoodPlan(q) /\ q.scenarios = p.scenarios /\ q.risks = p.risks
             /\ q.waves = Append(p.waves, rec)
<1> DEFINE q == Recorded(p, rec)
<1>1. /\ q = [scenarios |-> q.scenarios, risks |-> q.risks, waves |-> q.waves]
      /\ q.scenarios = p.scenarios /\ q.risks = p.risks /\ q.waves = Append(p.waves, rec)
  <2>1. /\ p = [scenarios |-> p.scenarios, risks |-> p.risks, waves |-> p.waves]
        /\ q = [p EXCEPT !.waves = Append(p.waves, rec)]
    BY DEF Recorded, GoodPlan
  <2> HIDE DEF q
  <2> QED
    BY <2>1
<1> HIDE DEF q
<1>2. GoodList(q.scenarios, q.risks) /\ \A r \in q.risks : IsRisk(r)
  BY <1>1 DEF GoodPlan
<1>3. GoodPlan(q)
  BY <1>1, <1>2, PlanGood
<1> QED
  BY <1>1, <1>3 DEF q

\* A rewritten list, in a plan.
LEMMA RewrittenGood ==
  ASSUME NEW p, GoodPlan(p), NEW Q, Q = [i \in 1..Len(p.scenarios) |-> Q[i]],
         NEW more, p.risks \subseteq more, \A r \in more : IsRisk(r),
         \A i \in 1..Len(p.scenarios) : Became(p.scenarios[i], Q[i], more),
         NEW q, q = [scenarios |-> Q, risks |-> more, waves |-> p.waves]
  PROVE  GoodPlan(q) /\ SameList(p, q)
<1>1. GoodList(p.scenarios, p.risks)
  BY DEF GoodPlan
<1>2. GoodList(Q, more) /\ Len(Q) = Len(p.scenarios)
  BY <1>1, BecameGood
<1>3. q.scenarios = Q /\ q.risks = more /\ q.waves = p.waves
  OBVIOUS
<1>4. GoodPlan(q)
  BY <1>2, <1>3, PlanGood
<1>5. SameList(p, q)
  BY <1>2, <1>3 DEF SameList, Became
<1> QED
  BY <1>4, <1>5

\* Holding.
LEMMA HoldIs ==
  ASSUME NEW p, GoodPlan(p), NEW ids
  PROVE  LET q == Hold(p, ids)
         IN  /\ GoodPlan(q) /\ SameList(p, q)
             /\ q.risks = p.risks /\ q.waves = p.waves
             /\ \A i \in 1..Len(p.scenarios) :
                  /\ q.scenarios[i].attempts = p.scenarios[i].attempts
                  /\ q.scenarios[i].body = p.scenarios[i].body
             /\ ActiveIds(q) = ActiveIds(p) \ ids
<1> DEFINE S == p.scenarios
           M(i) == IF S[i].id \in ids THEN [S[i] EXCEPT !.held = TRUE] ELSE S[i]
           Q == [i \in 1..Len(S) |-> M(i)]
           q == Hold(p, ids)
<1>1. /\ p = [scenarios |-> S, risks |-> p.risks, waves |-> p.waves]
      /\ DOMAIN S = 1..Len(S) /\ \A i \in 1..Len(S) : IsScenario(S[i])
      /\ \A r \in p.risks : IsRisk(r)
  BY SequenceIs DEF GoodPlan, GoodList
<1>2. q = [scenarios |-> Q, risks |-> p.risks, waves |-> p.waves]
  <2>1. q = [p EXCEPT !.scenarios = Q]
    BY <1>1 DEF Hold
  <2> HIDE DEF Q, q
  <2> QED
    BY <1>1, <2>1
<1>3. ASSUME NEW i \in 1..Len(S)
      PROVE  /\ Became(S[i], M(i), p.risks) /\ M(i).id = S[i].id /\ M(i).body = S[i].body
             /\ M(i).attempts = S[i].attempts
             /\ IsActive(M(i)) <=> IsActive(S[i]) /\ S[i].id \notin ids
  <2>1. CASE S[i].id \in ids
    <3>1. M(i) = [S[i] EXCEPT !.held = TRUE] /\ IsScenario(S[i])
      BY <1>1, <2>1
    <3> HIDE DEF M
    <3>2. /\ M(i).id = S[i].id /\ M(i).body = S[i].body /\ M(i).attempts = S[i].attempts
          /\ M(i).retired = S[i].retired /\ M(i).by = S[i].by /\ M(i).held = TRUE
          /\ IsScenario(M(i))
      BY <3>1 DEF IsScenario
    <3>3. S[i].attempts <= S[i].attempts
      BY <3>1 DEF IsScenario
    <3>4. Became(S[i], M(i), p.risks)
      BY <3>2, <3>3 DEF Became
    <3> QED
      BY <2>1, <3>2, <3>4 DEF IsActive
  <2>2. CASE S[i].id \notin ids
    BY <1>1, <2>2, ItselfBecame
  <2> QED
    BY <2>1, <2>2
<1> HIDE DEF M
<1>4. \A i \in 1..Len(S) : Q[i] = M(i)
  OBVIOUS
<1>5. Q = [i \in 1..Len(S) |-> Q[i]]
  OBVIOUS
<1> HIDE DEF Q, q
<1>6. GoodPlan(q) /\ SameList(p, q)
  BY <1>1, <1>2, <1>3, <1>4, <1>5, RewrittenGood
<1>7. q.scenarios = Q /\ q.risks = p.risks /\ q.waves = p.waves
  BY <1>2
<1>8. \A i \in 1..Len(S) : IsActive(Q[i]) <=> IsActive(S[i]) /\ S[i].id \notin ids
  BY <1>3, <1>4
<1>9. ActiveIds(q) = ActiveIds(p) \ ids
  <2>1. \A id : id \in ActiveIds(q) <=> \E i \in 1..Len(S) : Q[i].id = id /\ IsActive(Q[i])
    BY <1>6, <1>7, ListedIs DEF SameList
  <2>2. \A id : id \in ActiveIds(p) <=> \E i \in 1..Len(S) : S[i].id = id /\ IsActive(S[i])
    BY ListedIs
  <2>3. \A i \in 1..Len(S) : Q[i].id = S[i].id
    BY <1>3, <1>4
  <2> HIDE DEF S
  <2> QED
    BY <1>8, <2>1, <2>2, <2>3
<1>10. \A i \in 1..Len(S) : Q[i].attempts = S[i].attempts /\ Q[i].body = S[i].body
  BY <1>3, <1>4
<1> QED
  BY <1>6, <1>7, <1>9, <1>10 DEF q

-----------------------------------------------------------------------------
\* An attempt is charged to each of the ids.
Attempted(p, ids) ==
  [p EXCEPT !.scenarios =
     [i \in DOMAIN p.scenarios |->
        IF p.scenarios[i].id \in ids
        THEN [p.scenarios[i] EXCEPT !.attempts = p.scenarios[i].attempts + 1]
        ELSE p.scenarios[i]]]

\* Charging an attempt changes nothing but the attempts.
LEMMA AttemptedIs ==
  ASSUME NEW p, GoodPlan(p), NEW ids,
         \A i \in 1..Len(p.scenarios) : p.scenarios[i].id \in ids =>
           IsHeld(p.scenarios[i]) /\ p.scenarios[i].attempts < MaxAttempts
  PROVE  LET q == Attempted(p, ids)
         IN  /\ GoodPlan(q) /\ SameList(p, q)
             /\ q.risks = p.risks /\ q.waves = p.waves
             /\ ActiveIds(q) = ActiveIds(p)
             /\ \A i \in 1..Len(p.scenarios) :
                  /\ q.scenarios[i].body = p.scenarios[i].body
                  /\ q.scenarios[i].attempts =
                       IF p.scenarios[i].id \in ids THEN p.scenarios[i].attempts + 1
                       ELSE p.scenarios[i].attempts
<1> DEFINE S == p.scenarios
           M(i) == IF S[i].id \in ids THEN [S[i] EXCEPT !.attempts = S[i].attempts + 1] ELSE S[i]
           Q == [i \in 1..Len(S) |-> M(i)]
           q == Attempted(p, ids)
<1>1. /\ p = [scenarios |-> S, risks |-> p.risks, waves |-> p.waves]
      /\ DOMAIN S = 1..Len(S) /\ \A i \in 1..Len(S) : IsScenario(S[i])
      /\ \A r \in p.risks : IsRisk(r)
  BY SequenceIs DEF GoodPlan, GoodList
<1>2. q = [scenarios |-> Q, risks |-> p.risks, waves |-> p.waves]
  <2>1. q = [p EXCEPT !.scenarios = Q]
    BY <1>1 DEF Attempted
  <2> HIDE DEF Q, q
  <2> QED
    BY <1>1, <2>1
<1>3. ASSUME NEW i \in 1..Len(S)
      PROVE  /\ Became(S[i], M(i), p.risks) /\ M(i).id = S[i].id /\ M(i).body = S[i].body
             /\ M(i).attempts = IF S[i].id \in ids THEN S[i].attempts + 1 ELSE S[i].attempts
             /\ IsActive(M(i)) <=> IsActive(S[i])
  <2>1. CASE S[i].id \in ids
    <3>1. M(i) = [S[i] EXCEPT !.attempts = S[i].attempts + 1] /\ IsScenario(S[i])
          /\ IsHeld(S[i]) /\ S[i].attempts < MaxAttempts
      BY <1>1, <2>1
    <3> HIDE DEF M
    <3>2. S[i].attempts \in Nat /\ S[i].attempts + 1 \in 0..MaxAttempts
          /\ S[i].attempts <= S[i].attempts + 1
      BY <3>1, PlannerAssumption DEF IsScenario
    <3>3. /\ M(i).id = S[i].id /\ M(i).body = S[i].body /\ M(i).attempts = S[i].attempts + 1
          /\ M(i).retired = S[i].retired /\ M(i).by = S[i].by /\ M(i).held = S[i].held
          /\ IsScenario(M(i))
      BY <3>1, <3>2 DEF IsScenario
    <3>4. S[i].retired = "no"
      BY <3>1 DEF IsHeld
    <3>5. Became(S[i], M(i), p.risks)
      BY <3>2, <3>3, <3>4 DEF Became
    <3> QED
      BY <2>1, <3>3, <3>5 DEF IsActive
  <2>2. CASE S[i].id \notin ids
    BY <1>1, <2>2, ItselfBecame
  <2> QED
    BY <2>1, <2>2
<1> HIDE DEF M
<1>4. \A i \in 1..Len(S) : Q[i] = M(i)
  OBVIOUS
<1>5. Q = [i \in 1..Len(S) |-> Q[i]]
  OBVIOUS
<1> HIDE DEF Q, q
<1>6. GoodPlan(q) /\ SameList(p, q)
  BY <1>1, <1>2, <1>3, <1>4, <1>5, RewrittenGood
<1>7. q.scenarios = Q /\ q.risks = p.risks /\ q.waves = p.waves
  BY <1>2
<1>8. \A i \in 1..Len(S) : /\ Q[i].id = S[i].id /\ (IsActive(Q[i]) <=> IsActive(S[i]))
                           /\ Q[i].body = S[i].body
                           /\ Q[i].attempts = IF S[i].id \in ids THEN S[i].attempts + 1
                                              ELSE S[i].attempts
  BY <1>3, <1>4
<1>9. ActiveIds(q) = ActiveIds(p)
  <2>1. \A id : id \in ActiveIds(q) <=> \E i \in 1..Len(S) : Q[i].id = id /\ IsActive(Q[i])
    BY <1>6, <1>7, ListedIs DEF SameList
  <2>2. \A id : id \in ActiveIds(p) <=> \E i \in 1..Len(S) : S[i].id = id /\ IsActive(S[i])
    BY ListedIs
  <2> HIDE DEF S
  <2> QED
    BY <1>8, <2>1, <2>2
<1> QED
  BY <1>6, <1>7, <1>8, <1>9 DEF q

\* The charge and the attempt are counted together.
LEMMA AttemptedCounted ==
  ASSUME NEW p, GoodPlan(p), NEW ids, ids \subseteq Listed(p),
         \A i \in 1..Len(p.scenarios) : p.scenarios[i].id \in ids =>
           IsHeld(p.scenarios[i]) /\ p.scenarios[i].attempts < MaxAttempts,
         NEW charges, Counted(charges, p)
  PROVE  Counted([id \in Ids |-> IF id \in ids THEN charges[id] + 1 ELSE charges[id]],
                 Attempted(p, ids))
<1> DEFINE q == Attempted(p, ids)
           new == [id \in Ids |-> IF id \in ids THEN charges[id] + 1 ELSE charges[id]]
<1>1. /\ GoodPlan(q) /\ SameList(p, q)
      /\ \A i \in 1..Len(p.scenarios) :
           q.scenarios[i].attempts = IF p.scenarios[i].id \in ids THEN p.scenarios[i].attempts + 1
                                     ELSE p.scenarios[i].attempts
  BY AttemptedIs
<1>2. Listed(q) = Listed(p)
  BY <1>1, SameListed
<1> HIDE DEF q
<1>3. charges \in [Ids -> Nat]
  BY DEF Counted
<1>4. new \in [Ids -> Nat]
  BY <1>3
<1>5. ASSUME NEW i \in 1..Len(p.scenarios)
      PROVE  new[q.scenarios[i].id] <= q.scenarios[i].attempts
  <2>1. q.scenarios[i].id = p.scenarios[i].id /\ p.scenarios[i].id \in Ids
        /\ p.scenarios[i].attempts \in 0..MaxAttempts
    BY <1>1 DEF SameList, GoodPlan, GoodList, IsScenario
  <2>2. charges[p.scenarios[i].id] <= p.scenarios[i].attempts
        /\ charges[p.scenarios[i].id] \in Nat
    BY <1>3, <2>1 DEF Counted
  <2>3. MaxAttempts \in Nat
    BY PlannerAssumption
  <2> QED
    BY <1>1, <2>1, <2>2, <2>3
<1>6. \A id \in Ids \ Listed(q) : new[id] = 0
  BY <1>2 DEF Counted
<1> HIDE DEF new
<1>7. Counted(new, q)
  BY <1>1, <1>4, <1>5, <1>6 DEF Counted, SameList
<1> QED
  BY <1>7 DEF new, q

-----------------------------------------------------------------------------
\* What a resume read of each active scenario of a plan.
SoundReadings(readings, p, repo) ==
  /\ DOMAIN readings = ActiveIds(p)
  /\ \A i \in 1..Len(p.scenarios) :
       p.scenarios[i].id \in ActiveIds(p) =>
         LET r == readings[p.scenarios[i].id]
         IN  /\ r.kind \in {"fine", "rebound", "lost", "impossible", "held"}
             /\ IsBody(r.body)
             /\ r.kind = "fine" => r.body = p.scenarios[i].body
             /\ r.kind \in {"fine", "rebound"} =>
                  Reading(repo, r.body, Category[p.scenarios[i].id], FALSE).kind
                    \in {"fine", "held"}

Rewritten(p, readings) ==
  [p EXCEPT
     !.scenarios = [i \in DOMAIN p.scenarios |-> AsRead(p.scenarios[i], readings)],
     !.risks = CarryAll(p.risks, p.scenarios, Read(readings, {"impossible"}))]

\* What a scenario is read as.
LEMMA AsReadIs ==
  ASSUME NEW p, GoodPlan(p), Bodies(p), NEW readings, NEW repo, SoundReadings(readings, p, repo),
         NEW i \in 1..Len(p.scenarios), NEW more,
         p.scenarios[i].id \in Read(readings, {"impossible"}) => Stands(more, p.scenarios[i].id)
  PROVE  LET s == p.scenarios[i]
             t == AsRead(s, readings)
         IN  /\ Became(s, t, more) /\ t.id = s.id /\ t.attempts = s.attempts /\ IsBody(t.body)
             /\ IsActive(t) <=> s.id \in Read(readings, {"fine", "rebound", "lost"})
             /\ s.id \in Read(readings, {"fine", "rebound"}) =>
                  Reading(repo, t.body, Category[t.id], FALSE).kind \in {"fine", "held"}
<1> DEFINE s == p.scenarios[i]
           r == readings[s.id]
           t == AsRead(s, readings)
<1>1. IsScenario(s) /\ IsBody(s.body) /\ s.attempts \in Nat
  BY PlannerAssumption DEF GoodPlan, GoodList, IsScenario, Bodies
<1>2. s.id \in ActiveIds(p) <=> IsActive(s)
  BY ListedIs DEF GoodPlan, GoodList, Distinct
<1>3. \A kinds : s.id \in Read(readings, kinds) <=> s.id \in ActiveIds(p) /\ r.kind \in kinds
  BY DEF Read, SoundReadings
<1>4. s.id \in ActiveIds(p) =>
        /\ r.kind \in {"fine", "rebound", "lost", "impossible", "held"}
        /\ IsBody(r.body)
        /\ r.kind \in {"fine", "rebound"} =>
             Reading(repo, r.body, Category[s.id], FALSE).kind \in {"fine", "held"}
  BY DEF SoundReadings
<1>5. CASE s.id \notin ActiveIds(p)
  <2>1. t = s
    BY <1>5 DEF AsRead, SoundReadings
  <2> QED
    BY <1>1, <1>2, <1>3, <1>5, <2>1, ItselfBecame
<1>6. CASE s.id \in ActiveIds(p) /\ r.kind = "impossible"
  <2>1. t = [s EXCEPT !.retired = "impossible"] /\ s.retired = "no"
    BY <1>2, <1>6 DEF AsRead, SoundReadings, IsActive
  <2> HIDE DEF t
  <2>2. /\ IsScenario(t) /\ t.id = s.id /\ t.attempts = s.attempts /\ t.body = s.body
        /\ t.retired = "impossible" /\ t.by = s.by
    BY <1>1, <2>1 DEF IsScenario
  <2>3. Stands(more, t.id)
    BY <1>3, <1>6, <2>2
  <2>4. Became(s, t, more)
    BY <1>1, <2>1, <2>2, <2>3 DEF Became
  <2>5. ~IsActive(t)
    BY <2>2 DEF IsActive
  <2>6. s.id \notin Read(readings, {"fine", "rebound", "lost"})
        /\ s.id \notin Read(readings, {"fine", "rebound"})
    BY <1>3, <1>6
  <2> HIDE DEF s, r
  <2> QED
    BY <1>1, <2>2, <2>4, <2>5, <2>6 DEF t, s
<1>7. CASE s.id \in ActiveIds(p) /\ r.kind = "held"
  <2>1. t = [s EXCEPT !.held = TRUE]
    BY <1>7 DEF AsRead, SoundReadings
  <2> HIDE DEF t
  <2>2. /\ IsScenario(t) /\ t.id = s.id /\ t.attempts = s.attempts /\ t.body = s.body
        /\ t.retired = s.retired /\ t.by = s.by /\ t.held = TRUE
    BY <1>1, <2>1 DEF IsScenario
  <2>3. Became(s, t, more)
    BY <1>1, <2>2 DEF Became
  <2>4. ~IsActive(t)
    BY <2>2 DEF IsActive
  <2>5. s.id \notin Read(readings, {"fine", "rebound", "lost"})
        /\ s.id \notin Read(readings, {"fine", "rebound"})
    BY <1>3, <1>7
  <2> HIDE DEF s, r
  <2> QED
    BY <1>1, <2>2, <2>3, <2>4, <2>5 DEF t, s
<1>8. CASE s.id \in ActiveIds(p) /\ r.kind \in {"fine", "rebound", "lost"}
  <2>1. t = [s EXCEPT !.body = r.body]
    BY <1>8 DEF AsRead, SoundReadings
  <2> HIDE DEF t
  <2>2. /\ IsScenario(t) /\ t.id = s.id /\ t.attempts = s.attempts /\ t.body = r.body
        /\ t.retired = s.retired /\ t.by = s.by /\ t.held = s.held
    BY <1>1, <2>1 DEF IsScenario
  <2>3. Became(s, t, more)
    BY <1>1, <2>2 DEF Became
  <2>4. IsActive(t)
    BY <1>2, <1>8, <2>2 DEF IsActive
  <2> HIDE DEF s, r
  <2> QED
    BY <1>3, <1>4, <1>8, <2>2, <2>3, <2>4 DEF t, s
<1> HIDE DEF t, s, r
<1> QED
  BY <1>4, <1>5, <1>6, <1>7, <1>8 DEF t, s

-----------------------------------------------------------------------------
\* What a resume makes of the plan is accounted for and settled.
LEMMA RewrittenIs ==
  ASSUME NEW p, GoodPlan(p), Bodies(p), NEW readings, NEW repo, SoundReadings(readings, p, repo)
  PROVE  LET q == Rewritten(p, readings)
         IN  /\ GoodPlan(q) /\ SameList(p, q) /\ q.waves = p.waves
             /\ \A i \in 1..Len(p.scenarios) : q.scenarios[i].attempts = p.scenarios[i].attempts
             /\ Accounts(q, Read(readings, {"fine", "rebound"}), Read(readings, {"lost"}))
             /\ Bodies(q) /\ Settles(q, Read(readings, {"fine", "rebound"}), repo)
<1> DEFINE S == p.scenarios
           M(i) == AsRead(S[i], readings)
           Q == [i \in 1..Len(S) |-> M(i)]
           gone == Read(readings, {"impossible"})
           more == CarryAll(p.risks, S, gone)
           q == Rewritten(p, readings)
           can == Read(readings, {"fine", "rebound"})
           lost == Read(readings, {"lost"})
<1>1. /\ p = [scenarios |-> S, risks |-> p.risks, waves |-> p.waves]
      /\ DOMAIN S = 1..Len(S) /\ Len(S) \in Nat
      /\ \A i \in 1..Len(S) : S[i].id \in Ids
      /\ \A r \in p.risks : IsRisk(r)
  BY SequenceIs DEF GoodPlan, GoodList, IsScenario, IsSequence
<1>2. q = [scenarios |-> Q, risks |-> more, waves |-> p.waves]
  <2>1. q = [p EXCEPT !.scenarios = Q, !.risks = more]
    BY <1>1 DEF Rewritten
  <2> HIDE DEF Q, q, more
  <2> QED
    BY <1>1, <2>1
<1>3. /\ p.risks \subseteq more /\ \A r \in more : IsRisk(r)
      /\ \A k \in 1..Len(S) : S[k].id \in gone => Stands(more, S[k].id)
  <2> HIDE DEF S, gone
  <2> QED
    BY <1>1, CarryAllIs
<1> HIDE DEF more
<1>4. ASSUME NEW i \in 1..Len(S)
      PROVE  /\ Became(S[i], M(i), more) /\ M(i).id = S[i].id /\ M(i).attempts = S[i].attempts
             /\ IsBody(M(i).body)
             /\ IsActive(M(i)) <=> S[i].id \in Read(readings, {"fine", "rebound", "lost"})
             /\ S[i].id \in can =>
                  Reading(repo, M(i).body, Category[M(i).id], FALSE).kind \in {"fine", "held"}
  <2>1. p.scenarios[i].id \in Read(readings, {"impossible"}) => Stands(more, p.scenarios[i].id)
    BY <1>3
  <2> QED
    BY <2>1, AsReadIs
<1> HIDE DEF M, gone
<1>5. /\ \A i \in 1..Len(S) : Q[i] = M(i)
      /\ Q = [i \in 1..Len(S) |-> Q[i]]
  OBVIOUS
<1> HIDE DEF Q, q
<1>6. GoodPlan(q) /\ SameList(p, q)
  BY <1>2, <1>3, <1>4, <1>5, RewrittenGood
<1>7. q.scenarios = Q /\ q.risks = more /\ q.waves = p.waves
  BY <1>2
<1>8. \A i \in 1..Len(S) : Q[i].id = S[i].id /\ Q[i].attempts = S[i].attempts
  BY <1>4, <1>5
<1>9. Bodies(q)
  BY <1>4, <1>5, <1>6, <1>7 DEF Bodies, SameList
<1>10. Settles(q, can, repo)
  <2>1. SUFFICES ASSUME NEW i \in 1..Len(q.scenarios), q.scenarios[i].id \in can
                 PROVE  Reading(repo, q.scenarios[i].body, Category[q.scenarios[i].id], FALSE).kind
                          \in {"fine", "held"}
    BY DEF Settles
  <2>2. i \in 1..Len(S) /\ q.scenarios[i] = M(i) /\ S[i].id \in can
    BY <1>4, <1>5, <1>6, <1>7, <2>1 DEF SameList
  <2> QED
    BY <1>4, <2>2
<1>11. Accounts(q, can, lost)
  <2>1. /\ \A id : id \in ActiveIds(q) <=> \E i \in 1..Len(S) : Q[i].id = id /\ IsActive(Q[i])
        /\ \A id : id \in ActiveIds(p) => \E i \in 1..Len(S) : S[i].id = id
    BY <1>6, <1>7, ListedIs DEF SameList
  <2>2. \A id : /\ id \in can => id \in ActiveIds(p) /\ id \notin lost
                /\ id \in lost => id \in ActiveIds(p)
                /\ id \in Read(readings, {"fine", "rebound", "lost"}) <=> id \in can \/ id \in lost
    BY DEF Read, SoundReadings
  <2>3. \A i \in 1..Len(S) : IsActive(Q[i]) <=> S[i].id \in can \/ S[i].id \in lost
    BY <1>4, <1>5, <2>2
  <2>4. \A id : id \in ActiveIds(q) <=> id \in can \/ id \in lost
    <3> HIDE DEF S, can, lost
    <3> QED
      BY <1>8, <2>1, <2>2, <2>3
  <2> HIDE DEF can, lost
  <2> QED
    BY <2>2, <2>4 DEF Accounts
<1> HIDE DEF S
<1>12. \A i \in 1..Len(S) : q.scenarios[i].attempts = S[i].attempts
  BY <1>7, <1>8
<1> QED
  BY <1>6, <1>7, <1>9, <1>10, <1>11, <1>12 DEF q, S

\* What restore_from_store makes of a plan: the same scenarios, accounted for
\* and settled.
LEMMA RereadIs ==
  ASSUME NEW p, GoodPlan(p), Bodies(p), NEW readings, NEW repo, SoundReadings(readings, p, repo),
         wave' \in Nat
  PROVE  LET q == Reread(p, readings)
         IN  /\ GoodPlan(q) /\ SameList(p, q)
             /\ q = p \/ \E rec : rec.wave = wave' /\ q.waves = Append(p.waves, rec)
             /\ \A i \in 1..Len(p.scenarios) : q.scenarios[i].attempts = p.scenarios[i].attempts
             /\ Accounts(q, Read(readings, {"fine", "rebound"}), Lost(readings))
             /\ Bodies(q) /\ Settles(q, Read(readings, {"fine", "rebound"}), repo)
<1> DEFINE can == Read(readings, {"fine", "rebound"})
           q == Reread(p, readings)
<1>1. CASE Read(readings, {"fine"}) = DOMAIN readings
  <2>1. q = p
    BY <1>1 DEF Reread
  <2>2. /\ \A id \in ActiveIds(p) : readings[id].kind = "fine"
        /\ can = ActiveIds(p) /\ Lost(readings) = {}
    BY <1>1 DEF Read, Lost, SoundReadings
  <2>3. Settles(p, can, repo)
    <3>1. ASSUME NEW i \in 1..Len(p.scenarios), p.scenarios[i].id \in can
          PROVE  Reading(repo, p.scenarios[i].body, Category[p.scenarios[i].id], FALSE).kind
                   \in {"fine", "held"}
      <4> DEFINE r == readings[p.scenarios[i].id]
      <4>1. p.scenarios[i].id \in ActiveIds(p) /\ r.kind = "fine"
        BY <2>2, <3>1
      <4>2. /\ r.kind = "fine" => r.body = p.scenarios[i].body
            /\ r.kind \in {"fine", "rebound"} =>
                 Reading(repo, r.body, Category[p.scenarios[i].id], FALSE).kind \in {"fine", "held"}
        BY <4>1, Zenon DEF SoundReadings
      <4> HIDE DEF r
      <4> QED
        BY <4>1, <4>2
    <3> QED
      BY <3>1, Zenon DEF Settles
  <2>4. Accounts(p, can, Lost(readings))
    BY <2>2 DEF Accounts
  <2>5. SameList(p, p)
    BY DEF SameList
  <2> HIDE DEF q, can
  <2> QED
    BY <2>1, <2>3, <2>4, <2>5 DEF q, can
<1>2. CASE Read(readings, {"fine"}) # DOMAIN readings
  <2> DEFINE r == Rewritten(p, readings)
             rec == WaveRecord(wave', Lost(readings) # {})
  <2>1. q = Recorded(r, rec) /\ rec.wave = wave'
    BY <1>2 DEF Reread, Rewritten, WaveRecord
  <2>2. /\ GoodPlan(r) /\ SameList(p, r) /\ r.waves = p.waves
        /\ \A i \in 1..Len(p.scenarios) : r.scenarios[i].attempts = p.scenarios[i].attempts
        /\ Accounts(r, can, Lost(readings))
        /\ Bodies(r) /\ Settles(r, can, repo)
    BY RewrittenIs DEF Lost
  <2> HIDE DEF r, rec, q, can
  <2>3. GoodPlan(q) /\ q.scenarios = r.scenarios /\ q.waves = Append(p.waves, rec)
    BY <2>1, <2>2, RecordedIs
  <2>4. ActiveIds(q) = ActiveIds(r)
    BY <2>3 DEF ActiveIds
  <2> QED
    BY <2>1, <2>2, <2>3, <2>4 DEF SameList, Accounts, Bodies, Settles, q, can
<1> HIDE DEF q, can
<1> QED
  BY <1>1, <1>2 DEF q, can

\* What a process reads of its plan.
LEMMA ReadingsSound ==
  ASSUME NEW p, GoodPlan(p), Bodies(p)
  PROVE  SoundReadings(Readings(p), p, repository)
<1> DEFINE R == Readings(p)
<1>1. DOMAIN R = ActiveIds(p)
  BY DEF Readings
<1>2. ASSUME NEW i \in 1..Len(p.scenarios), p.scenarios[i].id \in ActiveIds(p)
      PROVE  \E met : R[p.scenarios[i].id] =
               Reading(repository, p.scenarios[i].body, Category[p.scenarios[i].id], met)
  BY <1>2, ByIdIs DEF Readings
<1> HIDE DEF R
<1>3. ASSUME NEW i \in 1..Len(p.scenarios), p.scenarios[i].id \in ActiveIds(p)
      PROVE  LET r == R[p.scenarios[i].id]
             IN  /\ r.kind \in {"fine", "rebound", "lost", "impossible", "held"}
                 /\ IsBody(r.body)
                 /\ r.kind = "fine" => r.body = p.scenarios[i].body
                 /\ r.kind \in {"fine", "rebound"} =>
                      Reading(repository, r.body, Category[p.scenarios[i].id], FALSE).kind
                        \in {"fine", "held"}
  <2>1. PICK met : R[p.scenarios[i].id] =
               Reading(repository, p.scenarios[i].body, Category[p.scenarios[i].id], met)
    BY <1>2, <1>3
  <2>2. PICK b : b = p.scenarios[i].body /\ IsBody(b)
    BY DEF Bodies
  <2>3. PICK category : category = Category[p.scenarios[i].id]
    OBVIOUS
  <2>4. LET r == Reading(repository, b, category, met)
        IN  /\ r.kind \in {"fine", "rebound", "lost", "impossible", "held"}
            /\ IsBody(r.body)
            /\ r.kind = "fine" => r.body = b
            /\ r.kind \in {"fine", "rebound"} =>
                 Reading(repository, r.body, category, FALSE).kind \in {"fine", "held"}
    BY <2>2, ReadingIs
  <2> QED
    BY <2>1, <2>2, <2>3, <2>4
<1>4. SoundReadings(R, p, repository)
  BY <1>1, <1>3, Zenon DEF SoundReadings
<1> QED
  BY <1>4 DEF R

-----------------------------------------------------------------------------
(* The waves that were asked for.                                          *)

\* The highest recorded wave bounds whatever the records recall.
LEMMA HighestIs ==
  ASSUME NEW waves, AreRecords(waves)
  PROVE  /\ HighestWave(waves) \in Nat
         /\ \A i \in 1..Len(waves) : waves[i].wave <= HighestWave(waves)
         /\ \A n \in Nat : Recalls(waves, n) => n <= HighestWave(waves)
<1> DEFINE tops(k, n) == /\ n \in Nat /\ (n = 0 \/ \E i \in 1..k : n = waves[i].wave)
                         /\ \A i \in 1..k : waves[i].wave <= n
           T == {k \in Nat : k <= Len(waves) => \E n : tops(k, n)}
           numbers == {waves[i].wave : i \in DOMAIN waves} \cup {0}
<1>1. /\ Len(waves) \in Nat /\ DOMAIN waves = 1..Len(waves)
      /\ \A i \in 1..Len(waves) : waves[i].wave \in Nat
  BY SequenceIs DEF AreRecords, IsSequence
<1>2. 0 \in T
  <2>1. tops(0, 0)
    OBVIOUS
  <2> QED
    BY <2>1
<1>3. ASSUME NEW k \in T PROVE k + 1 \in T
  <2>1. k \in Nat /\ k + 1 \in Nat
    BY <1>3
  <2>2. SUFFICES ASSUME k + 1 <= Len(waves) PROVE \E n : tops(k + 1, n)
    BY <2>1
  <2>3. PICK n : tops(k, n)
    BY <1>1, <1>3, <2>1, <2>2
  <2>4. PICK m \in Nat : m = waves[k + 1].wave
    BY <1>1, <2>1, <2>2
  <2>5. /\ k + 1 \in 1..(k + 1) /\ \A i \in 1..(k + 1) : i = k + 1 \/ i \in 1..k
        /\ \A i \in 1..k : i \in 1..(k + 1) /\ i \in 1..Len(waves)
    BY <1>1, <2>1, <2>2
  <2>6. CASE m <= n
    <3>1. tops(k + 1, n)
      BY <2>3, <2>4, <2>5, <2>6
    <3> QED
      BY <3>1
  <2>7. CASE n <= m
    <3>1. \A i \in 1..k : waves[i].wave <= m
      BY <1>1, <2>3, <2>4, <2>5, <2>7
    <3>2. tops(k + 1, m)
      BY <2>4, <2>5, <3>1
    <3> QED
      BY <3>2
  <2> QED
    BY <2>3, <2>4, <2>6, <2>7
<1> HIDE DEF T
<1>4. Len(waves) \in T
  BY <1>1, <1>2, <1>3, NaturalsByInduction
<1>5. PICK n : tops(Len(waves), n)
  BY <1>1, <1>4 DEF T
<1>6. \E m \in numbers : \A x \in numbers : x <= m
  <2>1. n \in numbers
    BY <1>1, <1>5
  <2>2. \A x \in numbers : x <= n
    BY <1>1, <1>5
  <2> HIDE DEF numbers, tops
  <2> QED
    BY <2>1, <2>2
<1>7. HighestWave(waves) \in numbers /\ \A x \in numbers : x <= HighestWave(waves)
  <2>1. HighestWave(waves) = CHOOSE m \in numbers : \A x \in numbers : x <= m
    BY DEF HighestWave
  <2> HIDE DEF numbers
  <2> QED
    BY <1>6, <2>1
<1>8. HighestWave(waves) \in Nat /\ \A i \in 1..Len(waves) : waves[i].wave <= HighestWave(waves)
  BY <1>1, <1>7
<1>9. ASSUME NEW m \in Nat, Recalls(waves, m) PROVE m <= HighestWave(waves)
  BY <1>1, <1>8, <1>9 DEF Recalls
<1> QED
  BY <1>8, <1>9

\* What is on disk and in the plan remembers the waves that were asked for: the
\* records of them, unless one was lost (t), the plan, unless that was lost (l), and
\* a running process (up), whose records begin after the o-th.
Remembered(files, waves, o, w, s, t, l, up) ==
  /\ o \in Nat /\ w \in Nat /\ s \in Nat /\ t \in BOOLEAN /\ l \in BOOLEAN
  /\ AreRecords(files)
  /\ s <= MaxWaves \/ (t /\ l)
  /\ up => /\ o <= Len(files)
           /\ ~(t /\ l) => s <= w
           /\ ~t => o = Len(files) - Len(waves)
  /\ ~t => Recalls(files, s) /\ LastOf(files, waves)
  /\ ~l => Recalls(waves, s)

\* A process that goes down forgets only what it had in memory.
LEMMA DownRemembers ==
  ASSUME NEW files, NEW waves, NEW o, NEW w, NEW s, NEW t, NEW l, NEW up, NEW less \in BOOLEAN,
         less => up, Remembered(files, waves, o, w, s, t, l, up)
  PROVE  Remembered(files, waves, o, w, s, t, l, less)
BY Zenon DEF Remembered

\* Records that contain others recall what they recall.
LEMMA MoreRecalls ==
  ASSUME NEW waves, AreRecords(waves), NEW more, AreRecords(more),
         \A i \in 1..Len(waves) : \E j \in 1..Len(more) : more[j] = waves[i],
         NEW n, Recalls(waves, n)
  PROVE  Recalls(more, n)
BY DEF Recalls

\* What is written has at most one more wave on record, which is the wave that was
\* asked for.
Onto(waves, more, w, s, v, r) ==
  /\ more = waves \/ \E rec : more = Append(waves, rec)
  /\ v \in Nat /\ r \in Nat
  /\ \/ r = s /\ w <= v
     \/ /\ w < MaxWaves /\ r = s + 1 /\ v = w + 1
        /\ \E rec : rec.wave = v /\ more = Append(waves, rec)

\* All the records are written, or all but the last.
Through(more, k) == k \in {Len(more), Len(more) - 1} /\ k >= 0

\* persist keeps the spent waves remembered, also when it is cut short.
LEMMA PersistRemembers ==
  ASSUME NEW files, NEW waves, NEW o, NEW w, NEW s, NEW t, NEW l,
         Remembered(files, waves, o, w, s, t, l, TRUE),
         AreRecords(waves), NEW more, AreRecords(more),
         NEW v, NEW r, Onto(waves, more, w, s, v, r), NEW k, Through(more, k)
  PROVE  Remembered(Overlaid(files, o, more, k), more, o, v, r, (t \/ k < Len(more)), l, TRUE)
<1> DEFINE f == Overlaid(files, o, more, k)
           u == t \/ k < Len(more)
<1>0. /\ more = waves \/ \E rec : more = Append(waves, rec)
      /\ v \in Nat /\ r \in Nat
      /\ \/ r = s /\ w <= v
         \/ /\ w < MaxWaves /\ r = s + 1 /\ v = w + 1
            /\ \E rec : rec.wave = v /\ more = Append(waves, rec)
      /\ k \in {Len(more), Len(more) - 1} /\ k >= 0
  BY DEF Onto, Through
<1>1. /\ o \in Nat /\ w \in Nat /\ s \in Nat /\ t \in BOOLEAN /\ l \in BOOLEAN
      /\ AreRecords(files) /\ Len(files) \in Nat /\ Len(more) \in Nat /\ Len(waves) \in Nat
      /\ IsSequence(waves) /\ o <= Len(files) /\ k \in 0..Len(more)
      /\ MaxWaves \in Nat
  <2>1. /\ o \in Nat /\ w \in Nat /\ s \in Nat /\ t \in BOOLEAN /\ l \in BOOLEAN
        /\ AreRecords(files) /\ o <= Len(files)
    BY DEF Remembered
  <2>2. Len(files) \in Nat /\ Len(more) \in Nat /\ Len(waves) \in Nat /\ IsSequence(waves)
    BY <2>1 DEF AreRecords, IsSequence
  <2>3. k \in 0..Len(more)
    BY <1>0, <2>2
  <2> QED
    BY <2>1, <2>2, <2>3, PlannerAssumption
<1>2. /\ s <= MaxWaves \/ (t /\ l)
      /\ ~(t /\ l) => s <= w
      /\ ~t => o = Len(files) - Len(waves)
      /\ ~t => Recalls(files, s) /\ LastOf(files, waves)
      /\ ~l => Recalls(waves, s)
  BY DEF Remembered
<1>3. AreRecords(f) /\ Len(files) <= Len(f) /\ Len(f) \in Nat
  <2>1. AreRecords(f) /\ Len(files) <= Len(f)
    BY <1>1, OverlaidIs
  <2> HIDE DEF f
  <2> QED
    BY <2>1 DEF AreRecords, IsSequence
<1>4. ASSUME ~u
      PROVE  /\ ~t /\ LastOf(f, more) /\ o = Len(f) - Len(more)
             /\ \A i \in 1..Len(files) : \E j \in 1..Len(f) : f[j] = files[i]
             /\ \A j \in 1..Len(more) : \E i \in 1..Len(f) : f[i] = more[j]
  <2>1. ~t /\ k = Len(more)
    BY <1>0, <1>1, <1>4
  <2>2. f = Overlaid(files, Len(files) - Len(waves), more, Len(more)) /\ o = Len(files) - Len(waves)
    BY <1>2, <2>1
  <2>3. LastOf(files, waves) /\ (more = waves \/ \E rec : more = Append(waves, rec))
    BY <1>0, <1>2, <2>1
  <2>4. PICK b, g : b = Len(files) - Len(waves) /\ g = Overlaid(files, b, more, Len(more))
    OBVIOUS
  <2> HIDE DEF f, u
  <2>5. WrittenOver(files, waves, more, b, g)
    BY <1>1, <2>3, <2>4 DEF WrittenOver
  <2>6. /\ LastOf(g, more) /\ b = Len(g) - Len(more)
        /\ \A i \in 1..Len(files) : i \in 1..Len(g) /\ g[i] = files[i]
        /\ \A j \in 1..Len(more) : \E i \in 1..Len(g) : g[i] = more[j]
    BY <2>5, OverlaidWhole
  <2>7. f = g /\ o = b
    BY <2>2, <2>4
  <2> QED
    BY <2>1, <2>6, <2>7
<1>5. \A i \in 1..Len(waves) : \E j \in 1..Len(more) : more[j] = waves[i]
  <2>1. CASE more = waves
    BY <2>1
  <2>2. CASE \E rec : more = Append(waves, rec)
    <3>1. PICK rec : more = Append(waves, rec)
      BY <2>2
    <3>2. Len(more) = Len(waves) + 1 /\ \A i \in 1..Len(waves) : more[i] = waves[i]
      BY <1>1, <3>1, AppendIs
    <3>3. \A i \in 1..Len(waves) : i \in 1..Len(more)
      BY <1>1, <3>2
    <3> QED
      BY <3>2, <3>3
  <2> QED
    BY <1>0, <2>1, <2>2
<1>6. ~l => Recalls(more, s)
  BY <1>2, <1>5, MoreRecalls
<1> HIDE DEF f
<1>7. ~u => Recalls(f, s)
  BY <1>1, <1>2, <1>3, <1>4, MoreRecalls
<1>8. r <= MaxWaves \/ (u /\ l)
  <2>1. CASE r = s
    BY <1>2, <2>1
  <2>2. CASE r = s + 1 /\ w < MaxWaves
    <3>1. CASE t /\ l
      BY <3>1
    <3>2. CASE ~(t /\ l)
      BY <1>1, <1>2, <2>2, <3>2
    <3> QED
      BY <3>1, <3>2
  <2> QED
    BY <1>0, <2>1, <2>2
<1>9. ~(t /\ l) => r <= v
  BY <1>0, <1>1, <1>2
<1>10. \/ r = s
       \/ \E j \in 1..Len(more) : more[j].wave = v
  <2>1. SUFFICES ASSUME NEW rec, rec.wave = v, more = Append(waves, rec)
                 PROVE  \E j \in 1..Len(more) : more[j].wave = v
    BY <1>0
  <2>2. Len(more) = Len(waves) + 1 /\ more[Len(waves) + 1] = rec
    BY <1>1, <2>1, AppendIs
  <2>3. Len(waves) + 1 \in 1..Len(more)
    BY <1>1, <2>2
  <2> QED
    BY <2>1, <2>2, <2>3
<1>11. ~l => Recalls(more, r)
  <2>1. CASE r = s
    BY <1>6, <2>1
  <2>2. CASE \E j \in 1..Len(more) : more[j].wave = v
    BY <1>0, <1>9, <2>2 DEF Recalls
  <2> QED
    BY <1>10, <2>1, <2>2
<1>12. ~u => Recalls(f, r)
  <2>1. CASE r = s
    BY <1>7, <2>1
  <2>2. CASE (\E j \in 1..Len(more) : more[j].wave = v) /\ ~u
    <3>1. \E i \in 1..Len(f) : f[i].wave = v
      BY <1>4, <2>2
    <3>2. ~t
      BY <1>4, <2>2
    <3> QED
      BY <1>0, <1>9, <3>1, <3>2 DEF Recalls
  <2> QED
    BY <1>10, <2>1, <2>2
<1>13. o <= Len(f)
  BY <1>1, <1>3
<1>14. u \in BOOLEAN /\ (~(u /\ l) => r <= v)
  BY <1>9
<1>15. ~u => o = Len(f) - Len(more) /\ LastOf(f, more)
  BY <1>4
<1> HIDE DEF u
<1>16. Remembered(f, more, o, v, r, u, l, TRUE)
  BY <1>0, <1>1, <1>3, <1>8, <1>11, <1>12, <1>13, <1>14, <1>15 DEF Remembered
<1> QED
  BY <1>16 DEF f, u

-----------------------------------------------------------------------------
\* A process that starts takes up the waves from the plan and the records.
OffsetOf(files, waves) == IF Len(files) > Len(waves) THEN Len(files) - Len(waves) ELSE 0

\* A process that counts from the highest record remembers what was spent.
LEMMA StartRemembers ==
  ASSUME NEW files, NEW waves, AreRecords(waves), NEW o, NEW w, NEW s, NEW t, NEW l,
         Remembered(files, waves, o, w, s, t, l, FALSE),
         NEW v \in Nat, \A n \in Nat : Recalls(files, n) \/ Recalls(waves, n) => n <= v
  PROVE  Remembered(files, waves, OffsetOf(files, waves), v, s, t, l, TRUE)
<1>1. /\ s \in Nat /\ t \in BOOLEAN /\ l \in BOOLEAN /\ AreRecords(files)
      /\ s <= MaxWaves \/ (t /\ l)
      /\ ~t => Recalls(files, s) /\ LastOf(files, waves)
      /\ ~l => Recalls(waves, s)
  BY DEF Remembered
<1>2. Len(files) \in Nat /\ Len(waves) \in Nat
  BY <1>1 DEF AreRecords, IsSequence
<1>3. /\ OffsetOf(files, waves) \in Nat /\ OffsetOf(files, waves) <= Len(files)
      /\ Len(waves) <= Len(files) => OffsetOf(files, waves) = Len(files) - Len(waves)
  BY <1>2 DEF OffsetOf
<1>4. ~t => OffsetOf(files, waves) = Len(files) - Len(waves)
  BY <1>1, <1>3 DEF LastOf
<1>5. ~(t /\ l) => s <= v
  BY <1>1
<1> QED
  BY <1>1, <1>3, <1>4, <1>5 DEF Remembered

\* The plan is lost.
LEMMA LossRemembers ==
  ASSUME NEW files, NEW waves, NEW o, NEW w, NEW s, NEW t, NEW l,
         Remembered(files, waves, o, w, s, t, l, FALSE), NEW b \in Nat, NEW v \in Nat
  PROVE  Remembered(files, <<>>, b, v, s, t, TRUE, FALSE)
<1>1. /\ s \in Nat /\ t \in BOOLEAN /\ l \in BOOLEAN /\ AreRecords(files)
      /\ s <= MaxWaves \/ (t /\ l)
      /\ ~t => Recalls(files, s)
  BY DEF Remembered
<1>2. Len(files) \in Nat /\ Len(<<>>) = 0
  BY <1>1 DEF AreRecords, IsSequence
<1>3. LastOf(files, <<>>)
  BY <1>2 DEF LastOf
<1> QED
  BY <1>1, <1>3 DEF Remembered

-----------------------------------------------------------------------------
(* The inductive invariant: the plan in memory is the plan that is         *)
(* written; what a scenario and those it replaced were charged is counted  *)
(* in its attempts; what was committed is listed; what was accepted passed *)
(* and was covered.                                                        *)
PlanWritten ==
  /\ GoodPlan(plan) /\ Bodies(plan)
  /\ file = [state |-> file.state, plan |-> plan]
  /\ file.state = "absent" => plan = Empty

Answered ==
  at = "accepted" =>
    /\ unbuildable = {} /\ HeldIds(plan) = {} /\ Required \subseteq passed
    /\ \A r \in plan.risks : Blocks(r) => Covered(r.category)

WavesRemembered ==
  Remembered(waveFiles, plan.waves, offset, wave, spent, torn, lostPlan, (at # "down"))

PlannerInv ==
  /\ PlanWritten /\ Answered /\ WavesRemembered
  /\ Counted(charged, plan)
  /\ ~lostPlan => committed \subseteq Listed(plan)
  /\ at # "down" => Accounts(plan, compiled, unbuildable) /\ Settles(plan, compiled, repository)

\* The waves of a plan are records.
LEMMA PlanRecords == ASSUME NEW p, GoodPlan(p) PROVE AreRecords(p.waves)
BY DEF GoodPlan, AreRecords

\* A step that writes the plan.
LEMMA WriteStep ==
  ASSUME PlannerInv, NEW o, NEW w,
         Remembered(waveFiles, plan.waves, o, w, spent, torn, lostPlan, TRUE), offset' = o,
         NEW q, q = plan', GoodPlan(q), Bodies(q), Listed(plan) \subseteq Listed(q),
         NEW v, NEW r, wave' = v, spent' = r, Onto(plan.waves, q.waves, w, spent, v, r),
         lostPlan' = lostPlan, Counted(charged', q),
         Accounts(q, compiled', unbuildable'), Settles(q, compiled', repository'),
         NEW next, next # "accepted", Persist(q, next)
  PROVE  PlannerInv'
<1>1. PICK k :
        /\ Through(q.waves, k)
        /\ file' = [state |-> "readable", plan |-> q]
        /\ waveFiles' = Overlaid(waveFiles, o, q.waves, k)
        /\ committed' = committed \cup Listed(q)
        /\ torn' = (torn \/ k < Len(q.waves))
        /\ at' = IF k = Len(q.waves) THEN next ELSE "down"
  BY Zenon DEF Persist, WaveFilesAfter, Overlaid, Through
<1>2. AreRecords(plan.waves) /\ AreRecords(q.waves)
  BY PlanRecords DEF PlannerInv, PlanWritten
<1>3. Remembered(Overlaid(waveFiles, o, q.waves, k), q.waves, o, v, r,
                 (torn \/ k < Len(q.waves)), lostPlan, TRUE)
  BY <1>1, <1>2, PersistRemembers, Zenon
<1>4. Remembered(waveFiles', q.waves, offset', wave', spent', torn', lostPlan', TRUE)
  BY <1>1, <1>3, Zenon
<1>5. WavesRemembered'
  <2>1. PICK up \in BOOLEAN : up = (at' # "down")
    OBVIOUS
  <2>2. Remembered(waveFiles', q.waves, offset', wave', spent', torn', lostPlan', up)
    BY <1>4, DownRemembers, Zenon
  <2> QED
    BY <2>1, <2>2, Zenon DEF WavesRemembered
<1>6. PlanWritten'
  <2>1. file' = [state |-> file'.state, plan |-> q] /\ file'.state # "absent"
    BY <1>1
  <2> QED
    BY <2>1, Zenon DEF PlanWritten
<1>7. at' # "accepted"
  BY <1>1, Zenon
<1>8. Answered'
  BY <1>7, Zenon DEF Answered
<1>9. ~lostPlan' => committed' \subseteq Listed(q)
  BY <1>1 DEF PlannerInv
<1>10. /\ Counted(charged', plan') /\ Accounts(plan', compiled', unbuildable')
       /\ Settles(plan', compiled', repository')
       /\ ~lostPlan' => committed' \subseteq Listed(plan')
  BY <1>9, Zenon
<1> QED
  BY <1>5, <1>6, <1>8, <1>10, Zenon DEF PlannerInv

\* A step that leaves the plan and what is on disk alone.
LEMMA PlannerQuietStep ==
  ASSUME PlannerInv,
         UNCHANGED <<plan, compiled, unbuildable, wave, offset, file, waveFiles, repository,
                     committed, charged, spent, torn, lostPlan>>,
         at' # "down" => at # "down", Answered'
  PROVE  PlannerInv'
<1>1. WavesRemembered'
  <2>1. PICK up \in BOOLEAN : up = (at' # "down")
    OBVIOUS
  <2>2. Remembered(waveFiles, plan.waves, offset, wave, spent, torn, lostPlan, up)
    BY <2>1, DownRemembers, Zenon DEF PlannerInv, WavesRemembered
  <2> QED
    BY <2>1, <2>2, Zenon DEF WavesRemembered
<1>2. PlanWritten'
  BY Zenon DEF PlannerInv, PlanWritten
<1> QED
  BY <1>1, <1>2, Zenon DEF PlannerInv

-----------------------------------------------------------------------------
(* The steps.                                                              *)

\* What the invariant says of a running process, in one place.
LEMMA RunningIs ==
  ASSUME PlannerInv
  PROVE  /\ GoodPlan(plan) /\ Bodies(plan) /\ AreRecords(plan.waves)
         /\ wave \in Nat /\ spent \in Nat /\ MaxWaves \in Nat /\ MaxAttempts \in Nat
         /\ Counted(charged, plan)
         /\ at # "down" =>
              /\ Accounts(plan, compiled, unbuildable) /\ Settles(plan, compiled, repository)
              /\ compiled \subseteq Listed(plan)
              /\ Remembered(waveFiles, plan.waves, offset, wave, spent, torn, lostPlan, TRUE)
<1>1. GoodPlan(plan) /\ Bodies(plan) /\ AreRecords(plan.waves) /\ Counted(charged, plan)
  BY PlanRecords DEF PlannerInv, PlanWritten
<1>2. wave \in Nat /\ spent \in Nat /\ MaxWaves \in Nat /\ MaxAttempts \in Nat
  BY PlannerAssumption DEF PlannerInv, WavesRemembered, Remembered
<1>3. ASSUME at # "down"
      PROVE  /\ Accounts(plan, compiled, unbuildable) /\ Settles(plan, compiled, repository)
             /\ compiled \subseteq Listed(plan)
             /\ Remembered(waveFiles, plan.waves, offset, wave, spent, torn, lostPlan, TRUE)
  <2>1. Accounts(plan, compiled, unbuildable) /\ Settles(plan, compiled, repository)
    BY <1>3 DEF PlannerInv
  <2>2. ActiveIds(plan) \subseteq Listed(plan)
    BY <1>1, ListedIs
  <2>3. PICK up \in BOOLEAN : up = (at # "down")
    OBVIOUS
  <2>4. Remembered(waveFiles, plan.waves, offset, wave, spent, torn, lostPlan, up)
    BY <2>3, Zenon DEF PlannerInv, WavesRemembered
  <2>5. up = TRUE
    BY <1>3, <2>3
  <2> QED
    BY <2>1, <2>2, <2>4, <2>5 DEF Accounts
<1> QED
  BY <1>1, <1>2, <1>3

\* The plan with one more wave on record lists what it listed.
LEMMA RecordedLists ==
  ASSUME NEW p, GoodPlan(p), NEW rec, rec.wave \in Nat, NEW repo
  PROVE  LET q == Recorded(p, rec)
         IN  /\ GoodPlan(q) /\ Lists(p, q, repo) /\ q.waves = Append(p.waves, rec)
<1> DEFINE q == Recorded(p, rec)
<1>1. GoodPlan(q) /\ q.scenarios = p.scenarios /\ q.waves = Append(p.waves, rec)
  BY RecordedIs
<1>2. Len(p.scenarios) \in Nat
  BY DEF GoodPlan, GoodList, IsSequence
<1> HIDE DEF q
<1>3. Lists(p, q, repo)
  BY <1>1, <1>2 DEF Lists
<1> QED
  BY <1>1, <1>3 DEF q

\* The wave that was refused, that got no answer, or that an answer came of.
LEMMA GenerateIs ==
  ASSUME PlannerInv, NEW stage, NEW limit, NEW budgeted \in BOOLEAN, NEW next,
         Generate(stage, limit, budgeted, next)
  PROVE  \E q, v, r : /\ q = plan' /\ v = wave' /\ r = spent'
                      /\ GoodPlan(q) /\ Lists(plan, q, repository)
                      /\ Onto(plan.waves, q.waves, wave, spent, v, r)
<1>1. /\ GoodPlan(plan) /\ wave \in Nat /\ spent \in Nat /\ MaxWaves \in Nat
  BY RunningIs
<1>2. PICK n \in Nat : n = wave + 1
  BY <1>1
<1>3. PICK m \in Nat : m = spent + 1
  BY <1>1
<1>4. wave <= n /\ wave <= wave /\ (~(wave >= MaxWaves) => wave < MaxWaves)
  BY <1>1, <1>2
<1>5. CASE plan' = Recorded(plan, WaveRecord(n, FALSE)) /\ wave' = wave /\ spent' = spent
  <2> DEFINE rec == WaveRecord(n, FALSE)
  <2>0. rec.wave = n
    BY DEF WaveRecord
  <2> HIDE DEF rec
  <2>1. PICK q : q = Recorded(plan, rec)
    OBVIOUS
  <2>2. GoodPlan(q) /\ Lists(plan, q, repository) /\ q.waves = Append(plan.waves, rec)
    BY <1>1, <2>0, <2>1, RecordedLists
  <2>3. Onto(plan.waves, q.waves, wave, spent, wave, spent)
    BY <1>1, <1>4, <2>0, <2>2, Zenon DEF Onto
  <2> QED
    BY <1>5, <2>0, <2>1, <2>2, <2>3, Zenon DEF rec
<1>6. ASSUME \/ budgeted /\ ~(wave >= MaxWaves) /\ spent' = m
             \/ ~budgeted /\ spent' = spent,
             wave' = n, NEW q, q = plan', GoodPlan(q), Lists(plan, q, repository),
             \E rec : rec.wave = n /\ q.waves = Append(plan.waves, rec)
      PROVE  \E v, r : /\ v = wave' /\ r = spent'
                       /\ Onto(plan.waves, q.waves, wave, spent, v, r)
  <2>1. CASE spent' = spent
    <3>1. Onto(plan.waves, q.waves, wave, spent, n, spent)
      BY <1>1, <1>4, <1>6, Zenon DEF Onto
    <3> QED
      BY <1>6, <2>1, <3>1, Zenon
  <2>2. CASE ~(wave >= MaxWaves) /\ spent' = m
    <3>1. Onto(plan.waves, q.waves, wave, spent, n, m)
      BY <1>2, <1>3, <1>4, <1>6, <2>2, Zenon DEF Onto
    <3> QED
      BY <1>6, <2>2, <3>1, Zenon
  <2> QED
    BY <1>6, <2>1, <2>2
<1>7. CASE /\ \/ budgeted /\ ~(wave >= MaxWaves) /\ spent' = m
              \/ ~budgeted /\ spent' = spent
           /\ wave' = n
           /\ plan' = Recorded(plan, WaveRecord(n, TRUE))
  <2> DEFINE rec == WaveRecord(n, TRUE)
  <2>0. rec.wave = n
    BY DEF WaveRecord
  <2> HIDE DEF rec
  <2>1. PICK q : q = Recorded(plan, rec)
    OBVIOUS
  <2>2. GoodPlan(q) /\ Lists(plan, q, repository) /\ q.waves = Append(plan.waves, rec)
    BY <1>1, <2>0, <2>1, RecordedLists
  <2> QED
    BY <1>6, <1>7, <2>0, <2>1, <2>2, Zenon DEF rec
<1>8. CASE /\ \/ budgeted /\ ~(wave >= MaxWaves) /\ spent' = m
              \/ ~budgeted /\ spent' = spent
           /\ wave' = n
           /\ \E answer \in Answers : \E allowed :
                plan' = AfterWave(plan, n, stage, answer, allowed)
  <2>1. PICK answer \in Answers : \E allowed : plan' = AfterWave(plan, n, stage, answer, allowed)
    BY <1>8
  <2>5. PICK allowed : plan' = AfterWave(plan, n, stage, answer, allowed)
    BY <2>1
  <2>2. PICK q : q = AfterWave(plan, n, stage, answer, allowed)
    OBVIOUS
  <2>3. /\ GoodPlan(q) /\ Lists(plan, q, repository)
        /\ \E rec : rec.wave = n /\ q.waves = Append(plan.waves, rec)
    BY <1>1, <2>2, AfterWaveGood
  <2> QED
    BY <1>6, <1>8, <2>5, <2>2, <2>3, Zenon
<1> QED
  BY <1>2, <1>3, <1>5, <1>7, <1>8 DEF Generate

-----------------------------------------------------------------------------
\* One lemma for each action: what _generate does,
LEMMA GenerateStep ==
  ASSUME PlannerInv, at # "down", NEW stage, NEW limit, NEW budgeted \in BOOLEAN,
         NEW next, next # "accepted", Generate(stage, limit, budgeted, next)
  PROVE  PlannerInv'
<1>1. /\ GoodPlan(plan) /\ Bodies(plan) /\ Counted(charged, plan)
      /\ Accounts(plan, compiled, unbuildable) /\ Settles(plan, compiled, repository)
      /\ compiled \subseteq Listed(plan)
      /\ Remembered(waveFiles, plan.waves, offset, wave, spent, torn, lostPlan, TRUE)
  BY RunningIs
<1>2. PICK q, v, r : /\ q = plan' /\ v = wave' /\ r = spent'
                     /\ GoodPlan(q) /\ Lists(plan, q, repository)
                     /\ Onto(plan.waves, q.waves, wave, spent, v, r)
  BY GenerateIs
<1>3. /\ compiled' = compiled \cup (Listed(q) \ Listed(plan))
      /\ charged' = Recharged(q)
      /\ unbuildable' = unbuildable /\ offset' = offset /\ repository' = repository
      /\ lostPlan' = lostPlan /\ Persist(q, next)
  <2>1. /\ compiled' = compiled \cup (Listed(plan') \ Listed(plan))
        /\ charged' = Recharged(plan')
        /\ unbuildable' = unbuildable /\ offset' = offset /\ repository' = repository
        /\ lostPlan' = lostPlan /\ Persist(plan', next)
    BY DEF Generate, Recharged
  <2> QED
    BY <1>2, <2>1, Zenon
<1>4. Listed(plan) \subseteq Listed(q)
  BY <1>1, <1>2, ListsIds, Zenon
<1>5. Bodies(q) /\ Settles(q, compiled \cup (Listed(q) \ Listed(plan)), repository)
  BY <1>1, <1>2, GrowBodies, Zenon
<1>6. Accounts(q, compiled \cup (Listed(q) \ Listed(plan)), unbuildable)
  BY <1>1, <1>2, GrowAccounts, Zenon
<1>7. Counted(Recharged(q), q)
  <2>1. Counted(charged, q)
    BY <1>1, <1>2, ListsCounted, Zenon
  <2> QED
    BY <1>2, <2>1, InheritedCounted, Zenon
<1>8. /\ Counted(charged', q) /\ Accounts(q, compiled', unbuildable')
      /\ Settles(q, compiled', repository')
  BY <1>3, <1>5, <1>6, <1>7, Zenon
<1> QED
  BY <1>1, <1>2, <1>3, <1>4, <1>5, <1>8, WriteStep, Zenon

\* A step that rewrites the plan's scenarios where they are, or leaves the plan.
LEMMA SameWaveStep ==
  ASSUME PlannerInv, at # "down", UNCHANGED <<offset, wave, spent, lostPlan, repository>>,
         NEW q, q = plan', GoodPlan(q), Bodies(q), Listed(plan) \subseteq Listed(q),
         q.waves = plan.waves \/ \E rec : q.waves = Append(plan.waves, rec),
         Counted(charged', q),
         Accounts(q, compiled', unbuildable'), Settles(q, compiled', repository'),
         NEW next, next # "accepted", Persist(q, next)
  PROVE  PlannerInv'
<1>1. wave \in Nat /\ spent \in Nat
      /\ Remembered(waveFiles, plan.waves, offset, wave, spent, torn, lostPlan, TRUE)
  BY RunningIs
<1>2. Onto(plan.waves, q.waves, wave, spent, wave, spent)
  <2>1. wave <= wave
    BY <1>1
  <2> QED
    BY <1>1, <2>1, Zenon DEF Onto
<1>3. offset' = offset /\ wave' = wave /\ spent' = spent /\ lostPlan' = lostPlan
  OBVIOUS
<1> QED
  BY <1>1, <1>2, <1>3, WriteStep, Zenon

\* what rederive_held charges and writes,
LEMMA RederiveStep ==
  ASSUME PlannerInv, Rederive
  PROVE  PlannerInv'
<1>1. /\ GoodPlan(plan) /\ Bodies(plan) /\ Counted(charged, plan)
      /\ Accounts(plan, compiled, unbuildable) /\ Settles(plan, compiled, repository)
  BY RunningIs DEF Rederive
<1>2. ASSUME NEW i \in 1..Len(plan.scenarios), plan.scenarios[i].id \in Pending
      PROVE  IsHeld(plan.scenarios[i]) /\ plan.scenarios[i].attempts < MaxAttempts
  <2>1. plan.scenarios[i].id \in HeldIds(plan)
        /\ ById(plan, plan.scenarios[i].id).attempts < MaxAttempts
    BY <1>2 DEF Pending
  <2>2. PICK j \in 1..Len(plan.scenarios) : plan.scenarios[j].id = plan.scenarios[i].id
                                            /\ IsHeld(plan.scenarios[j])
    BY <1>1, <2>1, ListedIs
  <2>3. j = i
    BY <1>1, <2>2 DEF GoodPlan, GoodList, Distinct
  <2> QED
    BY <1>1, <2>1, <2>2, <2>3, ByIdIs
<1>3. Pending \subseteq Listed(plan)
  <2>1. HeldIds(plan) \subseteq Listed(plan)
    BY <1>1, ListedIs
  <2> QED
    BY <2>1 DEF Pending
<1>4. PICK ids : ids = Pending
  OBVIOUS
<1> DEFINE q == Attempted(plan, ids)
<1>5. /\ GoodPlan(q) /\ SameList(plan, q) /\ q.waves = plan.waves
      /\ ActiveIds(q) = ActiveIds(plan)
      /\ \A i \in 1..Len(plan.scenarios) : q.scenarios[i].body = plan.scenarios[i].body
  BY <1>1, <1>2, <1>4, AttemptedIs
<1>6. Counted([id \in Ids |-> IF id \in ids THEN charged[id] + 1 ELSE charged[id]], q)
  BY <1>1, <1>2, <1>3, <1>4, AttemptedCounted
<1>7. /\ plan' = q
      /\ charged' = [id \in Ids |-> IF id \in ids THEN charged[id] + 1 ELSE charged[id]]
      /\ UNCHANGED <<compiled, unbuildable, wave, offset, repository, spent, lostPlan>>
      /\ Persist(q, "derive") /\ at # "down"
  <2>1. /\ plan' = Attempted(plan, Pending)
        /\ charged' = [id \in Ids |-> IF id \in Pending THEN charged[id] + 1 ELSE charged[id]]
        /\ UNCHANGED <<compiled, unbuildable, wave, offset, repository, spent, lostPlan>>
        /\ Persist(plan', "derive") /\ at = "rederive"
    BY DEF Rederive, Attempted
  <2>2. plan' = q
    BY <1>4, <2>1
  <2> HIDE DEF q
  <2>3. Persist(q, "derive")
    BY <2>1, <2>2, Zenon
  <2> QED
    BY <1>4, <2>1, <2>2, <2>3
<1> HIDE DEF q
<1>8. Listed(q) = Listed(plan)
  BY <1>1, <1>5, SameListed, Zenon
<1>9. Bodies(q) /\ Settles(q, compiled, repository) /\ Accounts(q, compiled, unbuildable)
  BY <1>1, <1>5 DEF Bodies, Settles, Accounts, SameList
<1>10. Counted(charged', q)
  BY <1>6, <1>7, Zenon
<1>11. Accounts(q, compiled', unbuildable') /\ Settles(q, compiled', repository')
  BY <1>7, <1>9, Zenon
<1>12. Listed(plan) \subseteq Listed(q) /\ "derive" # "accepted"
  BY <1>8
<1> QED
  BY <1>5, <1>7, <1>9, <1>10, <1>11, <1>12, SameWaveStep, Zenon

\* what the suite runs and withholds,
LEMMA ExecuteStep ==
  ASSUME PlannerInv, Execute
  PROVE  PlannerInv'
<1>1. /\ GoodPlan(plan) /\ Bodies(plan) /\ Counted(charged, plan) /\ wave \in Nat
      /\ Accounts(plan, compiled, unbuildable) /\ Settles(plan, compiled, repository)
  BY RunningIs DEF Execute
<1>2. PICK ids \in SUBSET compiled :
        /\ UNCHANGED <<unbuildable, wave, offset, repository, charged, spent, lostPlan>>
        /\ \/ /\ plan' = IF ids = {} THEN plan
                         ELSE Recorded(Hold(plan, ids), WaveRecord(wave, FALSE))
              /\ compiled' = compiled \ ids
              /\ Persist(plan', "judge")
           \/ /\ at' = "down"
              /\ UNCHANGED <<plan, compiled, file, waveFiles, committed, torn>>
  <2>1. PICK ok \in SUBSET compiled :
          \E met \in SUBSET {id \in compiled \ ok : Undeclared(ById(plan, id).body)} :
          LET ids == met \union {id \in compiled \ ok :
                                  Contradicted(repository, ById(plan, id).body)}
          IN /\ UNCHANGED <<unbuildable, wave, offset, repository, charged, spent, lostPlan>>
             /\ \/ /\ plan' = IF ids = {} THEN plan
                              ELSE Recorded(Hold(plan, ids), WaveRecord(wave, FALSE))
                   /\ compiled' = compiled \ ids
                   /\ Persist(plan', "judge")
                \/ /\ at' = "down"
                   /\ UNCHANGED <<plan, compiled, file, waveFiles, committed, torn>>
    BY DEF Execute
  <2>2. PICK met \in SUBSET {id \in compiled \ ok : Undeclared(ById(plan, id).body)} :
          LET ids == met \union {id \in compiled \ ok :
                                  Contradicted(repository, ById(plan, id).body)}
          IN /\ UNCHANGED <<unbuildable, wave, offset, repository, charged, spent, lostPlan>>
             /\ \/ /\ plan' = IF ids = {} THEN plan
                              ELSE Recorded(Hold(plan, ids), WaveRecord(wave, FALSE))
                   /\ compiled' = compiled \ ids
                   /\ Persist(plan', "judge")
                \/ /\ at' = "down"
                   /\ UNCHANGED <<plan, compiled, file, waveFiles, committed, torn>>
    BY <2>1
  <2> DEFINE those == met \union {id \in compiled \ ok :
                                   Contradicted(repository, ById(plan, id).body)}
  <2>3. those \in SUBSET compiled
    OBVIOUS
  <2> QED
    BY <2>2, <2>3
<1>3. CASE /\ at' = "down"
           /\ UNCHANGED <<plan, compiled, file, waveFiles, committed, torn>>
  <2>1. Answered'
    BY <1>3 DEF Answered
  <2> QED
    BY <1>2, <1>3, <2>1, PlannerQuietStep
<1>4. CASE /\ plan' = IF ids = {} THEN plan
                      ELSE Recorded(Hold(plan, ids), WaveRecord(wave, FALSE))
           /\ compiled' = compiled \ ids
           /\ Persist(plan', "judge")
  <2> DEFINE HeldOut(q) ==
        /\ GoodPlan(q) /\ SameList(plan, q)
        /\ q.waves = plan.waves \/ \E rec : q.waves = Append(plan.waves, rec)
        /\ \A i \in 1..Len(plan.scenarios) :
             /\ q.scenarios[i].attempts = plan.scenarios[i].attempts
             /\ q.scenarios[i].body = plan.scenarios[i].body
        /\ ActiveIds(q) = ActiveIds(plan) \ ids
  <2>1. PICK q : q = plan' /\ HeldOut(q)
    <3>1. CASE ids = {}
      <4>1. plan' = plan
        BY <1>4, <3>1
      <4>2. SameList(plan, plan)
        BY DEF SameList
      <4>3. HeldOut(plan)
        BY <1>1, <3>1, <4>2
      <4> QED
        BY <4>1, <4>3
    <3>2. CASE ids # {}
      <4> DEFINE h == Hold(plan, ids)
                 rec == WaveRecord(wave, FALSE)
                 q == Recorded(h, rec)
      <4>1. /\ GoodPlan(h) /\ SameList(plan, h) /\ h.waves = plan.waves
            /\ \A i \in 1..Len(plan.scenarios) :
                 /\ h.scenarios[i].attempts = plan.scenarios[i].attempts
                 /\ h.scenarios[i].body = plan.scenarios[i].body
            /\ ActiveIds(h) = ActiveIds(plan) \ ids
        BY <1>1, HoldIs
      <4>2. rec.wave = wave
        BY DEF WaveRecord
      <4>3. plan' = q
        BY <1>4, <3>2
      <4> HIDE DEF h, rec
      <4>4. GoodPlan(q) /\ q.scenarios = h.scenarios /\ q.waves = Append(h.waves, rec)
        BY <1>1, <4>1, <4>2, RecordedIs
      <4> HIDE DEF q
      <4>5. ActiveIds(q) = ActiveIds(h)
        BY <4>4 DEF ActiveIds
      <4>6. HeldOut(q)
        BY <4>1, <4>4, <4>5 DEF SameList
      <4> QED
        BY <4>3, <4>6
    <3> QED
      BY <3>1, <3>2
  <2>2. Listed(q) = Listed(plan)
    BY <1>1, <2>1, SameListed, Zenon
  <2>3. Bodies(q) /\ Settles(q, compiled \ ids, repository)
    BY <1>1, <2>1 DEF Bodies, Settles, SameList
  <2>4. Accounts(q, compiled \ ids, unbuildable)
    BY <1>1, <2>1 DEF Accounts
  <2>5. Counted(charged, q)
    BY <1>1, <2>1, <2>2 DEF Counted, SameList
  <2>6. /\ charged' = charged /\ compiled' = compiled \ ids /\ unbuildable' = unbuildable
        /\ repository' = repository
    BY <1>2, <1>4
  <2>7. Counted(charged', q) /\ Accounts(q, compiled', unbuildable')
        /\ Settles(q, compiled', repository')
    BY <2>3, <2>4, <2>5, <2>6, Zenon
  <2>8. UNCHANGED <<offset, wave, spent, lostPlan, repository>> /\ at # "down"
        /\ "judge" # "accepted" /\ Listed(plan) \subseteq Listed(q)
    BY <1>2, <2>2 DEF Execute
  <2>9. Persist(q, "judge")
    BY <1>4, <2>1, Zenon
  <2> QED
    BY <2>1, <2>3, <2>7, <2>8, <2>9, SameWaveStep, Zenon
<1> QED
  BY <1>2, <1>3, <1>4

\* and what a gap's wave is run for.
LEMMA WidenStep ==
  ASSUME PlannerInv, Widen
  PROVE  PlannerInv'
<1>1. /\ GoodPlan(plan) /\ Bodies(plan) /\ Counted(charged, plan)
      /\ Accounts(plan, compiled, unbuildable) /\ Settles(plan, compiled, repository)
  BY RunningIs DEF Widen
<1>2. /\ UNCHANGED <<offset, wave, spent, lostPlan, repository>>
      /\ plan' = plan /\ charged' = charged /\ compiled' = compiled
      /\ unbuildable' = unbuildable /\ repository' = repository
      /\ Persist(plan, "judge") /\ at # "down"
      /\ "judge" # "accepted"
  BY DEF Widen
<1>3. Counted(charged', plan) /\ Accounts(plan, compiled', unbuildable')
      /\ Settles(plan, compiled', repository')
  BY <1>1, <1>2, Zenon
<1>4. Listed(plan) \subseteq Listed(plan)
  OBVIOUS
<1> QED
  BY <1>1, <1>2, <1>3, <1>4, SameWaveStep, Zenon

-----------------------------------------------------------------------------
\* The empty plan satisfies what is asked of any.
LEMMA EmptyIs ==
  /\ GoodPlan(Empty) /\ Bodies(Empty) /\ Listed(Empty) = {} /\ ActiveIds(Empty) = {}
  /\ Empty.waves = <<>>
  /\ Accounts(Empty, {}, {}) /\ Settles(Empty, {}, repository)
<1>1. GoodPlan(Empty) /\ Empty.waves = <<>> /\ Empty.scenarios = <<>>
  BY EmptyGood DEF Empty
<1>2. 1..Len(Empty.scenarios) = {}
  BY <1>1, EmptySequence
<1>3. Listed(Empty) = {} /\ ActiveIds(Empty) = {}
  BY <1>1, <1>2, ListedIs
<1> QED
  BY <1>1, <1>2, <1>3 DEF Bodies, Accounts, Settles

\* No record recalls no wave.
LEMMA FromNothing ==
  \A n \in Nat : Recalls(<<>>, n) => n = 0
BY EmptySequence DEF Recalls

\* A process that starts from a written plan,
LEMMA StartRestoredStep ==
  ASSUME PlannerInv, StartRestored
  PROVE  PlannerInv'
<1>1. /\ GoodPlan(plan) /\ Bodies(plan) /\ Counted(charged, plan) /\ AreRecords(plan.waves)
      /\ file.plan = plan
  <2>1. file = [state |-> file.state, plan |-> plan]
    BY DEF PlannerInv, PlanWritten
  <2>2. file.plan = plan
    BY <2>1
  <2> QED
    BY <2>2, RunningIs
<1>2. AreRecords(waveFiles)
      /\ Remembered(waveFiles, plan.waves, offset, wave, spent, torn, lostPlan, FALSE)
  <2>1. PICK up \in BOOLEAN : up = (at # "down")
    OBVIOUS
  <2>2. Remembered(waveFiles, plan.waves, offset, wave, spent, torn, lostPlan, up)
    BY <2>1, Zenon DEF PlannerInv, WavesRemembered
  <2>3. Remembered(waveFiles, plan.waves, offset, wave, spent, torn, lostPlan, FALSE)
    BY <2>2, DownRemembers, Zenon
  <2> QED
    BY <2>3 DEF Remembered
<1>3. PICK v : v = IF HighestWave(plan.waves) > HighestWave(waveFiles)
                   THEN HighestWave(plan.waves) ELSE HighestWave(waveFiles)
  OBVIOUS
<1>4. v \in Nat /\ \A n \in Nat : Recalls(waveFiles, n) \/ Recalls(plan.waves, n) => n <= v
  <2>1. PICK a \in Nat : a = HighestWave(plan.waves)
    BY <1>1, HighestIs
  <2>2. PICK b \in Nat : b = HighestWave(waveFiles)
    BY <1>2, HighestIs
  <2>3. \A n \in Nat : /\ Recalls(plan.waves, n) => n <= a
                       /\ Recalls(waveFiles, n) => n <= b
    BY <1>1, <1>2, <2>1, <2>2, HighestIs
  <2>4. v = IF a > b THEN a ELSE b
    BY <1>3, <2>1, <2>2
  <2>5. v \in Nat /\ a <= v /\ b <= v
    BY <2>4
  <2>6. \A n \in Nat : (n <= a \/ n <= b) => n <= v
    BY <2>5
  <2> QED
    BY <2>3, <2>5, <2>6
<1>5. PICK o : o = OffsetOf(waveFiles, plan.waves)
  OBVIOUS
<1>6. Remembered(waveFiles, plan.waves, o, v, spent, torn, lostPlan, TRUE)
  BY <1>1, <1>2, <1>4, <1>5, StartRemembers, Zenon
<1>7. PICK readings : readings = Readings(plan)
  OBVIOUS
<1>8. SoundReadings(readings, plan, repository)
  BY <1>1, <1>7, ReadingsSound, Zenon
<1>9. /\ wave' = v /\ offset' = o
      /\ plan' = Reread(plan, readings)
      /\ compiled' = Read(readings, {"fine", "rebound"}) /\ unbuildable' = Lost(readings)
      /\ repository' = repository /\ charged' = charged /\ spent' = spent
      /\ lostPlan' = lostPlan
      /\ IF plan' = plan THEN at' = "plan" /\ UNCHANGED <<file, waveFiles, committed, torn>>
         ELSE Persist(plan', "plan")
  <2>1. /\ wave' = IF HighestWave(file.plan.waves) > HighestWave(waveFiles)
                   THEN HighestWave(file.plan.waves) ELSE HighestWave(waveFiles)
        /\ offset' = OffsetFor(file.plan)
        /\ Restore(file.plan, Readings(file.plan))
        /\ repository' = repository /\ charged' = charged /\ spent' = spent
        /\ lostPlan' = lostPlan
        /\ IF plan' = file.plan THEN at' = "plan" /\ UNCHANGED <<file, waveFiles, committed, torn>>
           ELSE Persist(plan', "plan")
    BY DEF StartRestored
  <2>2. wave' = v
    BY <1>1, <1>3, <2>1, Zenon
  <2>3. offset' = o
    BY <1>1, <1>5, <2>1, Zenon DEF OffsetFor, OffsetOf
  <2>4. Restore(plan, readings)
    BY <1>1, <1>7, <2>1, Zenon
  <2>5. /\ plan' = Reread(plan, readings)
        /\ compiled' = Read(readings, {"fine", "rebound"}) /\ unbuildable' = Lost(readings)
    BY <2>4, Zenon DEF Restore
  <2>6. IF plan' = plan THEN at' = "plan" /\ UNCHANGED <<file, waveFiles, committed, torn>>
        ELSE Persist(plan', "plan")
    BY <1>1, <2>1, Zenon
  <2> QED
    BY <2>1, <2>2, <2>3, <2>5, <2>6, Zenon
<1>10. PICK q : q = Reread(plan, readings)
  OBVIOUS
<1>11. /\ GoodPlan(q) /\ SameList(plan, q)
       /\ q = plan \/ \E rec : rec.wave = wave' /\ q.waves = Append(plan.waves, rec)
       /\ \A i \in 1..Len(plan.scenarios) : q.scenarios[i].attempts = plan.scenarios[i].attempts
       /\ Accounts(q, Read(readings, {"fine", "rebound"}), Lost(readings))
       /\ Bodies(q) /\ Settles(q, Read(readings, {"fine", "rebound"}), repository)
  <2>1. wave' \in Nat
    BY <1>4, <1>9, Zenon
  <2> QED
    BY <1>1, <1>8, <1>10, <2>1, RereadIs
<1>12. Listed(q) = Listed(plan)
  BY <1>1, <1>11, SameListed, Zenon
<1>13. Counted(charged, q)
  BY <1>1, <1>11, <1>12 DEF Counted, SameList
<1>14. /\ Counted(charged', q) /\ Accounts(q, compiled', unbuildable')
       /\ Settles(q, compiled', repository')
  BY <1>9, <1>11, <1>13, Zenon
<1>15. CASE plan' # plan
  <2>1. Persist(q, "plan")
    BY <1>9, <1>10, <1>15, Zenon
  <2>2. Onto(plan.waves, q.waves, v, spent, v, spent)
    <3>1. spent \in Nat
      BY <1>6 DEF Remembered
    <3>2. v <= v
      BY <1>4
    <3>3. q.waves = plan.waves \/ \E rec : q.waves = Append(plan.waves, rec)
      BY <1>11, Zenon
    <3> QED
      BY <1>4, <3>1, <3>2, <3>3, Zenon DEF Onto
  <2>3. Listed(plan) \subseteq Listed(q) /\ "plan" # "accepted"
    BY <1>12
  <2> QED
    BY <1>6, <1>9, <1>10, <1>11, <1>14, <2>1, <2>2, <2>3, WriteStep, Zenon
<1>16. CASE plan' = plan
  <2>1. at' = "plan" /\ UNCHANGED <<file, waveFiles, committed, torn>> /\ q = plan
    BY <1>9, <1>10, <1>16, Zenon
  <2>2. WavesRemembered'
    <3>1. Remembered(waveFiles', plan'.waves, offset', wave', spent', torn', lostPlan', TRUE)
      BY <1>6, <1>9, <1>16, <2>1, Zenon
    <3>2. PICK up \in BOOLEAN : up = (at' # "down")
      OBVIOUS
    <3>3. Remembered(waveFiles', plan'.waves, offset', wave', spent', torn', lostPlan', up)
      BY <3>1, DownRemembers, Zenon
    <3> QED
      BY <3>2, <3>3, Zenon DEF WavesRemembered
  <2>3. PlanWritten'
    BY <1>16, <2>1, Zenon DEF PlannerInv, PlanWritten
  <2>4. at' # "accepted"
    BY <2>1
  <2>5. Answered'
    BY <2>4, Zenon DEF Answered
  <2>6. ~lostPlan' => committed' \subseteq Listed(plan')
    BY <1>9, <1>16, <2>1, Zenon DEF PlannerInv
  <2>7. /\ Counted(charged', plan') /\ Accounts(plan', compiled', unbuildable')
        /\ Settles(plan', compiled', repository')
    BY <1>14, <1>16, <2>1, Zenon
  <2> QED
    BY <2>2, <2>3, <2>5, <2>6, <2>7, Zenon DEF PlannerInv
<1> QED
  BY <1>15, <1>16

\* A process that starts without a plan.
LEMMA AfreshIs ==
  ASSUME PlannerInv, Afresh
  PROVE  /\ AreRecords(waveFiles) /\ plan' = Empty /\ compiled' = {} /\ unbuildable' = {}
         /\ \E v \in Nat, o \in Nat :
              /\ wave' = v /\ offset' = o
              /\ o = OffsetOf(waveFiles, <<>>)
              /\ \A n \in Nat : Recalls(waveFiles, n) \/ Recalls(<<>>, n) => n <= v
<1>1. AreRecords(waveFiles)
  BY DEF PlannerInv, WavesRemembered, Remembered
<1>2. PICK v \in Nat : v = HighestWave(waveFiles)
  BY <1>1, HighestIs
<1>3. \A n \in Nat : Recalls(waveFiles, n) => n <= v
  BY <1>1, <1>2, HighestIs
<1>4. \A n \in Nat : Recalls(<<>>, n) => n <= v
  BY FromNothing
<1>5. PICK o \in Nat : o = OffsetOf(waveFiles, <<>>)
  <2>1. Len(waveFiles) \in Nat /\ Len(<<>>) = 0
    BY <1>1 DEF AreRecords, IsSequence
  <2> QED
    BY <2>1 DEF OffsetOf
<1>6. plan' = Empty /\ compiled' = {} /\ unbuildable' = {}
      /\ wave' = HighestWave(waveFiles) /\ offset' = OffsetFor(Empty)
  BY Zenon DEF Afresh
<1>7. OffsetFor(Empty) = OffsetOf(waveFiles, <<>>)
  BY EmptyIs, Zenon DEF OffsetFor, OffsetOf
<1>8. wave' = v /\ offset' = o
  BY <1>2, <1>5, <1>6, <1>7, Zenon
<1> QED
  BY <1>1, <1>3, <1>4, <1>5, <1>6, <1>8, Zenon

\* from none,
LEMMA StartAbsentStep ==
  ASSUME PlannerInv, StartAbsent
  PROVE  PlannerInv'
<1>1. /\ Afresh /\ at' = "plan" /\ UNCHANGED <<file, waveFiles, repository>>
      /\ UNCHANGED <<committed, charged, spent, torn, lostPlan>> /\ plan = Empty
  BY DEF StartAbsent, stored, ghosts, PlannerInv, PlanWritten
<1>2. plan' = Empty /\ compiled' = {} /\ unbuildable' = {}
  BY <1>1, AfreshIs
<1>3. PICK v \in Nat, o \in Nat :
         /\ wave' = v /\ offset' = o
         /\ o = OffsetOf(waveFiles, <<>>)
         /\ \A n \in Nat : Recalls(waveFiles, n) \/ Recalls(<<>>, n) => n <= v
  BY <1>1, AfreshIs
<1>4. Remembered(waveFiles, <<>>, offset, wave, spent, torn, lostPlan, FALSE)
      /\ AreRecords(<<>>)
  <2>1. PICK up \in BOOLEAN : up = (at # "down")
    OBVIOUS
  <2>2. plan.waves = <<>> /\ AreRecords(plan.waves)
    BY <1>1, EmptyIs, RunningIs
  <2>3. Remembered(waveFiles, plan.waves, offset, wave, spent, torn, lostPlan, up)
    BY <2>1, Zenon DEF PlannerInv, WavesRemembered
  <2>4. Remembered(waveFiles, <<>>, offset, wave, spent, torn, lostPlan, up)
    BY <2>2, <2>3, Zenon
  <2>5. Remembered(waveFiles, <<>>, offset, wave, spent, torn, lostPlan, FALSE)
    BY <2>4, DownRemembers, Zenon
  <2> QED
    BY <2>2, <2>5, Zenon
<1>5. Remembered(waveFiles, <<>>, o, v, spent, torn, lostPlan, TRUE)
  BY <1>3, <1>4, StartRemembers, Zenon
<1>6. WavesRemembered'
  <2>1. plan'.waves = <<>>
    BY <1>2, EmptyIs, Zenon
  <2>2. Remembered(waveFiles', plan'.waves, offset', wave', spent', torn', lostPlan', TRUE)
    BY <1>1, <1>3, <1>5, <2>1, Zenon
  <2>3. PICK up \in BOOLEAN : up = (at' # "down")
    OBVIOUS
  <2>4. Remembered(waveFiles', plan'.waves, offset', wave', spent', torn', lostPlan', up)
    BY <2>2, DownRemembers, Zenon
  <2> QED
    BY <2>3, <2>4, Zenon DEF WavesRemembered
<1>7. PlanWritten'
  BY <1>1, <1>2, Zenon DEF PlannerInv, PlanWritten
<1>8. at' # "accepted"
  BY <1>1
<1>9. Answered'
  BY <1>8, Zenon DEF Answered
<1>10. Accounts(plan', compiled', unbuildable') /\ Settles(plan', compiled', repository')
  BY <1>1, <1>2, EmptyIs, Zenon
<1>11. Counted(charged', plan') /\ (~lostPlan' => committed' \subseteq Listed(plan'))
  BY <1>1, <1>2, Zenon DEF PlannerInv
<1> QED
  BY <1>6, <1>7, <1>9, <1>10, <1>11, Zenon DEF PlannerInv

\* or from one it cannot read.
LEMMA StartUnreadableStep ==
  ASSUME PlannerInv, StartUnreadable
  PROVE  PlannerInv'
<1>1. /\ Afresh /\ at' = at /\ at = "down" /\ file' = [state |-> "absent", plan |-> Empty]
      /\ lostPlan' = TRUE /\ charged' = [id \in Ids |-> 0]
      /\ UNCHANGED <<waveFiles, repository, committed, spent, torn>>
  BY DEF StartUnreadable, Begin
<1>2. plan' = Empty
  BY <1>1, AfreshIs
<1>3. PICK v \in Nat, o \in Nat : wave' = v /\ offset' = o
  BY <1>1, AfreshIs
<1>4. Remembered(waveFiles, plan.waves, offset, wave, spent, torn, lostPlan, FALSE)
  <2>1. PICK up \in BOOLEAN : up = (at # "down")
    OBVIOUS
  <2>2. Remembered(waveFiles, plan.waves, offset, wave, spent, torn, lostPlan, up)
    BY <2>1, Zenon DEF PlannerInv, WavesRemembered
  <2> QED
    BY <2>2, DownRemembers, Zenon
<1>5. Remembered(waveFiles, <<>>, o, v, spent, torn, TRUE, FALSE)
  BY <1>4, LossRemembers, Zenon
<1>6. WavesRemembered'
  <2>1. plan'.waves = <<>>
    BY <1>2, EmptyIs, Zenon
  <2>2. PICK up : up = (at' # "down")
    OBVIOUS
  <2>3. up = FALSE
    BY <1>1, <2>2
  <2>4. Remembered(waveFiles', plan'.waves, offset', wave', spent', torn', TRUE, up)
    BY <1>1, <1>3, <1>5, <2>1, <2>3, Zenon
  <2>5. PICK l : l = lostPlan' /\ l = TRUE
    BY <1>1
  <2>6. Remembered(waveFiles', plan'.waves, offset', wave', spent', torn', l, up)
    BY <2>4, <2>5, Zenon
  <2> QED
    BY <2>2, <2>5, <2>6, Zenon DEF WavesRemembered
<1>7. PlanWritten'
  <2>1. file' = [state |-> file'.state, plan |-> Empty]
    BY <1>1
  <2> QED
    BY <1>2, <2>1, EmptyIs, Zenon DEF PlanWritten
<1>8. at' = "down" /\ at' # "accepted" /\ lostPlan'
  BY <1>1
<1>9. Answered'
  BY <1>8, Zenon DEF Answered
<1>10. Counted(charged', plan')
  <2>1. Counted([id \in Ids |-> 0], Empty)
    <3>1. Len(Empty.scenarios) = 0 /\ 1..0 = {}
      BY EmptySequence DEF Empty
    <3> QED
      BY <3>1 DEF Counted
  <2> QED
    BY <1>1, <1>2, <2>1, Zenon
<1> QED
  BY <1>6, <1>7, <1>8, <1>9, <1>10, Zenon DEF PlannerInv

-----------------------------------------------------------------------------
\* The steps of a run or of the repository that write nothing.
LEMMA OtherStep ==
  ASSUME PlannerInv,
         \/ NothingToRefine \/ NothingToDerive \/ AcceptRun \/ NextTurn \/ Stop
         \/ UNCHANGED plannerVars
  PROVE  PlannerInv'
<1>1. /\ UNCHANGED <<plan, compiled, unbuildable, wave, offset, file, waveFiles, repository,
                     committed, charged, spent, torn, lostPlan>>
      /\ passed' = passed
  BY DEF NothingToRefine, NothingToDerive, AcceptRun, NextTurn, Stop, plannerVars, memory,
         stored, ghosts
<1>2. at' # "down" => at # "down"
  BY DEF NothingToRefine, NothingToDerive, AcceptRun, NextTurn, Stop, plannerVars
<1> DEFINE Good == /\ unbuildable = {} /\ HeldIds(plan) = {} /\ Required \subseteq passed
                   /\ \A r \in plan.risks : Blocks(r) => Covered(r.category)
<1>3. Good => Answered'
  <2>1. Required' = Required /\ \A c : Covered(c)' <=> Covered(c)
    BY <1>1 DEF Required, Covered
  <2> QED
    BY <1>1, <2>1 DEF Answered
<1>4. at' = "accepted" => Good
  <2>1. CASE AcceptRun
    BY <2>1 DEF AcceptRun, Problems
  <2>2. CASE UNCHANGED plannerVars
    BY <2>2 DEF plannerVars, PlannerInv, Answered
  <2>3. CASE NothingToRefine \/ NothingToDerive \/ NextTurn \/ Stop
    BY <2>3 DEF NothingToRefine, NothingToDerive, NextTurn, Stop
  <2> QED
    BY <2>1, <2>2, <2>3
<1>5. Answered'
  BY <1>3, <1>4 DEF Answered
<1> QED
  BY <1>1, <1>2, <1>5, PlannerQuietStep

\* The disk decays,
LEMMA CorruptStep ==
  ASSUME PlannerInv, Corrupt
  PROVE  PlannerInv'
<1>1. /\ UNCHANGED <<plan, compiled, unbuildable, wave, offset, waveFiles, repository, at>>
      /\ UNCHANGED <<committed, charged, spent, torn, lostPlan>>
      /\ file' = [file EXCEPT !.state = "corrupt"] /\ at = "down"
  BY DEF Corrupt, memory, ghosts
<1>2. PlanWritten'
  <2>1. file = [state |-> file.state, plan |-> plan]
    BY DEF PlannerInv, PlanWritten
  <2>2. file' = [state |-> "corrupt", plan |-> plan]
    BY <1>1, <2>1
  <2>3. file' = [state |-> file'.state, plan |-> plan] /\ file'.state # "absent"
    BY <2>2
  <2> QED
    BY <1>1, <2>3, Zenon DEF PlannerInv, PlanWritten
<1>3. WavesRemembered'
  BY <1>1, Zenon DEF PlannerInv, WavesRemembered
<1>4. at' = "down" /\ at' # "accepted"
  BY <1>1
<1>5. Answered'
  BY <1>4, Zenon DEF Answered
<1> QED
  BY <1>1, <1>2, <1>3, <1>4, <1>5, Zenon DEF PlannerInv

\* or is repaired.
LEMMA RepairStep ==
  ASSUME PlannerInv, Repair
  PROVE  PlannerInv'
<1>1. /\ UNCHANGED <<plan, compiled, unbuildable, wave, offset, file, waveFiles, at>>
      /\ UNCHANGED <<committed, charged, spent, torn, lostPlan>>
      /\ at = "down"
  BY DEF Repair, memory, stored, ghosts
<1>2. PlanWritten'
  BY <1>1, Zenon DEF PlannerInv, PlanWritten
<1>3. WavesRemembered'
  BY <1>1, Zenon DEF PlannerInv, WavesRemembered
<1>4. at' = "down" /\ at' # "accepted"
  BY <1>1
<1>5. Answered'
  BY <1>4, Zenon DEF Answered
<1> QED
  BY <1>1, <1>2, <1>3, <1>4, <1>5, Zenon DEF PlannerInv

\* Every wave is a call of _generate.
LEMMA WaveSteps ==
  ASSUME PlannerInv, PlanInitial \/ Refine \/ Expand \/ DeriveWave
  PROVE  PlannerInv'
<1>1. CASE PlanInitial
  <2>1. Generate("initial", WaveLimit, TRUE, "turn") /\ at = "plan"
    BY <1>1 DEF PlanInitial
  <2>2. at # "down" /\ "turn" # "accepted"
    BY <2>1
  <2> QED
    BY <2>1, <2>2, GenerateStep
<1>2. CASE Refine
  <2>1. Generate("diff_refinement", WaveLimit, TRUE, "rederive") /\ at = "turn"
    BY <1>2 DEF Refine
  <2>2. at # "down" /\ "rederive" # "accepted"
    BY <2>1
  <2> QED
    BY <2>1, <2>2, GenerateStep
<1>3. CASE Expand
  <2>1. PICK stage, next : Generate(stage, WaveLimit, TRUE, next) /\ next \in {"turn", "widen"}
    BY <1>3 DEF Expand
  <2>2. at # "down" /\ next # "accepted"
    BY <1>3, <2>1 DEF Expand
  <2> QED
    BY <2>1, <2>2, GenerateStep
<1>4. CASE DeriveWave
  <2>1. PICK limit : Generate("rederivation", limit, FALSE, "execute") /\ at = "derive"
    BY <1>4 DEF DeriveWave
  <2>2. at # "down" /\ "execute" # "accepted"
    BY <2>1
  <2> QED
    BY <2>1, <2>2, GenerateStep
<1> QED
  BY <1>1, <1>2, <1>3, <1>4

\* The invariant holds at the start,
LEMMA PlannerInvInit == PlannerInit => PlannerInv
<1> SUFFICES ASSUME PlannerInit PROVE PlannerInv
  OBVIOUS
<1>1. plan = Empty
  BY DEF PlannerInit
<1>2. PlanWritten
  <2>1. file = [state |-> file.state, plan |-> plan]
    BY DEF PlannerInit
  <2> QED
    BY <1>1, <2>1, EmptyIs, Zenon DEF PlanWritten
<1>3. Answered
  BY DEF PlannerInit, Answered
<1>4. WavesRemembered
  <2>1. AreRecords(<<>>) /\ LastOf(<<>>, <<>>)
    BY EmptySequence DEF AreRecords, LastOf
  <2>2. plan.waves = <<>>
    BY <1>1, EmptyIs
  <2>3. /\ offset \in Nat /\ wave \in Nat /\ spent \in Nat
        /\ torn \in BOOLEAN /\ lostPlan \in BOOLEAN
        /\ waveFiles = <<>> /\ spent = 0 /\ at = "down"
    BY DEF PlannerInit
  <2>4. spent <= MaxWaves
    BY <2>3, PlannerAssumption
  <2>5. Recalls(<<>>, 0)
    BY DEF Recalls
  <2> QED
    BY <2>1, <2>2, <2>3, <2>4, <2>5 DEF WavesRemembered, Remembered
<1>5. Counted(charged, plan)
  <2>1. Len(Empty.scenarios) = 0 /\ 1..0 = {}
    BY EmptySequence DEF Empty
  <2>2. charged = [id \in Ids |-> 0]
    BY DEF PlannerInit
  <2> QED
    BY <1>1, <2>1, <2>2 DEF Counted
<1>6. at = "down" /\ committed = {}
  BY DEF PlannerInit
<1> QED
  BY <1>2, <1>3, <1>4, <1>5, <1>6 DEF PlannerInv

\* and every step keeps it.
LEMMA PlannerInvNext == PlannerInv /\ [PlannerNext]_plannerVars => PlannerInv'
<1> SUFFICES ASSUME PlannerInv, [PlannerNext]_plannerVars PROVE PlannerInv'
  OBVIOUS
<1>1. CASE PlanInitial \/ Refine \/ Expand \/ DeriveWave
  BY <1>1, WaveSteps
<1>2. CASE Rederive
  BY <1>2, RederiveStep
<1>3. CASE Execute
  BY <1>3, ExecuteStep
<1>4. CASE Widen
  BY <1>4, WidenStep
<1>5. CASE StartAbsent
  BY <1>5, StartAbsentStep
<1>6. CASE StartUnreadable
  BY <1>6, StartUnreadableStep
<1>7. CASE StartRestored
  BY <1>7, StartRestoredStep
<1>8. CASE Corrupt
  BY <1>8, CorruptStep
<1>9. CASE Repair
  BY <1>9, RepairStep
<1>10. CASE \/ NothingToRefine \/ NothingToDerive \/ AcceptRun \/ NextTurn \/ Stop
            \/ UNCHANGED plannerVars
  BY <1>10, OtherStep
<1> QED
  BY <1>1, <1>2, <1>3, <1>4, <1>5, <1>6, <1>7, <1>8, <1>9, <1>10 DEF PlannerNext

\* The plan is well formed and written, its scenarios are accounted for and settled,
\* and the waves and the attempts that were spent are remembered.
THEOREM PlanKept == PlannerSpec => []PlannerInv
BY PlannerInvInit, PlannerInvNext, PTL DEF PlannerSpec

-----------------------------------------------------------------------------
\* However often a run is stopped, repaired and resumed, what it still owes is
\* exactly what it can run and what it could not build (restore_from_store,
\* _generate, _withhold_held).
THEOREM AccountedAlways == PlannerSpec => []Accounted
<1>1. PlannerInv => Accounted
  BY DEF PlannerInv, Accounts, Accounted
<1> QED
  BY <1>1, PlanKept, PTL

\* No sequence of processes asks for more waves than the budget, unless a
\* record and the plan were both lost (persist, _waves_recorded_on_disk).
THEOREM BudgetBindsAlways == PlannerSpec => []BudgetBinds
<1>1. PlannerInv => BudgetBinds
  BY DEF PlannerInv, WavesRemembered, Remembered, BudgetBinds
<1> QED
  BY <1>1, PlanKept, PTL

\* A chain of replacements of any length is re-derived within one budget
\* (_release_holds, rederive_held).
THEOREM OneBudgetAlways == PlannerSpec => []OneObligationOneBudget
<1>1. PlannerInv => OneObligationOneBudget
  <2> SUFFICES ASSUME PlannerInv PROVE \A id \in Ids : charged[id] <= MaxAttempts
    BY DEF OneObligationOneBudget
  <2>1. \A id \in Ids : charged[id] \in 0..MaxAttempts
    BY RunningIs, CountedBounded
  <2> QED
    BY <2>1, PlannerAssumption
<1> QED
  BY <1>1, PlanKept, PTL

\* A resume asks of what can be run nothing that generation or an earlier
\* resume has not settled (validate_scenario, restore_from_store).
THEOREM OneResumeSettlesAlways == PlannerSpec => []OneResumeSettles
<1>1. PlannerInv => OneResumeSettles
  <2> SUFFICES ASSUME PlannerInv, at # "down", NEW id \in compiled
               PROVE  Reading(repository, ById(plan, id).body, Category[id], FALSE).kind
                        \in {"fine", "held"}
    BY DEF OneResumeSettles
  <2>1. GoodPlan(plan) /\ Settles(plan, compiled, repository) /\ id \in Listed(plan)
    BY RunningIs
  <2>2. PICK i \in 1..Len(plan.scenarios) : plan.scenarios[i].id = id
    BY <2>1, ListedIs
  <2>3. ById(plan, id) = plan.scenarios[i]
    BY <2>1, <2>2, ByIdIs
  <2> QED
    BY <2>1, <2>2, <2>3 DEF Settles
<1> QED
  BY <1>1, PlanKept, PTL

\* What is retired leads, by what replaced it, to what passed, to a risk that is
\* covered, or to one restated so that it does not block.
LEMMA AnsweredFor ==
  ASSUME PlannerInv, at = "accepted",
         NEW heirs \in SUBSET Listed(plan), \A h \in heirs : ById(plan, h).by \subseteq heirs,
         \A h \in heirs : ~Restated(h)
  PROVE  \A i \in 1..Len(plan.scenarios) :
           plan.scenarios[i].id \in heirs /\ Rank[plan.scenarios[i].id] <= 1
             => Covered(Category[plan.scenarios[i].id])
<1> DEFINE S == plan.scenarios
           Well(i) == S[i].id \in heirs /\ Rank[S[i].id] <= 1 => Covered(Category[S[i].id])
           T == {k \in Nat : \A i \in 1..Len(S) : i + k > Len(S) => Well(i)}
<1>1. /\ GoodPlan(plan) /\ Len(S) \in Nat
      /\ \A i \in 1..Len(S) : IsScenario(S[i]) /\ Chained(S, plan.risks, i)
      /\ \A r \in plan.risks : IsRisk(r)
      /\ Accounts(plan, compiled, unbuildable)
  <2>1. GoodPlan(plan) /\ Accounts(plan, compiled, unbuildable)
    BY RunningIs
  <2> QED
    BY <2>1 DEF GoodPlan, GoodList, IsSequence
<1>2. /\ unbuildable = {} /\ HeldIds(plan) = {} /\ Required \subseteq passed
      /\ \A r \in plan.risks : Blocks(r) => Covered(r.category)
  BY DEF PlannerInv, Answered
<1>3. \A i \in 1..Len(S) : /\ ById(plan, S[i].id) = S[i]
                           /\ S[i].id \in Ids /\ Rank[S[i].id] \in 0..3
                           /\ S[i].retired = "no" => IsActive(S[i])
  <2>1. ASSUME NEW i \in 1..Len(S), S[i].retired = "no" PROVE IsActive(S[i])
    BY <1>1, <1>2, <2>1, ListedIs DEF IsActive, IsHeld
  <2> QED
    BY <1>1, <2>1, ByIdIs, PlannerAssumption DEF IsScenario
<1>4. ASSUME NEW i \in 1..Len(S), S[i].id \in heirs, Rank[S[i].id] <= 1,
             \A j \in (i + 1)..Len(S) : Well(j)
      PROVE  Covered(Category[S[i].id])
  <2>1. CASE S[i].retired = "no"
    <3>1. S[i].id \in compiled
      BY <1>1, <1>2, <1>3, <2>1, ListedIs DEF Accounts
    <3>2. S[i].id \in passed
      BY <1>2, <1>4, <3>1 DEF Required
    <3> QED
      BY <3>2 DEF Covered
  <2>2. CASE S[i].retired = "replaced"
    <3>1. PICK j \in (i + 1)..Len(S) : /\ S[i].by = {S[j].id}
                                       /\ Category[S[j].id] = Category[S[i].id]
                                       /\ Rank[S[j].id] <= Rank[S[i].id]
      BY <1>1, <2>2 DEF Chained
    <3>2. j \in 1..Len(S)
      BY <1>1
    <3>3. S[j].id \in heirs
      BY <1>3, <1>4, <3>1
    <3>4. Rank[S[j].id] <= 1
      BY <1>3, <1>4, <3>1, <3>2
    <3> QED
      BY <1>4, <3>1, <3>3, <3>4
  <2>3. CASE S[i].retired = "impossible"
    <3>1. Stands(plan.risks, S[i].id)
      BY <1>1, <2>3 DEF Chained
    <3>2. PICK r \in plan.risks : /\ r.category = Category[S[i].id]
                                  /\ r.severity <= Rank[S[i].id] \/ r.says = Describes[S[i].id]
      BY <3>1 DEF Stands
    <3>3. CASE Blocks(r)
      BY <1>2, <3>2, <3>3
    <3>4. CASE ~Blocks(r)
      <4>1. ~(r.severity <= Rank[S[i].id])
        BY <1>1, <1>3, <1>4, <3>4 DEF Blocks, IsRisk
      <4>2. Key(r) = <<Category[S[i].id], Describes[S[i].id]>>
        BY <3>2, <4>1 DEF Key
      <4>3. Restated(S[i].id)
        BY <3>4, <4>2 DEF Restated
      <4> QED
        BY <1>4, <4>3
    <3> QED
      BY <3>3, <3>4
  <2> QED
    BY <1>1, <2>1, <2>2, <2>3 DEF Chained
<1>5. 0 \in T
  BY <1>1
<1>6. ASSUME NEW k \in Nat, k \in T PROVE k + 1 \in T
  <2>1. SUFFICES ASSUME NEW i \in 1..Len(S), i + (k + 1) > Len(S) PROVE Well(i)
    BY <1>6
  <2>2. \A j \in (i + 1)..Len(S) : j \in 1..Len(S) /\ j + k > Len(S)
    BY <1>1, <1>6, <2>1
  <2>3. \A j \in (i + 1)..Len(S) : Well(j)
    BY <1>6, <2>2
  <2> QED
    BY <1>4, <2>3
<1>7. Len(S) \in T
  <2> HIDE DEF T
  <2> QED
    BY <1>1, <1>5, <1>6, NaturalsByInduction
<1> QED
  BY <1>1, <1>7

\* A run is accepted only with every blocking scenario it committed to answered
\* for, whichever door it left by (_carry_obligation, _release_holds, the
\* gate).
THEOREM NothingLeavesQuietlyAlways == PlannerSpec => []NothingLeavesQuietly
<1>1. PlannerInv => NothingLeavesQuietly
  <2> SUFFICES ASSUME PlannerInv, at = "accepted", ~lostPlan, NEW id \in committed
               PROVE  /\ id \in Listed(plan)
                      /\ Rank[id] <= 1 =>
                           \/ Covered(Category[id])
                           \/ \A heirs \in SUBSET Listed(plan) :
                                id \in heirs /\ (\A h \in heirs : ById(plan, h).by \subseteq heirs)
                                  => \E h \in heirs : Restated(h)
    BY DEF NothingLeavesQuietly
  <2>1. id \in Listed(plan) /\ GoodPlan(plan)
    BY RunningIs DEF PlannerInv
  <2>2. PICK i \in 1..Len(plan.scenarios) : plan.scenarios[i].id = id
    BY <2>1, ListedIs
  <2>3. ASSUME Rank[id] <= 1, NEW heirs \in SUBSET Listed(plan), id \in heirs,
               \A h \in heirs : ById(plan, h).by \subseteq heirs,
               ~\E h \in heirs : Restated(h)
        PROVE  Covered(Category[id])
    BY <2>2, <2>3, AnsweredFor
  <2> QED
    BY <2>1, <2>3
<1> QED
  BY <1>1, PlanKept, PTL
=============================================================================
