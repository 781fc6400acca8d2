---------------------------- MODULE EvidenceLineage ----------------------------
(***************************************************************************)
(* Which earlier scenario evidence still counts about the tree under test  *)
(* (neyma_product_driver/evidence_lineage.py and scenario_suite.py, with   *)
(* the suite section of run_control_loop in cli.py).                       *)
(*                                                                         *)
(* Every iteration the builder may change the worktree, a part of the      *)
(* suite is run, and the scenarios that were not run are completed with    *)
(* earlier outcomes that are still valid: passed, of the same definition,  *)
(* on a known tree, with nothing changed since inside the scenario's blast *)
(* radius.  Results are written per iteration; a process that resumes the  *)
(* run reads them back.                                                    *)
(*                                                                         *)
(* A tree gives every path its content, or Absent.  What a file imports    *)
(* and what paths it mentions are functions of its content.  An outcome    *)
(* carries, besides what the code records, the tree it really ran on       *)
(* ("content"), which no action reads.                                     *)
(***************************************************************************)
EXTENDS Naturals, FiniteSets

CONSTANTS
  Paths, Contents, Absent,
  Trees,            \* the trees the repository may be in
  FirstTree,        \* the one the run starts from
  Litter,           \* those an execution may leave behind
  Global,           \* paths whose change may move any execution
  Scenarios,
  Permanent,        \* the permanent ones; the others are generated
  Cuttable,         \* those late enough in the order for the budget to cut off
  Neighbours,       \* the scenarios whose risk neighbours that of a scenario
  Definitions,
  FirstDefinition,  \* what each scenario runs until it is re-materialized
  Runs,             \* files a definition's commands name or import
  Mentions,         \* paths its inline programs mention in string literals
  Imports,          \* files a file imports, by its path and content
  Literals,         \* paths it mentions in string literals
  NoOutcome,        \* a scenario of which nothing is recorded
  Unstamped,        \* the tree of an execution that names no single tree
  MaxIterations,    \* bound of the model: iterations of the run in all
  MaxCrashes        \* bound of the model: crashes of the run's processes

Iterations == 1..MaxIterations

\* BLOCKED stands with FAILED: both are failures() and neither is a pass.
\* PASSED is a pass whose evidence was written and verified.
Verdicts == {"PASSED", "FAILED", "SKIPPED"}

Outcome ==
  [verdict : Verdicts, at : Iterations, tree : Trees \cup {Unstamped},
   defn : Definitions, content : Trees]

ASSUME LineageAssumption ==
  /\ Absent \notin Contents
  /\ Trees \subseteq [Paths -> Contents \cup {Absent}]
  /\ Litter \cup {FirstTree} \subseteq Trees
  /\ Global \subseteq Paths
  /\ Permanent \cup Cuttable \subseteq Scenarios
  /\ Neighbours \in [Scenarios -> SUBSET Scenarios]
  /\ FirstDefinition \in [Scenarios -> Definitions]
  /\ {Runs, Mentions} \subseteq [Definitions -> SUBSET Paths]
  /\ {Imports, Literals} \subseteq [Paths \X Contents -> SUBSET Paths]
  /\ Unstamped \notin Trees
  /\ NoOutcome \notin Outcome
  /\ {MaxIterations, MaxCrashes} \subseteq Nat

VARIABLES
  head,       \* the committed tree
  tree,       \* the worktree
  suite,      \* the scenarios of the suite, in the persisted plan
  defn,       \* what each of them runs now
  rebound,    \* re-materialized on a resume and not executed since
  forced,     \* what this process must run whatever was recorded of it
  disk,       \* suite-result.json of every iteration
  previous,   \* the last suite result this process knows
  seen,       \* the worktree this iteration's evidence was assessed against
  iteration,
  crashes,
  pc,
  writing     \* suite-result.json of this iteration is being written

trees   == <<head, tree>>
planned == <<suite, defn, rebound>>
process == <<forced, previous, seen>>
place   == <<pc, writing>>
counts  == <<iteration, crashes>>

vars == <<trees, planned, disk, process, counts, place>>

\* A result that records nothing, which a missing or unreadable file is read as.
Blank == [s \in Scenarios |-> NoOutcome]

Passed(o) == o # NoOutcome /\ o.verdict = "PASSED"
Failed(o) == o # NoOutcome /\ o.verdict = "FAILED"
Ran(o)    == o # NoOutcome /\ o.verdict # "SKIPPED"

-----------------------------------------------------------------------------
(* The blast radius of a definition, in the worktree as it is.             *)

Present(t) == {p \in Paths : t[p] # Absent}

\* The files the commands name and what those import, where they exist.
Closed(X, d, t) ==
  /\ Runs[d] \cap Present(t) \subseteq X
  /\ \A p \in X : Imports[p, t[p]] \cap Present(t) \subseteq X

Subject(d, t) ==
  {p \in Present(t) : \A X \in SUBSET Present(t) : Closed(X, d, t) => p \in X}

Mentioned(d, t) ==
  Mentions[d] \cup UNION {Literals[p, t[p]] : p \in Subject(d, t)}

TouchedBy(changed, d, t) ==
  changed \cap (Global \cup Subject(d, t) \cup Mentioned(d, t)) # {}

Differ(t, u) == {p \in Paths : t[p] # u[p]}

\* Comparing committed trees only.
ChangedCommits(from) == Differ(from, head)

\* Dirty paths, and what the commits differ in.
Changed(from) == Differ(tree, head) \cup Differ(from, head)

-----------------------------------------------------------------------------
(* Selecting, assessing and executing.                                     *)

SelectRerun ==
  {s \in suite :
     \/ s \in Permanent
     \/ Failed(previous[s]) \/ previous[s] = NoOutcome \/ s \in forced
     \/ \E f \in suite : Failed(previous[f]) /\ s \in Neighbours[f]}

\* Earlier evidence that may stand; "lost" is what no longer resolves on disk.
Valid(lost) ==
  {s \in suite :
     /\ Passed(previous[s])
     /\ s \notin forced \cup lost
     /\ previous[s].tree # Unstamped
     /\ previous[s].defn = defn[s]
     /\ ~TouchedBy(Changed(previous[s].tree), defn[s], tree)}

\* The narrowing alone.
ChosenByFailures(lost) == SelectRerun

Chosen(lost) == SelectRerun \cup (suite \ Valid(lost))

\* An execution that began in a clean worktree and left it as it was names it.
Stamp(s, verdict, left) ==
  [verdict |-> verdict, at |-> iteration, defn |-> defn[s], content |-> tree,
   tree |-> IF tree = head /\ left = tree THEN head ELSE Unstamped]

\* What executing the scenarios of S may show.
Executions(S) ==
  {v \in [S -> Verdicts] : \A s \in S : v[s] = "SKIPPED" => s \in Cuttable}

\* What was executed, completed with what is still valid of the rest.
Inherit(verdicts, valid, left) ==
  [s \in Scenarios |->
     IF s \in DOMAIN verdicts THEN Stamp(s, verdicts[s], left)
     ELSE IF s \in valid THEN previous[s] ELSE NoOutcome]

-----------------------------------------------------------------------------
(* The results on disk.                                                    *)

Newest(I) == {i \in I : \A j \in I : j <= i}

\* The best outcome of each scenario rather than its latest.
AccumulateBest ==
  [s \in Scenarios |->
     LET ran    == {i \in Iterations : Ran(disk[i][s])}
         passed == {i \in ran : Passed(disk[i][s])}
     IN  IF ran = {} THEN NoOutcome
         ELSE disk[CHOOSE i \in Newest(IF passed = {} THEN ran ELSE passed) : TRUE][s]]

\* Each scenario's latest outcome that was not a skip, over the files that can
\* be read.
Accumulated ==
  [s \in Scenarios |->
     LET ran == {i \in Iterations : Ran(disk[i][s])}
     IN  IF ran = {} THEN NoOutcome
         ELSE disk[CHOOSE i \in Newest(ran) : TRUE][s]]

-----------------------------------------------------------------------------
(* The loop.                                                               *)

Init ==
  /\ head = FirstTree /\ tree = FirstTree /\ seen = FirstTree
  /\ suite = Permanent
  /\ defn = FirstDefinition
  /\ rebound = {} /\ forced = {}
  /\ disk = [i \in Iterations |-> Blank]
  /\ previous = Blank
  /\ iteration = 0 /\ crashes = 0
  /\ pc = "build" /\ writing = FALSE

\* The builder's turn leaves any worktree, committed or not; the plan may grow.
Build ==
  /\ pc = "build"
  /\ iteration < MaxIterations
  /\ iteration' = iteration + 1
  /\ tree' \in Trees
  /\ head' \in {head, tree'}
  /\ \E new \in SUBSET (Scenarios \ suite) : suite' = suite \cup new
  /\ pc' = "suite"
  /\ UNCHANGED <<defn, rebound, disk, process, crashes, writing>>

\* Select, assess, execute, stamp, inherit.  An execution may fail, be cut off
\* by the budget, or leave something behind in the worktree.
RunSuite ==
  /\ pc = "suite"
  /\ \E lost \in SUBSET suite, left \in {tree} \cup Litter :
       \E verdicts \in Executions(Chosen(lost)) :
         /\ previous' = Inherit(verdicts, Valid(lost), left)
         /\ seen' = tree
         /\ tree' = left
  /\ pc' = "record"
  /\ UNCHANGED <<head, planned, disk, forced, counts, writing>>

\* A file is truncated before it is written.
BeginWrite ==
  /\ pc \in {"record", "rerecord", "accept", "correct"}
  /\ ~writing
  /\ writing' = TRUE
  /\ disk' = [disk EXCEPT ![iteration] = Blank]
  /\ UNCHANGED <<trees, planned, process, counts, pc>>

EndWrite(from, to) ==
  /\ pc = from
  /\ writing
  /\ writing' = FALSE
  /\ disk' = [disk EXCEPT ![iteration] = previous]
  /\ pc' = to
  /\ UNCHANGED <<trees, planned, process, counts>>

\* note_executed: what ran is no longer owed to a re-materialization.
NoteExecuted ==
  /\ pc = "note"
  /\ rebound' = {s \in rebound : ~(Ran(previous[s]) /\ previous[s].at = iteration)}
  /\ pc' = "judge"
  /\ UNCHANGED <<trees, suite, defn, disk, process, counts, writing>>

\* A wave for uncovered risks runs the new scenarios alone; they are merged
\* into the result, which is written again.
CloseGap ==
  /\ pc = "judge"
  /\ \A s \in suite : ~Failed(previous[s])
  /\ \E new \in (SUBSET (Scenarios \ suite)) \ {{}}, left \in {tree} \cup Litter :
       \E verdicts \in Executions(new) :
         /\ suite' = suite \cup new
         /\ previous' = [s \in Scenarios |->
              IF s \in new THEN Stamp(s, verdicts[s], left) ELSE previous[s]]
         /\ tree' = left
  /\ pc' = "rerecord"
  /\ UNCHANGED <<head, defn, rebound, disk, forced, seen, counts, writing>>

\* evaluate_gate: every scenario of the suite passed.
Accept ==
  /\ pc \in {"judge", "judged"}
  /\ \A s \in suite : Passed(previous[s])
  /\ pc' = "accept"
  /\ UNCHANGED <<trees, planned, disk, process, counts, writing>>

Correct ==
  /\ pc \in {"judge", "judged"}
  /\ pc' = "correct"
  /\ UNCHANGED <<trees, planned, disk, process, counts, writing>>

\* save_iteration writes the result once more, then the run goes on or ends.
Write ==
  \/ BeginWrite
  \/ EndWrite("record", "note")
  \/ EndWrite("rerecord", "judged")
  \/ EndWrite("accept", "accepted")
  \/ EndWrite("correct", IF iteration < MaxIterations THEN "build" ELSE "ended")

Crash ==
  /\ pc \notin {"down", "accepted", "ended"}
  /\ crashes < MaxCrashes
  /\ crashes' = crashes + 1
  /\ previous' = Blank
  /\ forced' = {}
  /\ pc' = "down" /\ writing' = FALSE
  /\ UNCHANGED <<trees, planned, disk, seen, iteration>>

\* Generated scenarios may be re-materialized on a resume.
Resume ==
  /\ pc = "down"
  /\ iteration < MaxIterations
  /\ \E again \in SUBSET (suite \ Permanent) :
       /\ defn' \in [Scenarios -> Definitions]
       /\ \A s \in Scenarios \ again : defn'[s] = defn[s]
       /\ rebound' = rebound \cup again
  /\ forced' = rebound'
  /\ previous' = Accumulated
  /\ pc' = "build"
  /\ UNCHANGED <<trees, suite, disk, seen, counts, writing>>

Next ==
  \/ Build \/ RunSuite \/ Write \/ NoteExecuted \/ CloseGap
  \/ Accept \/ Correct \/ Crash \/ Resume

Spec == Init /\ [][Next]_vars

-----------------------------------------------------------------------------
(* Properties.                                                             *)

Assessed == {"record", "rerecord", "note", "judge", "judged", "accept", "correct",
             "accepted", "ended"}

\* Every variable stays in its domain, and no outcome is of a later iteration.
TypeOK ==
  /\ {head, tree, seen} \subseteq Trees
  /\ suite \subseteq Scenarios /\ rebound \subseteq suite /\ forced \subseteq suite
  /\ defn \in [Scenarios -> Definitions]
  /\ previous \in [Scenarios -> Outcome \cup {NoOutcome}]
  /\ disk \in [Iterations -> [Scenarios -> Outcome \cup {NoOutcome}]]
  /\ iteration \in 0..MaxIterations /\ crashes \in 0..MaxCrashes
  /\ pc \in Assessed \cup {"build", "suite", "down"}
  /\ writing \in BOOLEAN
  /\ \A s \in Scenarios : previous[s] # NoOutcome => previous[s].at <= iteration

Carried(s) ==
  /\ pc \in Assessed
  /\ previous[s] # NoOutcome
  /\ previous[s].at < iteration

\* Everything a scenario of definition d looks at in tree t.
Looks(d, t) ==
  Global \cup Runs[d] \cup Subject(d, t) \cup Mentioned(d, t)
    \cup UNION {Imports[p, t[p]] : p \in Subject(d, t)}

SameView(d, t, u) == \A p \in Looks(d, t) : t[p] = u[p]

Removed(d, t, u) == {p \in Looks(d, t) : t[p] # Absent /\ u[p] = Absent}

\* An outcome carried into an iteration was a pass of what the scenario runs
\* now, taken on a tree in which it saw exactly what it would see in the
\* worktree that was assessed, over any number of iterations, edits, commits,
\* crashes and resumes; unless a file it looked at is gone (see
\* CarriedSeesTheSame).  (evidence_lineage.py, rules 1, 3 and 4.)
CarriedMeansMeasured ==
  \A s \in Scenarios : Carried(s) =>
    /\ Passed(previous[s])
    /\ previous[s].defn = defn[s]
    /\ \/ SameView(defn[s], previous[s].content, seen)
       \/ Removed(defn[s], previous[s].content, seen) # {}

\* The same without the exception, as the module's docstring has it: "Every
\* path that differs ... is checked against the scenario's blast radius".
CarriedSeesTheSame ==
  \A s \in Scenarios : Carried(s) => SameView(defn[s], previous[s].content, seen)

\* Nothing is silently dropped: whatever was narrowed, invalidated or lost,
\* every scenario of the suite has an outcome when the iteration is judged, so
\* the loop's later widening to the full suite finds nothing to add.
NothingDropped == pc \in Assessed => \A s \in suite : previous[s] # NoOutcome

\* The permanent regression set is executed in every iteration that is judged,
\* in whatever process, and however good its earlier evidence is.
PermanentIsFresh ==
  pc \in Assessed =>
    \A s \in Permanent : previous[s] # NoOutcome /\ previous[s].at = iteration

\* A carried outcome is the newest that can be read: no later iteration's
\* result on disk has the scenario executed.  (A failure is not outlived by an
\* older pass, in the process that saw it or in one that resumes the run.)
NewestStands ==
  \A s \in Scenarios : Carried(s) =>
    \A i \in Iterations :
      Ran(disk[i][s]) => disk[i][s].at <= previous[s].at
=============================================================================
