----------------------------- MODULE ControlLoop -----------------------------
(***************************************************************************)
(* The iteration of the driver and the order in which its layers of        *)
(* judgement combine (run_control_loop and the helpers it calls in         *)
(* neyma_product_driver/cli.py).                                           *)
(*                                                                         *)
(* One iteration: the builder works; the scenario suite is operated and    *)
(* the builder's claims audited; the verification the diff changed is run; *)
(* the evaluator decides; what was measured overrides what was opined;     *)
(* identified risks without evidence are closed by generated waves or      *)
(* routed to the builder; the claims are combined; an ACCEPT earns its     *)
(* review (module ReviewCycle opens that step) and the repository's own    *)
(* guards; the decision is routed.  A process may die and be resumed.      *)
(*                                                                         *)
(* A working tree is a model value.  HeadOf and FilesOf say what git says  *)
(* of it: the commit it stands on and the names of the files that differ   *)
(* from the commit the task started at.  Two trees may agree on both and   *)
(* differ in content.  What a measurement answers is nondeterministic.     *)
(***************************************************************************)
EXTENDS RepositoryGuards

CONSTANTS
  Trees,             \* the contents the builder can leave
  Heads, Files,      \* commits and file names
  HeadOf, FilesOf,   \* what git reports of a tree
  GuardFiles,        \* the files changed_verification_paths selects
  SurfacePaths,      \* the files whose paths mark a surface
  SurfaceTexts,      \* and those whose text does
  MaxTargets,        \* config.repository_verification.max_targets
  FirstTree,         \* the tree the run starts on
  None,              \* no record
  MaxGaps,           \* bound of the model: uncovered risks at one time
  MaxWaves,          \* config.scenario_generation.max_waves
  MaxIterations,     \* config.max_iterations
  MaxProcesses,      \* bound of the model: the first process and its resumes
  Planned,           \* a scenario planner was given
  ChangedChecked,    \* config.changed_verification.enabled
  Reasked,           \* config.changed_verification.reask_after_observation
  RepositoryChecked  \* config.repository_verification.enabled

ASSUME LoopAssumption ==
  /\ HeadOf \in [Trees -> Heads]
  /\ FilesOf \in [Trees -> SUBSET Files]
  /\ GuardFiles \subseteq Files
  /\ {SurfacePaths, SurfaceTexts} \subseteq [DOMAIN SurfacePaths -> SUBSET Files]
  /\ MaxTargets \in 0..10
  /\ FirstTree \in Trees
  /\ None \notin [tree : Trees, result : {"passed", "nothing", "gap", "refused"}]
  /\ None \notin [tree : Trees, refused : BOOLEAN]
  /\ {MaxGaps, MaxWaves} \subseteq Nat
  /\ MaxIterations \in Nat \ {0}
  /\ MaxProcesses \in Nat \ {0}
  /\ {Planned, ChangedChecked, Reasked, RepositoryChecked} \subseteq BOOLEAN

VARIABLES
  tree,       \* the working tree
  held,       \* changed_verification["value"] when it is applicable
  saved,      \* state.verification_obligation, which a restart restores
  answered,   \* the changed verification of this iteration did not raise
  repo,       \* the repo_verification cache
  budget,     \* what the planner may still generate; 0 when it is exhausted
  suite,      \* what the suite result and the gate verdict say
  audit,      \* the completion audit
  evaluator,  \* the decision the gate was given (before_gate)
  decision,   \* the decision as it stands
  closure,    \* how far coverage-gap closure got this iteration
  pc, status, idle, attempt, processes

records == <<held, saved, answered, repo>>
judged  == <<suite, audit, evaluator, decision, closure>>
process == <<status, idle, attempt, processes>>

vars == <<tree, records, budget, judged, pc, process>>

Decisions == {"ACCEPT", "FIX", "ASK_USER", "BLOCKED"}

Statuses == {"RUNNING", "ACCEPTED", "NEEDS_USER", "BLOCKED", "MAX_ITERATIONS",
             "STOPPED", "ERROR", "REQUIRES_APPROVAL", "NEEDS_INDEPENDENT_REVIEW"}

Working == {"build", "operate", "measure", "evaluate", "gate", "close",
            "combine", "review", "verify", "route"}

Results == {"passed", "nothing", "gap", "refused"}

Obligation == [tree : Trees, result : Results]
RepoAnswer == [tree : Trees, refused : BOOLEAN]

(***************************************************************************)
(* What the later layers read of a suite and its gate: a required scenario *)
(* failed (blocking_failures); one has no established pass or coverage was *)
(* never built (unverified, generation and assembly problems); how many    *)
(* blocking risks have no evidence; whether one of them is contradicted;   *)
(* whether the full required set is on record.                             *)
(***************************************************************************)
Suites ==
  {s \in [failing : BOOLEAN, unverified : BOOLEAN, gaps : 0..MaxGaps,
          clash : BOOLEAN, full : BOOLEAN] :
     /\ s.failing => s.unverified
     /\ s.clash => s.gaps > 0}

NoSuite == [failing |-> FALSE, unverified |-> TRUE, gaps |-> 0,
            clash |-> FALSE, full |-> FALSE]

Audits == {"VERIFIED", "REQUIRES_INDEPENDENT_REVIEW", "CONTRADICTED", "UNPROVEN"}

Closures == {"no", "open", "ran", "stuck"}

-----------------------------------------------------------------------------
(* The records and what they are good for.                                 *)

Changed(t) == FilesOf[t] # {}
Guarded(t) == FilesOf[t] \cap GuardFiles # {}

SameNames(s, t) == HeadOf[s] = HeadOf[t] /\ FilesOf[s] = FilesOf[t]

BlocksClaim(h) == h # None /\ h.result \in {"gap", "refused"}
Refused(h)     == h # None /\ h.result = "refused"

\* The same commit, the same changed files and the same content.
SameTree(h, t) == h # None /\ h.tree = t

\* What operating the guards can answer: a refusal on this tree is carried,
\* a guard that could not be run is tried again.
Answers(h, t) == IF SameTree(h, t) /\ Refused(h) THEN {"refused"} ELSE Results

\* The cached answer the repository's guards give about a tree.
Cached(r, t) == r # None /\ SameNames(r.tree, t)

GateBlocks(s) == s.failing \/ s.unverified \/ s.gaps > 0

CoverageGapOnly(s) == s.gaps > 0 /\ ~s.unverified /\ ~s.failing /\ ~s.clash

-----------------------------------------------------------------------------
(* Precedence: which layer overrides which.                                *)

\* Faulty: an acceptance may rest on a narrowed pass.
SuitePrecedencePartial(s, d) ==
  IF d # "ACCEPT" \/ ~GateBlocks(s) THEN d
  ELSE IF s.failing THEN "FIX" ELSE "BLOCKED"

SuitePrecedence(s, d) ==
  IF d # "ACCEPT" \/ (~GateBlocks(s) /\ s.full) THEN d
  ELSE IF s.failing THEN "FIX" ELSE "BLOCKED"

\* Faulty: a refused guard overrides the founder's question too.
ChangedPrecedenceOverAll(h, d) == IF BlocksClaim(h) THEN "FIX" ELSE d

\* Faulty: only an ACCEPT is overridden, as in the suite's precedence.
ChangedPrecedenceOverAccept(h, d) ==
  IF BlocksClaim(h) /\ d = "ACCEPT" THEN "FIX" ELSE d

ChangedPrecedence(h, d) ==
  IF BlocksClaim(h) /\ d # "ASK_USER" THEN "FIX" ELSE d

\* A gap is routed only over a decision that carries no other reasoning.
Routable(d) == d \in {"ACCEPT", "BLOCKED"}

AuditOverrides(a, d) == d = "ACCEPT" /\ a \in {"CONTRADICTED", "UNPROVEN"}

Reask(h, d) ==
  /\ Reasked
  /\ d = "BLOCKED"
  /\ h # None
  /\ h.result = "passed"

\* Faulty: a wave is generated without being counted.
UncountedWave(b) == {b}

\* A wave takes one unit, or all that is left when it fills the scenario total.
AfterWave(b) == IF b = 0 THEN {0} ELSE {b - 1, 0}

\* The plan, or failing that the wave records, restore what was spent.
RestoredBudget(b) == b

-----------------------------------------------------------------------------
(* Processes.                                                              *)

End(st) ==
  /\ status' = st
  /\ pc' = "ended"
  /\ UNCHANGED <<idle, attempt, processes>>

\* What the next iteration starts from: nothing of this one's judgement.
Begin ==
  /\ suite' = NoSuite
  /\ audit' = "VERIFIED"
  /\ evaluator' = "FIX"
  /\ decision' = "FIX"
  /\ closure' = "no"
  /\ pc' = "build"

\* FIX is the next builder turn, unless this was the last permitted iteration.
NextTurn ==
  IF attempt >= MaxIterations
    THEN End("MAX_ITERATIONS") /\ UNCHANGED <<suite, audit, evaluator, closure>>
    ELSE Begin /\ attempt' = attempt + 1 /\ UNCHANGED <<status, idle, processes>>

\* plan_initial spends a wave when a planner was given.
Init ==
  /\ tree = FirstTree
  /\ held = None /\ saved = None /\ repo = None
  /\ answered = TRUE
  /\ budget \in (IF Planned THEN AfterWave(MaxWaves) ELSE {0})
  /\ suite = NoSuite /\ audit = "VERIFIED"
  /\ evaluator = "FIX" /\ decision = "FIX" /\ closure = "no"
  /\ pc = "build" /\ status = "RUNNING"
  /\ idle = 0 /\ attempt = 1 /\ processes = 1

\* The process dies, is interrupted, or an exception ends it, at any point.
Crash ==
  /\ pc \in Working
  /\ processes < MaxProcesses
  /\ pc' = "down"
  /\ status' \in {status, "STOPPED", "ERROR"}
  /\ UNCHANGED <<tree, records, budget, judged, idle, attempt, processes>>

\* driver run --resume: the obligation comes back with the tree it was taken on.
Resume ==
  /\ pc \in {"down", "ended"}
  /\ processes < MaxProcesses
  /\ Begin
  /\ held' = saved
  /\ repo' = None
  /\ budget' \in (IF Planned THEN AfterWave(RestoredBudget(budget)) ELSE {0})
  /\ status' = "RUNNING"
  /\ idle' = 0
  /\ attempt' = 1
  /\ processes' = processes + 1
  /\ UNCHANGED <<tree, saved, answered>>

-----------------------------------------------------------------------------
(* One iteration.                                                          *)

StopRequested ==
  /\ pc = "build"
  /\ End("STOPPED")
  /\ UNCHANGED <<tree, records, budget, judged>>

\* The turn edits the tree or not, errs or not; a diff refines the plan.
Build ==
  /\ pc = "build"
  /\ \E t \in Trees, erred \in BOOLEAN :
       LET turns == IF erred /\ t = tree THEN idle + 1 ELSE 0 IN
       /\ turns < 2
       /\ tree' = t
       /\ idle' = turns
       /\ budget' \in IF Planned /\ Changed(t) THEN AfterWave(budget) ELSE {budget}
  /\ pc' = "operate"
  /\ UNCHANGED <<records, judged, status, attempt, processes>>

\* Two erring turns in a row that moved nothing pause the run.
BuilderUnavailable ==
  /\ pc = "build"
  /\ idle = 1
  /\ End("STOPPED")
  /\ decision' = "BLOCKED"
  /\ UNCHANGED <<tree, records, budget, suite, audit, evaluator, closure>>

\* The suite is run (all of it without a planner) and the claims are audited.
Operate ==
  /\ pc = "operate"
  /\ suite' \in {s \in Suites : ~Planned => s.full /\ s.gaps = 0}
  /\ audit' \in Audits
  /\ pc' = "measure"
  /\ UNCHANGED <<tree, records, budget, evaluator, decision, closure, process>>

(***************************************************************************)
(* _changed_surface_verification, its bounded passes as one step.  With no *)
(* diff a record is neither taken nor dropped; with a diff that changed no *)
(* guard the obligation is cleared, and what the run has on disk is        *)
(* overwritten only if a structural scan measured something.  An exception *)
(* leaves both as they were.                                               *)
(***************************************************************************)
MeasureNothing ==
  /\ ~Changed(tree)
  /\ answered' = TRUE
  /\ UNCHANGED held
  /\ saved' = IF held # None /\ HeadOf[held.tree] = HeadOf[tree] THEN held ELSE saved

MeasureKept ==
  /\ Changed(tree)
  /\ SameTree(held, tree)
  /\ ~BlocksClaim(held)
  /\ answered' = TRUE
  /\ saved' = held
  /\ UNCHANGED held

MeasureUnguarded ==
  /\ Changed(tree)
  /\ ~Guarded(tree)
  /\ ~(SameTree(held, tree) /\ ~BlocksClaim(held))
  /\ answered' = TRUE
  /\ held' = None
  /\ saved' \in {saved, None}

MeasureGuards ==
  /\ Guarded(tree)
  /\ ~(SameTree(held, tree) /\ ~BlocksClaim(held))
  /\ \/ /\ answered' = TRUE
        /\ \E r \in Answers(held, tree) : held' = [tree |-> tree, result |-> r]
        /\ saved' = held'
     \/ /\ answered' = FALSE
        /\ UNCHANGED held
        /\ saved' = IF held = None THEN saved ELSE held

Measure ==
  /\ pc = "measure"
  /\ IF ChangedChecked
       THEN MeasureNothing \/ MeasureKept \/ MeasureUnguarded \/ MeasureGuards
       ELSE UNCHANGED <<held, saved, answered>>
  /\ pc' = "evaluate"
  /\ UNCHANGED <<tree, repo, budget, judged, process>>

(***************************************************************************)
(* The evaluator decides, once more when it blocked for want of an         *)
(* observation the run holds; a FIX that fails the quality contract is a   *)
(* BLOCKED.                                                                *)
(***************************************************************************)
Evaluate ==
  /\ pc = "evaluate"
  /\ \E first, second \in Decisions, grounded \in BOOLEAN :
       LET spoken == IF Reask(held, first) THEN second ELSE first
           passed == IF spoken = "FIX" /\ ~grounded THEN "BLOCKED" ELSE spoken
       IN  evaluator' = passed /\ decision' = passed
  /\ pc' = "gate"
  /\ UNCHANGED <<tree, records, budget, suite, audit, closure, process>>

\* A protocol finding only the founder may authorise clearing ends the run.
ProtocolStops ==
  /\ pc = "gate"
  /\ decision' = "ASK_USER"
  /\ End("REQUIRES_APPROVAL")
  /\ UNCHANGED <<tree, records, budget, suite, audit, evaluator, closure>>

\* The measured suite is folded in before any layer that judges claims.
Gate ==
  /\ pc = "gate"
  /\ decision' = SuitePrecedence(suite, decision)
  /\ IF Planned /\ CoverageGapOnly(suite)
       THEN pc' = "close" /\ closure' = "open"
       ELSE pc' = "combine" /\ UNCHANGED closure
  /\ UNCHANGED <<tree, records, budget, suite, audit, evaluator, process>>

-----------------------------------------------------------------------------
(* Coverage-gap closure: rounds of one wave each.                          *)

\* What closure leaves behind: the gate asked again, or the gap routed.
Closed(routed) ==
  LET asked == IF closure = "ran" THEN SuitePrecedence(suite, evaluator) ELSE decision
      kept  == closure = "ran" /\ asked = "FIX"
  IN  decision' = IF routed /\ ~kept THEN "FIX" ELSE asked

\* Nothing is uncovered any more, or a generated case failed.
ClosureSettled ==
  /\ closure = "ran"
  /\ suite.gaps = 0 \/ suite.failing
  /\ Closed(FALSE)
  /\ pc' = "combine"
  /\ UNCHANGED <<suite, budget, closure>>

ClosureOpen == suite.gaps > 0 /\ ~(closure = "ran" /\ suite.failing)

\* No wave can cover the gaps any more; one obligation is routed.
ClosureBudgetSpent ==
  /\ ClosureOpen
  /\ budget = 0
  /\ Closed(Routable(evaluator))
  /\ pc' = "combine"
  /\ UNCHANGED <<suite, budget, closure>>

\* The wave proposed nothing that runs: routed only if every refusal was of
\* an invocation its program does not accept.
ClosureWaveEmpty ==
  /\ ClosureOpen
  /\ budget > 0
  /\ budget' \in {budget} \cup AfterWave(budget)
  /\ \E inexpressible \in BOOLEAN :
       /\ inexpressible => budget' # budget
       /\ Closed(inexpressible /\ Routable(evaluator))
       /\ closure' = IF inexpressible THEN closure ELSE "stuck"
  /\ pc' = "combine"
  /\ UNCHANGED suite

\* The wave's scenarios run, their outcomes are merged and the gate re-asked.
ClosureWaveRuns ==
  /\ ClosureOpen
  /\ budget > 0
  /\ budget' \in AfterWave(budget)
  /\ suite' \in {s \in Suites : suite.unverified => s.unverified}
  /\ closure' = "ran"
  /\ UNCHANGED <<decision, pc>>

Close ==
  /\ pc = "close"
  /\ ClosureSettled \/ ClosureBudgetSpent \/ ClosureWaveEmpty \/ ClosureWaveRuns
  /\ UNCHANGED <<tree, records, audit, evaluator, process>>

-----------------------------------------------------------------------------
(* The layers after the gate.                                              *)

\* The changed guards override, then an unsupported claim overrides an ACCEPT.
Combine ==
  /\ pc = "combine"
  /\ LET measured == ChangedPrecedence(held, decision)
     IN  decision' = IF AuditOverrides(audit, measured) THEN "FIX" ELSE measured
  /\ pc' = IF decision' = "ACCEPT" THEN "review" ELSE "route"
  /\ UNCHANGED <<tree, records, budget, suite, audit, evaluator, closure, process>>

\* The review lets the ACCEPT stand, sends the builder back, or ends the run.
\* A supported review may settle what the audit was waiting for.
ReviewPasses ==
  /\ decision' \in {"ACCEPT", "FIX"}
  /\ audit' \in IF decision' = "ACCEPT" /\ audit = "REQUIRES_INDEPENDENT_REVIEW"
                  THEN {audit, "VERIFIED"} ELSE {audit}
  /\ pc' = "verify"
  /\ UNCHANGED process

ReviewEnds ==
  /\ \E outcome \in {<<"NEEDS_INDEPENDENT_REVIEW", "ACCEPT">>,
                     <<"NEEDS_USER", "ASK_USER">>, <<"BLOCKED", "BLOCKED">>} :
       End(outcome[1]) /\ decision' = outcome[2]
  /\ UNCHANGED audit

Review ==
  /\ pc = "review"
  /\ ReviewPasses \/ ReviewEnds
  /\ UNCHANGED <<tree, records, budget, suite, evaluator, closure>>

(* verify_repository_surfaces: the standing guards over the surfaces the   *)
(* changed files touch.  A change that touches none is not asked about.    *)
RepositoryTargets(t) ==
  DiscoverVerification(SurfacesTouched(FilesOf[t], SurfacePaths, SurfaceTexts),
                       MaxTargets)

(***************************************************************************)
(* _repository_verification: a cached answer is used for the same commit   *)
(* and the same names; otherwise the guards run, or cannot.  The answer    *)
(* counts when it is about those names.                                    *)
(***************************************************************************)
Ask ==
  IF ~RepositoryChecked \/ ~Changed(tree) \/ Cached(repo, tree)
    THEN UNCHANGED repo
    ELSE \/ UNCHANGED repo
         \/ \E answer \in RunVerification(RepositoryTargets(tree)) :
              repo' = [tree |-> tree, refused |-> BlocksAcceptance(answer)]

Refutes(r, t) == RepositoryChecked /\ Changed(t) /\ Cached(r, t) /\ r.refused

Verify ==
  /\ pc = "verify"
  /\ Ask
  /\ IF Refutes(repo', tree)
       THEN decision' = "FIX" /\ NextTurn
       ELSE /\ pc' = "route"
            /\ UNCHANGED <<judged, process>>
  /\ UNCHANGED <<tree, held, saved, answered, budget>>

Route ==
  /\ pc = "route"
  /\ \/ /\ decision = "ACCEPT"   /\ End("ACCEPTED")   /\ UNCHANGED <<budget, judged>>
     \/ /\ decision = "ASK_USER" /\ End("NEEDS_USER") /\ UNCHANGED <<budget, judged>>
     \/ /\ decision = "BLOCKED"  /\ End("BLOCKED")    /\ UNCHANGED <<budget, judged>>
     \/ /\ decision = "FIX"
        /\ decision' = "FIX"
        /\ NextTurn
        /\ budget' \in IF Planned /\ attempt < MaxIterations
                         THEN {budget} \cup AfterWave(budget) ELSE {budget}
  /\ UNCHANGED <<tree, records>>

Step == \/ StopRequested \/ Build \/ BuilderUnavailable \/ Operate \/ Measure
        \/ Evaluate \/ ProtocolStops \/ Gate \/ Close \/ Combine \/ Review
        \/ Verify \/ Route

Next == Step \/ Crash \/ Resume

(***************************************************************************)
(* The loop is one coroutine: a step that can be taken is taken.  Nothing  *)
(* obliges the machine to fail or an operator to resume.                   *)
(***************************************************************************)
Spec == Init /\ [][Next]_vars /\ WF_vars(Step)

-----------------------------------------------------------------------------
(* Properties.                                                             *)

\* Every variable holds a value of its type.
TypeOK ==
  /\ tree \in Trees
  /\ {held, saved} \subseteq Obligation \cup {None}
  /\ answered \in BOOLEAN
  /\ repo \in RepoAnswer \cup {None}
  /\ budget \in 0..MaxWaves
  /\ suite \in [failing : BOOLEAN, unverified : BOOLEAN, gaps : 0..MaxGaps,
                clash : BOOLEAN, full : BOOLEAN]
  /\ audit \in Audits
  /\ {evaluator, decision} \subseteq Decisions
  /\ closure \in Closures
  /\ pc \in Working \cup {"down", "ended"}
  /\ status \in Statuses
  /\ idle \in 0..1
  /\ attempt \in 1..MaxIterations
  /\ processes \in 1..MaxProcesses

(***************************************************************************)
(* An accepted run has nothing measured against it, whatever happened to   *)
(* the decision on the way: the gate does not block and rests on the full  *)
(* suite, no changed guard is refused or unmeasured, the audit does not    *)
(* contradict the claims, and the repository's guards do not refute the    *)
(* change (_apply_suite_precedence and the layers after it).               *)
(***************************************************************************)
AcceptedUnrefuted ==
  status = "ACCEPTED" =>
    /\ ~GateBlocks(suite) /\ suite.full
    /\ ~BlocksClaim(held)
    /\ audit \notin {"CONTRADICTED", "UNPROVEN"}
    /\ ~Refutes(repo, tree)

\* A question the evaluator put to the founder reaches the founder: no
\* measurement, closed gap or unsupported claim turns it into anything else.
FounderQuestionKept ==
  pc = "route" /\ evaluator = "ASK_USER" => decision = "ASK_USER"

(***************************************************************************)
(* What was measured against the product is work for the builder: unless   *)
(* the founder is asked, a changed guard that refused or was not measured  *)
(* leaves the iteration as a FIX, and so does a failed required scenario   *)
(* the evaluator accepted over.                                            *)
(***************************************************************************)
RefusalsAreWork ==
  pc = "route" =>
    /\ BlocksClaim(held) /\ evaluator # "ASK_USER" => decision = "FIX"
    /\ suite.failing /\ evaluator = "ACCEPT" => decision = "FIX"

(***************************************************************************)
(* A run does not end over coverage it could still have asked for: BLOCKED *)
(* with uncovered risks and nothing else against it means that a wave      *)
(* proposed nothing for a reason other than the approved vocabulary        *)
(* (_close_coverage_gaps, _verification_gap_decision).                     *)
(***************************************************************************)
NoDeadEndOnCoverage ==
  status = "BLOCKED" /\ Planned /\ evaluator \in {"ACCEPT", "BLOCKED"}
    /\ CoverageGapOnly(suite)
  => closure = "stuck"

(***************************************************************************)
(* The record the evaluator and every later layer read of the guards a     *)
(* diff changed was taken on the tree being judged, across edits, commits  *)
(* and restarts, whenever the tree changes a guard and the measurement     *)
(* did not raise.                                                          *)
(***************************************************************************)
GuardsMeasuredOnThisTree ==
  /\ ChangedChecked /\ answered /\ Guarded(tree)
  /\ pc \in {"evaluate", "gate", "close", "combine", "review", "verify", "route"}
  => held # None /\ held.tree = tree

\* A tree whose guard refused is not measured into a pass: neither another
\* iteration nor a restart re-runs the guard until it is green.
RefusalStands ==
  [][Refused(held) /\ held' # None /\ held'.tree = held.tree => Refused(held')]_vars

\* What was spent on generating scenarios is spent: no step and no restart
\* hands a wave back (_waves_recorded_on_disk).
BudgetNeverRefunded == [][budget' <= budget]_vars

\* Every process that is not killed comes to an end, the rounds of gap
\* closure included.
EveryProcessEnds == [](pc # "ended" => <>(pc \in {"ended", "down"}))
=============================================================================
