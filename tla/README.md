# Product Driver: a verification project

TLA+ models of Product Driver (`src/neyma_product_driver/`), TLC runs over small
instances of them, and theorems about them that TLAPS checks for every value of
the constants. Each module is translated from the code; `PROJECT.json` maps every
definition to the lines it stands for, lists the runs, the theorems, the hazards
of the code and the places where the code and its documentation disagree. The map
names each piece of code once: types, empty values and small helper predicates of
lines that another definition translates are not listed again.

To repeat a run: `tlc -config EvidenceStore.cfg MCEvidenceStore`; to repeat a
proof: `tlapm EvidenceProofs.tla`.

## 1. The system

The driver sends a task to a builder (a coding agent in a persistent session),
operates what the builder left, and decides: accept, send a correction, ask the
founder, or stop. It is one coroutine per process, but not alone: the files of a
run outlive the process, `stop` and `review` commands write to the same files,
a second driver may be started on the same repository, and the builder itself may
launch a finalizer.

The package has 64 files and 63,000 lines. They group into the components below.

| component | state it keeps | operations | hard part |
|---|---|---|---|
| iteration loop (`cli.py`) | `RunState`, the records of the measurements, the decision | one iteration of some thirty stages; terminal states; resume | the order in which layers override one another; records that outlive their tree |
| independent review cycle (`review_cycle.py`) | the ledger of reviews bound to fingerprints, the count of refusals | requirement, invalidation, launch, routing, one retry | reviews of trees that come and go; refusals counted against a budget |
| reviewer session (`reviewer*.py`, `command_guard.py`) | a session of its own, its transcript | admit, record, weigh what was run | which answer belongs to which request; evidence it really gathered |
| decision layers (`scenario_gate.py`, `evaluator.py`, `completion_auditor.py`) | none between iterations | gate, evaluate, audit | precedence; what a word may buy |
| changed-surface verification (`changed_verification.py`, `verification_obligations.py`, `guard_coverage.py`) | a record of what each changed guard answered on which tree; obligations routed to the builder | select, operate a bounded pass, carry, bind, discharge | evidence of another tree; windows in which an answer counts |
| repository verification (`repo_verification.py`) | a per-process cache | find the guards of a surface or a file, run, add up | the key of the cache |
| scenario planning (`scenario_planner.py`, `scenario_plan.py`, `scenario_validation.py`) | the plan, waves spent, held and retired scenarios | plan, refine, re-derive, close gaps, resume | budgets across restarts; coverage that is silently lost; an instrument that changed |
| scenario suite (`scenario_suite.py`, `scenarios.py`, `outcome_contract.py`) | outcomes | build, execute, judge, merge | a pass that measured nothing |
| evidence lineage (`evidence_lineage.py`) | tree and definition stamps of outcomes | stamp, assess, inherit, accumulate | an old pass that no longer describes the tree |
| evidence store (`evidence.py`) | the run directory | allocate an iteration, write records and state, publish, stop sentinel | several processes and crashes, no lock |
| repository ownership (`ownership.py`) | two kernel locks and their records | acquire, release, probe | exclusion, and who is named |
| builder session (`builder.py`, `prompts.py`, `context.py`, `policy.py`) | the session, its hold on the worktree | connect, send, close | errors; commands that move the tree |
| phase acceptance and closure (`phase_closure.py`, `phase_acceptance.py`, `phase_authority.py`, `criterion_kinds.py`) | criteria, evidence, findings, adjudication, closure state | preflight, ingest a review, settle, retire for a tree | a ledger rewritten from many sides; a fixed stop rule |
| acceptance record and commit (`acceptance_record.py`, `acceptance_commit.py`) | the record in the repository | plan, write, verify, roll back | all or nothing |
| external verification (`external_verification.py`) | the record of another machine's verdict | probe, classify, accept | a verdict on another commit |
| protocol resolution (`protocol_*.py`, `repo_state.py`, `git_topology.py`, `deadlock_detector.py`, `remediation_planner.py`) | a report, an approval | resolve rules and state, plan, approve, certify | history lost by a repair; a lawful state taken for a deadlock |
| investigation (`investigator.py`, `hypothesis_engine.py`, `probe_runner.py`, ...) | beliefs, observations, probes run | hypothesise, probe, challenge, conclude | a cause named without a measurement |
| completion audit and journal (`completion_auditor.py`, `run_journal.py`, `task_scope.py`) | the written account of a run | scope, audit, journal | an account that says more than the evidence |

How they interact: the loop calls everything else and holds their answers in
local variables for the length of an iteration; three of those (the record of the
changed guards, the cached answer of the repository, the last suite result)
outlive it. The store is the only channel between processes. The locks of
ownership are the only thing that keeps two processes apart. Reviewer, builder
and evaluator are sessions with a model whose answers are inputs.

What makes each of them correct, and is stated below as properties: an acceptance
that nothing measured refutes; evidence that describes the tree it is used for;
nothing recorded that did not happen, nothing that happened lost; bounded budgets
that no restart hands back; every process ends; one owner at a time.

## 2. The modules

| module | models | with | implements |
|---|---|---|---|
| `ControlLoop` | the iteration, its layers and its records | `RepositoryGuards` | |
| `ReviewCycle` | the review step and what follows it | `ReviewerSession`, `CommandBoundary` | `ReviewedAcceptance` |
| `PhaseClosure` | one attempt at closing a phase | `PhaseAcceptance`, `AcceptanceRecord`, `RepositoryGuards` | |
| `CoverageGaps` | the suite, the gate and the gaps routed to the builder | `ScenarioExecution`, `ScenarioGate`, `VerificationObligations` | |
| `ScenarioPlanner` | the plan of a run over its processes | `ScenarioProposal`, `ScenarioValidation` | |
| `ChangedVerification` | the passes over the guards a diff changed, and their record | | |
| `EvidenceStore` | the run directory and all its writers | | `AppendOnlyRun` |
| `EvidenceLineage` | which earlier outcomes a suite carries | | |
| `Ownership` | the locks, the builder's hold, the guard's probe | | `ExclusiveOwner` |
| `CompletionAudit` | the audit of a report and what the run may say after it | `TaskScope` | |
| `ProtocolResolution` | a repository under its own commit protocol | | |
| `Investigation` | the diagnostic loop | | |

`MCxxx` gives a module its small constants, `xxxProofs` holds its theorems
(`ReportProofs` those of `CompletionAudit` and `Investigation`, `RepositoryProofs` those
of `Ownership` and `ProtocolResolution`, `EvidenceProofs` those of `EvidenceStore` and
`CoverageGaps`, `ResumeProofs` those of `EvidenceLineage` and `ScenarioPlanner`). The
modules named under "with" have no variables: they hold the pure half of a component
(rules over a criterion set, an ordering of rules, the judgement of one command), as
operators the module above them applies in its actions.

One iteration is opened in several modules from several sides because the state each
property needs is different; what one of them opens the others keep as a
nondeterministic step of their own (the review in `ControlLoop`, the judgement in
`ReviewCycle`, the whole work in `EvidenceStore`, the measurement of the guards in
`ControlLoop`, every other layer in `ChangedVerification`), so that each of them allows at
least what the code does there.

Conventions. A working tree is a model value, or a function from paths to
contents where contents matter. What a measurement, a model or a person answers is
chosen by `\E`. Definitions that open with "Faulty" in their comment, or that
describe a plausible slip beside the definition they precede, are mutations: no
action uses them, and `PROJECT.json` says which property each breaks. Constants
whose comment says "bound of the model" or "bound" do not exist in the code.

### 2.1 ControlLoop

State: `tree`; `held`, `saved`, `answered` (the changed-verification record in the
process, in `state.json`, and whether this iteration's measurement raised); `repo`
(the cached answer of the repository's guards); `budget` (waves left); the
judgement of the iteration, `suite`, `audit`, `evaluator`, `decision`, `closure`;
`pc`, `status` and counters. Actions, in the loop's order: `StopRequested`,
`Build`, `BuilderUnavailable`, `Operate` (suite and audit), `Measure` (the changed
guards), `Evaluate` (with the re-ask and the quality gate), `ProtocolStops`,
`Gate` (suite precedence), `Close` (rounds of coverage-gap closure), `Combine`
(changed guards, then audit), `Review`, `Verify`, `Route`; and `Crash`, `Resume`.
`Verify` asks `RepositoryGuards` which of the repository's test files speak of the
surface that changed (or, at a phase's acceptance, read the record that was written)
and adds up what they answer: a guard that can be run and refuses is decisive, one
that cannot be run refuses nothing.

Checked: `AcceptedUnrefuted`, `FounderQuestionKept`, `RefusalsAreWork`,
`EveryProcessEnds`. Proved besides, and not run again: `NoDeadEndOnCoverage`,
`GuardsMeasuredOnThisTree`, `RefusalStands`, `BudgetNeverRefunded`.

### 2.2 ReviewCycle

State: the ledger of records (tree, verdict, independence, the tree that
superseded it), the captured `fingerprint`, the facts of the requirement
(`situation`), corrections sent, what the next builder turn will be sent
(`prompt`). `BeginReviewStep` captures, invalidates and asks whether a review is
owed, `ReviewReturns` has one action per route a verdict can take, `TreeMoves` is
anybody else who writes to the repository meanwhile.

What a review is comes from `ReviewerSession`. A session is the order in which a
reviewer asked for tools and their answers came back: the hooks admit each request
against `CommandBoundary` (the guard, the reviewer's floor and vocabulary, the
indirections it looks through) and join answers to requests; the harness then reads
every command against the oracle that is in force for it, the repository's own where
a scenario file declares one and the reviewer's otherwise, and lowers what the
reviewer claims to what was measured. Requests of equal text that are open at once,
answers out of order and answers that never come are all there.

Checked: `AcceptedIsReviewed`, `EvidenceIsMeasured`, `EveryProcessEnds`, and the
abstract contract `ReviewedAcceptance`: a claimed tree, the trees vouched for, and
an acceptance only of a claimed tree that is vouched for or owes nothing. Proved
besides: `LiveReviewsAreCurrent`, `CorrectionsWithinBudget`, `RetiredStaysRetired`.
`AcceptedIsReviewed`, `EvidenceIsMeasured` and the contract are proved too.

### 2.3 EvidenceStore

State: the disk (`state.json`, sentinel, directories, files, `accepted/`), the
`RunState` each process holds in memory, and where each process is. A save
truncates and then writes (`BeginSave`, `EndSave`); `save_accepted` removes, makes
and copies; `mkdir` is the only atomic claim. Drivers, `stop` commands and `review`
commands are separate processes; `Crash` takes any of them at any step.

Properties: `StateNamesEvidence` (the state never claims what the evidence does
not show), `StopIsHeeded`, `AcceptedWasAccepted`, and the contract `AppendOnlyRun`.

### 2.4 EvidenceLineage

State: `head` and worktree, the suite and the definition of each scenario, the
result of each iteration on disk (torn while it is written), the result this
process last knew. The blast radius is defined as the code computes it: the least
set closed under imports, in the worktree as it is. An outcome carries the tree it
really ran on, which only properties read.

Checked: `CarriedMeansMeasured` (the four-part rule is sound), `NothingDropped`,
`NewestStands`. Proved besides: `PermanentIsFresh`.

Not in it: records of older versions without a stamp, a digest or an evidence
path; outcomes that the loop withholds (`_withhold_held`); files git ignores; a
driver without a planner, which always runs its whole suite. Each of them only
makes the code carry less.

### 2.5 Ownership

State: which process the kernel says holds each lock, whom each file names, where
each process is. Taking a lock is three steps (open, flock, record), leaving it
two; the command guard's probe is the lock taken and given back by a process that
does not own it. The finalizer program is not part of the repository; its use of
`finalizer_lock` is.

Checked: `HeldFromInside`, and the contract `ExclusiveOwner`. Proved besides:
`OwnerIsNamed`.

### 2.6 ChangedVerification

State: the working `tree` and what surrounds the driver (`env`: is there a test
runner, how is each script declared to be invoked); `held` and `saved`, the
record of the changed guards in the process and in `state.json`; `prior` and
`left`, the record a pass carries from and the passes the step may still take;
`stalled` and `raised`, which only properties read. A tree has a commit and a
diff: guards edited, deleted, unproved (they assert an absence and no case shows
they can still fire), the repository's own guards over the other files. A record
keeps the surroundings it was selected in and, for each guard executed, the
command, the tree and the answer: pass, refusal, or no assertion reached.

Actions: `BuilderTurn`; the four ways the step starts (`NothingChanged`,
`AlreadyObserved`, `NoGuardChanged`, `StartPasses`); `Pass` (select, carry,
execute the next few, hold, persist), `NextPass`, `PassRaises`; `Judge` (the other
layers' decision, the record's precedence over it, the route); `Crash`, `Resume`.
Deriving a guard's command and its absence assertions from source text is an
input, and so is every other layer. A record another version wrote, and a working
tree whose hash cannot be taken, make the code measure again and are left out.

Checked: `AcceptedIsOperated`, `ConclusionsStand`, `EveryProcessEnds`. Proved
besides: `AnswersItsOwnQuestion`, `PassesReachAll`.

### 2.7 PhaseClosure

State: the history (`commits`) and the working tree (`work`), a tree being the
content of four paths, two of which are the acceptance record; `attempt`, the
persisted `phase-closure.json` with everything it holds (candidate, bar, evidence
references, scores, findings, the external record, the adjudication, gaps, rounds,
sessions); `close`, the local variables of a `phase close` that is running; counters;
and two histories only properties read: `accepted`, what the last acceptance rested
on, and `unclean`, whether a command read product that no commit carried, or product
that had changed while no criteria were to be found.

Actions. The repository moves by `EditProduct`, `EditTest`, `EditRegistry`,
`EditDocument`, `Commit`, `Pull`, `UpgradeRule`. The founder gives three commands:
`PhasePreflight`, `SupplyExternal`, `PhaseClose`. The last runs in steps (`Process`):
`AskGate` takes the fixed stop rule; `Launch` or `Decline` spends an adjudicator's
session; `Reply`, `NoSecondReply`, `Uncounted`, `Finish` ingest what it says; then
`WriteRecord` or `NoRecord`, `WriteDocument`, `RunGuards` or `GuardFails`, `Baseline`,
and `KeepRecord` or `RollBackRecord`. `Crash` takes the command anywhere; the attempt
stays as the last step saved it.

`PhaseAcceptance` is what a criterion set, a list of references and a finding come to;
`AcceptanceRecord` is what the repository shows of how an accepted unit looks, the
edit of the registry that follows, and the documents that restate it.

Checked: `AcceptedAsReviewed`, `DemonstratedStaysDecisive`, `GatesSettleTheirOwn`,
`RecordStandsWhole`; all four are proved. The first says that the product which is accepted is the one an
independent adjudication read, however the record moved in between; it excepts what
the code does not prevent (section 6).

### 2.8 CoverageGaps

State: the judged `tree`; how many risks the register holds (`known`); the
`obligations` of `state.json` with their windows, bindings and executions; what this
iteration measured (`observed`); the `evaluator`'s decision; `waves` left; what the
next prompt names (`asked`) and what prompts have named (`named`); `iteration`, `stage`.
Actions: `BuilderTurn`, `Operate` (the suite, then the obligations on the judged tree),
`Judge`, `LeaveGate`, `RunWave`, `EmptyWave`, `RouteGap`, `CloseEnds`, `Decide`,
`ResumeRun`.

`ScenarioExecution` runs a suite in one of a few worlds (all is silent, measured,
broken, the evidence cannot be shown, two scenarios collide, a service is not ready)
and judges each step against its expectations, claims and outcome contract;
`ScenarioGate` orders what the suite says into one outcome; `VerificationObligations`
says which tests may answer a routing, in which window, and what their answers mean.

What the executor concludes of an execution (`Execute`) and what there was to conclude
(`Measures`) are two definitions over the same world. The second reads the scenario and
the answers alone: the setup succeeded, the services became ready, every operation was
performed and answered in everything it expects (`Met`), and the claim's checks exist,
ask something and printed what the claim says (`BornOut`). `CoverageIsMeasured` compares
the two. An expectation is what the scenario states: a command that states texts only and
is killed at its deadline after printing them has met it, as in the code.

Checked and proved: `RedGuardRefuses`, `AnsweredAsNamed`, `EvidenceStands` and
`CoverageIsMeasured`. What is covered together with a wording that was named was either
named with it, speaks for the same risk in the sense of `SpeaksFor`, or shares its ground.

### 2.9 ScenarioPlanner

State: the plan, what can be run (`compiled`) and what a resume could not build; the
wave counter and the offset of the wave files; what passed; what is on disk
(`file`, `waveFiles`) and what the scenario files say now (`repository`); the records
of refused runs; and five histories for the properties. Actions: `PlanInitial`,
`Refine` or `NothingToRefine`, `Expand`, `Rederive`, `DeriveWave` or
`NothingToDerive`, `Execute`, `Widen`, `AcceptRun`, `NextTurn`, `Stop`; the disk decays
and is repaired (`Corrupt`, `Repair`); a process starts with `StartAbsent`,
`StartUnreadable` or `StartRestored`.

`ScenarioProposal` is what a proposal must be to enter the plan: safe, grounded in a
declared service or command, of known provenance, not a duplicate, within the scope.
`ScenarioValidation` is what a resume makes of an admitted scenario when the
repository's command file has changed: fine, rebound, impossible, contradicted by its
own record, or without an executable.

Checked: `Accounted`, `NothingLeavesQuietly`, `BudgetBinds`,
`OneObligationOneBudget`, `OneResumeSettles`; all five are proved. What a batch of
candidates, a list of obligations or an answer comes to is a recursive function of how
many were read (`Accepting`, `Admitting`, `Carrying`).

### 2.10 Investigation

State: the tree and how often it moved, the fingerprint the loop last read, the
trigger, the belief in each explanation (status, confidence in thousandths, direct
support), observations with the reliability of their source, probes run, rounds
challenged, the result. Actions: `Begin`; `Pass`, which either stops (`StopConverged`,
`StopSpent`) or reads again (`Reobserve`) and goes on to a probe (`NoProbe`,
`AskFounder`, `RunnerRefuses`, `Probe`); `Challenge` or `Unchallenged`; `Settle`;
`Move`. What a reasoner proposes and a challenger names is open.

Checked and proved: `RootCauseIsMeasured`, `RefutationStands`.

### 2.11 CompletionAudit

State: the task, the repository with what it records, the builder's report, the
audit's decision, the judgement of the layers before it, the reviews, the tree of the
one that satisfied, the journal. Actions: `Build`, `BuilderFails`, `Audit`, `Judge`,
`ReviewNotOwed`, `ReviewSupports`, `ReviewRefuses`, `ReviewUnavailable`,
`VerifyRepository`, `Finish`, `Correct`, `BudgetSpent`, `WriteJournal`. `TaskScope`
reads what a task asks for and what it thereby owes.

Checked: `EstablishedMeansDone`, `WordsNeverHelp`, `ReviewIsLast`; all three are proved.

### 2.12 ProtocolResolution

State: what is true of the repository (`repo`: rules, declared order, tag, what can be
read), every commit ever made and where HEAD, remotes and archival refs point, the
derived status in the working tree, the receipt, the report and the plan approved; two
histories (`certified`, `unit`). Actions: `BuildContent`, `HandStatus`,
`CommitReceipt`, `RunSuite`, `Finalize`, `Push`, `Amend`, `Report`, `Approve`,
`Execute`. The resolver is a set of operators over this state: topology and units,
violations, receipts, the status a repository is in, deadlocks, plans. Its first part
decides which of several rules binds and which contradictions only a founder settles.

Checked and proved: `HistoryKept`, `LawfulGoesOn`.

### 2.13 Not modelled

`preservation.py` and `worktree_state.py` (the driver uses them to capture one
identity, which is an input); what `runner.py` does to start a process, poll for
readiness and end a process group (its answers are in `ScenarioExecution`); prompts,
reports, announcements and the command line; the calibration report and `doctor`,
which change no state of a run; the parsing of the configuration; the rendered
journal and `journal_integrity.py`, which the driver never calls; the extraction of
protocol rules from prose and of guards from source text (`guard_coverage.py`), whose
results are inputs; the clustering of failures before an investigation.

## 3. The runs

| run | instance | distinct states | what it shows |
|---|---|---|---|
| `review_cycle` | 2 trees, 2 processes of 3 iterations, sessions of one or two commands with five shapes of answer, 11 replies, correction budget 1 | 163 thousand | 2.2: safety, liveness, contract |
| `control_loop` | 4 trees, one surface, 5 test files (standing, unable to start, weaker, of a feature, installed), 2 targets, 2 processes of 2 iterations | 1.2 million | 2.1: safety and liveness |
| `phase_closure` | a criterion of each kind, 5 registries, 3 documents, 3 test files, 2 moves, 2 commits, 2 sessions, 3 commands | 4.1 million | 2.7 |
| `coverage_gaps` | 3 wordings of risks (one restatement accepted, one refused), 4 trees, a permanent and two generated scenarios, 9 measurements, a wave in 3 worlds, 3 iterations | 1.6 million | 2.8 |
| `scenario_planner` | 4 ids, 3 states of the scenario files, 8 answers of the generator, 2 waves, 3 processes, 6 records | 2.7 million | 2.9 |
| `changed_verification` | 5 trees on 2 commits, 4 guards (one a script, one the repository's own), 4 surroundings, passes of 2, 2 processes of 2 iterations | | 2.6: safety and liveness |
| `evidence_store` | 2 drivers, 2 sessions of 2 iterations, 1 command, 1 occupied name | | 2.3 and its contract |
| `evidence_lineage` | 2 paths, 4 trees, a permanent and a generated scenario, 3 iterations, 1 crash | 15.9 million | 2.4 |
| `ownership` | 2 builders, 2 finalizers | | 2.5 and its contract |
| `completion_audit` | 3 repositories, 7 reports, 6 tasks, 2 iterations | 6.2 million | 2.11 |
| `protocol` | 5 commits, one of them stray, 2 rule sets, 2 repositories | 617 thousand | 2.12 |
| `investigation` | 3 explanations, 4 probes, 1 move, 2 iterations | 861 thousand | 2.10 |

Why the bounds are enough. Every property relates at most two trees, two processes
or two iterations, plus one event between them; the instances have one more than
that where the event can repeat: two trees that share a commit and file names but
not a content and two that do not; a review of a tree that goes and comes back
(three iterations); a process and its successor, or two (a plan that is lost and then
resumed); a budget smaller than the number of times it could be spent; three changed
guards in passes of two; a certified unit and one laid over it. A phase needs two
moves because the record may move while the product does; larger values were tried
while the model was written (four moves found the observation of section 6 about
preflight) and take too long to repeat. Every action and disjunct fires in these
runs, and for every property there is a mutation of the code's rule, in
`PROJECT.json`, with which the same run fails. `evidence_store` uses symmetry in the
drivers only, and has no liveness property.

Runs say `CHECK_DEADLOCK FALSE` where the system stops: a run that ended and may
not be resumed any more, a plan accepted, a history at its bound has nothing left to
do. `Ownership` has no end and checks for deadlock.

Fairness. `ReviewCycle`, `ControlLoop` and `ChangedVerification` assume `WF_vars(Step)`: the loop is one
coroutine whose awaits all carry a timeout, so a step that can be taken is taken.
Crashes, resumes, edits from outside and stops are not fair. Nothing is assumed of
what a model answers. The other modules are checked for safety only and assume no
fairness: what they wait for is a person or a model (an approval, a verdict, an
adjudicator), and the code promises nothing about when it comes.

## 4. The proofs

All proofs are for arbitrary constants under the named `ASSUME` of the module
(sets are disjoint, bounds are naturals, tables are functions of the right type),
which TLC evaluates in every run. Some invariants of these modules are proved and no
longer checked by a run (section 2 names them): TLC agreed with each before the proof.

- `ReviewCycleProofs`. Type correctness needs that a review step works on a
  captured tree (`CapturedInv`). `AcceptedIsReviewed` is not inductive: at the
  acceptance the review is already a thing of the past. `ReviewedInv` says at
  `verify` and `route` what the review step established, and rests on
  `LiveReviewsAreCurrent`, which rests on `InvalidateStale` leaving nothing
  current but the captured tree (`InvalidateLeavesCurrent`). The budget needs that
  corrections never exceed the refusals in the ledger (`BudgetInv`). The
  refinement maps the ledger to the trees vouched for (`Standing`); each step is
  an abstract step or a stutter (`PromiseStep`).
- `ControlLoopProofs`. `Layered` says, at every place of the pipeline, what the
  decision still owes to the layers passed and what it has already been cleared
  of; `AcceptedUnrefuted`, `FounderQuestionKept`, `RefusalsAreWork` and
  `NoDeadEndOnCoverage` follow from it at the end. `GuardsMeasuredOnThisTree`
  needs `HeldIsSaved`: the process and `state.json` agree on the record.
- `EvidenceProofs`, of the run directory and of the gaps. `EvidenceStore`: the invariant
  has seven parts: `Budgeted` (bounds of a
  session), `Dense` (numbers claimed are directories made, and nobody is ahead of
  them), `Owned` (who works on a number claimed it), `Filed` (files belong to
  claimed numbers and none is written before its step), `Evident` (what any
  memory or file claims is on disk), `Published`, `Heeded`. `Evident` is what
  makes a save by a command with a state it loaded long ago harmless: evidence
  only grows, so what was backed stays backed (`StaysBacked`). `Filed` gives
  `EvidenceIsAppendOnly` step by step (`StepKeepsPromise`). `CoverageGaps`: the register
  and the coverage are recursive functions of the risks, so both come with lemmas by
  induction over the naturals: a restatement always names an entry that restates
  nothing (`RegisteredSound`), and every entry of the coverage is the judgement of the
  wording that leads it, with wordings of the same obligation or the same ground
  (`EntryOf`, `CoverageEntries`). `RedGuardsRefuse` follows for every state in which
  what is known is a register (`KnownRisks`). The invariant `GapInv` says that the
  obligations are a ledger and that each is `Sound`: its wordings speak for what was
  named (`Spoken`), and so do its category and its subjects (`OpenedBy`). Adopting
  a wording keeps that because a chain of restatements ends at one root
  (`AdoptSound`), routing because a group is one obligation (`RouteGaps`), and knowing
  more risks never hurts (`SoundGrows`). `GapEvidenceStands` is the same induction with
  `Keeps`, what no operation on an obligation may change. `CoverageMeasured` is an
  induction in three layers. Over the operations of one execution: `Accounts` says
  that a result in which nothing failed so far answers every operation performed, has seen
  what they printed and wrote their fixtures, and remembers of each check's name that all
  checks of that name passed and asked something (`Remembered`); each kind of operation
  has a lemma that what it asserts, when all of it holds, is what the operation expects
  (`CommandFollows`, `BrowserFollows`, ...), and `PassedMeans` concludes that a scenario
  that passed was `Met` and its established claims `BornOut`. Over the entries of a suite,
  built (`SuiteBuilt`) and run in whatever order their ranks give (`SuiteRuns`): every
  outcome is `OutcomeSound`, so that neither a skipped or blocked entry, nor one that is
  disowned, stands for what was not run. Over the run: `MeasuredInv`, to which a wave adds
  sound outcomes under another name. Of the constants (`GapsAssumption`) it is assumed
  that the value that stands for nothing is no integer, no risk's key, category or
  identity; that the lists are lists; that ranks are naturals; and that the permanent
  scenarios load, and the generated ones have something to observe, as the code requires.
- `ResumeProofs`, of what a resumed run may still use. `EvidenceLineage`: the core is a
  lemma about the blast radius and not about the loop: if nothing that changed between
  two trees touches the radius computed in the later one, the earlier one had the same radius and the scenario
  saw the same contents, unless a file it saw is gone (`UntouchedSeesTheSame`,
  from `SubjectClosed`, `SubjectSmallest`, `SameSubject`). The invariant around it
  says where outcomes come from (`Filed`, `Stamped`), that no iteration runs ahead
  (`Begun`, `Behind`) and that newer results are written later (`Ordered`).
  `HasNewest` (every non-empty set of iterations has a newest) is by
  well-founded induction over a set of naturals, `WFMin`.
  `ScenarioPlanner`: the invariant `PlannerInv` says what the plan is, what is on disk and
  what was spent. `GoodPlan` is the shape of a replacement chain: ids are distinct, what
  was replaced names a later scenario of its category, at least as severe and with at
  least its attempts, and what is impossible has a risk that stands for it. `PlanWritten`
  says that no process holds a plan it has not written, which is what a resume needs.
  `Counted` puts every charge under the attempts of a scenario that is listed, so that
  `OneObligationOneBudget` follows from the bound on attempts. `WavesRemembered` says of
  which of the two places, the plan and the wave files, the spent waves can be read when
  either was torn or lost; persisting only part of the records keeps it
  (`PersistRemembers`) and so does counting anew from the highest (`StartRemembers`).
  `Accounts` and `Settles` are about what can be run: generation admits only what a
  resume would leave alone (`AcceptedFit`, `GrowBodies`), and what a resume rebuilt it
  leaves alone the next time (`RereadIs`), because a literal the new owner is reviewed to
  print is not stale again (`OwnedRematerialized`) and a reconstructed command is
  contested by nobody (`ReconstructIs`). `Answered` keeps at the acceptance what the gate
  asked. `NothingLeavesQuietly` is then an induction from the end of the plan
  (`AnsweredFor`), since what replaced a scenario is listed after it. The recursive
  functions come with lemmas by induction over the naturals (`AcceptingStep`,
  `AdmittingStep`, `CarryingStep`). Of the constants (`PlannerAssumption`) it is assumed
  that bounds are naturals and that the generator answers with lists of proposals, which
  carry no provenance yet, and with risks of the four severities.
- `RepositoryProofs`, of the locks and of the commit protocol. Locks: `InsideHolds`,
  the converse of `HeldFromInside`: who is past `flock` and before its release is whom
  the kernel names. Exclusion, the record and the refinement follow from the two
  together. Protocol: histories are a recursive function of the commits made, so its
  lemmas come first, by induction over the ids (`CommitsByInduction`): the recursion is
  well-founded because a commit comes after its parent (`HistoriesExist`), and a commit
  more changes no history (`HistoryStands`). `HistoryKept` then needs where every
  baseline comes from: a recorded one is what a commit of the finalizer certified
  (`Certifies`), so each way of choosing one stays on the branch (`BaselineOnBranch`),
  and an approval rewrites what has no certificate in it (`Lawful`). `LawfulGoesOn`
  needs that two commits of a branch never have one tree (`Distinct`) and what the
  status and the receipt say of a lawful unit (`UnitIsPair`): it is seen as one content
  commit, with or without the finalizer's on it (`ClosedSeen`, `OpenSeen`), the receipt
  is not of the commit that carries it (`NotOfItself`), and then no rule of any
  repository finds a violation, an edge back or an option (`UnhinderedGoesOn`). Assumed
  (`ResolutionAssumption`) is what kind of records rules and repositories are.
- `ChangedVerificationProofs`. `IInv` joins type correctness with `RecordsSound`
  (every record, in memory, on disk or carried from, answers its own question),
  `SavedIsHeld` (what a process holds is on disk), `StepInv` (what a pass carries from is what is held) and
  `AcceptedInv` (an accepted record blocks no claim). `PassesReachAll` needs
  `ProgressInv`: while no pass has stalled, more passes remain than changed guards
  are owed, because each concludes at least one. That a batch of a non-empty set
  is not empty needs a first guard, by well-founded induction on ranks (`WFMin`).
- `PhaseClosureProofs`. All four properties of the `phase_closure` run, for any
  criteria, registries, documents, replies and bounds. Records are described by
  membership in sets of records (`IsFinding`, `IsAttempt`, `IsTree`), and each
  operation of the ledger has a lemma that names the fields it may change (`Keeps`).
  `DemonstratedStaysDecisive` needs `Sound`: a demonstration is live, is no statement
  about one adjudication, and blocks or contradicts; what is withdrawn is a statement,
  what is re-routed is routed again. `GatesSettleTheirOwn` needs `Gated`: past
  preflight, whatever stands for a gate is about the candidate tree, so a settled
  status is evidence on that tree (`StatusIsEstablished`). `AcceptedAsReviewed` rests
  on `HInv`: the product an independent adjudication read is the one the candidate's
  commit carries, because an adjudication outlives a moved tree only over a change of
  the record alone (`RecordOnlyKeepsProduct`). `RecordStandsWhole` rests on `RInv`,
  that what a close writes, tries and restores is the plan over the tree it accepted,
  and on a lemma about the restatement: if no stale claim is stuck, every live claim
  afterwards says what the registry says (`RestatementAgrees`). The theorems assume
  `NoneIsApart`: the value that stands for nothing is no fingerprint and no acceptance.
- `ReportProofs`. Of `CompletionAudit`, all three properties of the `completion_audit` run, for any
  phase, repository and report. `WordsNeverHelp` is a lemma about the audit and not
  about the run (`WordsEarnNothing`): what a silent report is contradicted by and owes,
  any report is and does (`SilenceContradictsLeast`, `SilenceOwesLeast`), and the one
  branch in which a larger debt could earn the softer verdict is reached by silence
  too (`OnlyReviewRemains`). `EstablishedMeansDone` needs that nothing the audit found
  is dropped until the iteration ends (`OutstandingStands`) and that an owed review
  that was passed by supported this tree (`ReviewedBeforeVerified`); `ReviewIsLast`
  needs that the audit at the review's turn is this iteration's (`AuditIsFresh`).
  Assumed of a repository and a report (`AuditAssumption`) is only what kind of
  records they are. Of `Investigation`, both properties, for any explanations, probes,
  readings and reports: `Founded` says that direct support and a refutation each have
  a direct observation on record, one update keeps it (`UpdateFounded`), and so does a
  sequence of them, by induction on its length (`BeliefsStep`, `UpdatesFounded`);
  `Caused` carries it over the end of the loop. A `SUPPORTED` explanation is supported
  directly, which is what lets the winner of either rule be measured.

Only model-checked: `EveryProcessEnds` in its three modules, because liveness is beyond
the prover. Every invariant and every other action property a run checks is proved.

Safety theorems do not need fairness, and no proof uses it.

## 5. Hazards

`PROJECT.json` lists them at their lines. Each has a property that would catch it.

## 6. What the runs do not show, and what was met on the way

Places where the code does something a reader of its documents might not expect. None
is a run here; each is what the model does too, so the properties above hold with it,
or say what they except.

Phase closure.
- A preflight that finds no declared criteria records the new candidate and retires
  nothing (`phase_closure.py:1349-1386`). If the registry is then restored by a change
  of the record alone, the adjudication of the earlier product still stands.
  `AcceptedAsReviewed` excepts it, as it excepts an uncommitted product handed to a
  command (`cli.py:7164`) and a commit that lands while one runs.
- A second adjudication that reuses an identifier can swallow a demonstration
  (`phase_closure.py:2207`); two that disagree about different trees can never be
  closed; criteria that moved do not end an attempt (`phase_closure.py:48-52`).
- A crash between the record's write and its guards leaves a unit that reads as
  already accepted and was never verified, with its document not edited. Rolling back
  restores the candidate tree over whatever was written meanwhile.
- A guard that fails and cannot be rerun on the baseline counts as already red, so a
  record that breaks it is kept (`acceptance_record.py:1911-1919`).
- A document declared live that does not classify as a record is neither edited nor
  reported (`acceptance_record.py:963-971`).

The loop and its records.
- The founder is told that a change was refused *again* although the first refusal
  was only asked twice (`review_cycle.py:776`); the repository's correction replaces
  the reviewer's findings (`cli.py:1459`); the cached answer of the repository is keyed
  by commit and file names (`cli.py:1692`); `stop` saves the whole state over what the
  driver recorded meanwhile (`cli.py:7501`); with no diff left the record of another
  tree stays in place (`cli.py:1763`).
- A module deleted while it is still imported is outside the radius
  (`evidence_lineage.py:305`); guards that cannot be run are tried again at the head
  of every pass and may starve the rest (`changed_verification.py:1338`); looking at a
  lock takes it for an instant (`ownership.py:205`).
- Output over 8000 characters loses its middle, and with it a word that must be absent
  (`reviewer_evidence.py:448`).

Scenarios.
- A permanent scenario without any expectation passes; an unscoped claim can be met by
  the output of the setup; the directory collision of two runs revokes only outcomes of
  the same suite; an infrastructure answer is cached per tree and command and never
  asked again (`verification_obligations.py:424`); a tree that cannot be compared
  closes a window (`verification_obligations.py:355`).
- A red bound guard is read only for the wording that leads an entry. One that joins
  an entry by its ground (`scenario_gate.py:555`), or that two obligations speak for
  because a third wording joined both, is judged by the leading wording's first
  obligation, and its own red guard is not consulted.
- A test that moved and was moved back still discharges an obligation; a third wording
  joins two obligations.
- After an unreadable plan (`scenario_planner.py:2082`) the next process but one may
  be accepted without what the lost plan owed. A risk restated word for word at a lower
  severity carries nothing over. A crash inside the generator's call gives the wave
  back. A resume checks the commands and services of a scenario again, but not its
  targets (against the comment at `scenario_validation.py:2289`).

Investigation and audit.
- A probe that never ran still reports its signal as absent (`probe_runner.py:437`);
  convergence is tested before an inconsistent environment
  (`investigator.py:354-368`); a fact read again unchanged raises a confidence;
  what refuted a cause on an earlier tree refutes it on this one.
- `satisfying` is never cleared (against `run_journal.py:1121`); the journal's start is
  written at the end (`cli.py:4778`) and not at all when a run is interrupted; an audit
  taken again uses the unit of the run's start, the first one the unit of now
  (`cli.py:796`); an evaluator's own correction drops the audit's findings
  (`cli.py:1291`).

Protocol.
- An approval may name an option the reported plan does not hold (`cli.py:6440`, against
  the comment at 6424); an approval is never consumed or expired.
- A receipt folded into a rebuilt content commit, under a finalizer that commits none,
  is taken for self-referential (`git_topology.py:743`); `unit` calls such a unit off.
- Running the suite again on a finalized HEAD makes its receipt look self-referential
  (`git_topology.py:743`); a hand edit that keeps the ownership stamp is taken for the
  finalizer's (`git_topology.py:479`); a repository whose certified content is its root
  commit is always in violation.

## 7. The plan

Done: the obligations and the gate, the planner with its resumes, phase closure with
the acceptance record, the protocol, the investigation, the audit, the reviewer's
session. Left, in the order of what an acceptance rests on:

1. `PhaseClosure`: a contract of an attempt (what may follow what among its states, over
   a repository that moves) as an abstract module, and the closure as its refinement.
2. `ScenarioPlanner`: a contract, that coverage is never lost without a record, as a
   refinement.
3. The analysis of absence guards (`guard_coverage.py`) and of protocol prose, as
   operators over abstract statements; `preservation.py`, if the driver comes to use it.
