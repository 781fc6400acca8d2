---------------------------- MODULE CompletionAudit ----------------------------
(***************************************************************************)
(* The completion audit and what the run is allowed to say afterwards:     *)
(* completion_auditor.py, the audit's place in cli.run_loop, and the run   *)
(* journal's one statement that anything was proven (run_journal.py).      *)
(*                                                                         *)
(* Each iteration the builder edits the repository and reports; the report *)
(* is audited against the repository; the evaluator, the scenario gate and *)
(* the changed verification decide; an owed review is held behind the      *)
(* evidence it needs, taken, and the audit asked again; the repository's   *)
(* own verification has the last word.                                     *)
(***************************************************************************)
EXTENDS TaskScope, Naturals

CONSTANTS
    Locators,             \* artifacts evidence may cite
    Repositories,         \* repository states a run may start from
    Reports,              \* reports a builder may write
    Tasks,                \* tasks a run may be given
    CheckpointsExpected,  \* checkpoints the registry expects of the phase
    MaxIterations         \* config.max_iterations

\* What a repository records, and what a report may say.  Trees are numbered from 1.
ReceiptKinds == {"suite", "finalizer", "clean_clone"}
RepositoryRecords ==
    [status : {"READY", "COMPLETE"}, passed : SUBSET Criteria, passedAtStart : SUBSET Criteria,
     recorded : [Built -> SUBSET Locators], files : SUBSET Locators, landed : Nat,
     receipts : [ReceiptKinds -> [state : {"absent", "passed", "failed"}, commit : Nat]],
     rules : SUBSET STRING, documents : SUBSET {"unit", "implementer", "untracked"},
     faults : SUBSET STRING,
     percent : Nat, head : Nat, tree : Nat \ {0}, dirty : BOOLEAN]
ReportRecords ==
    [sentences : SUBSET [claim : STRING, mood : STRING],
     cites : SUBSET [criterion : Criteria, locator : Locators], paths : SUBSET Locators,
     unbuilt : SUBSET Criteria, targeted : BOOLEAN]

ASSUME AuditAssumption ==
    /\ CheckpointsExpected \in Nat
    /\ MaxIterations \in Nat \ {0}
    /\ Repositories \subseteq RepositoryRecords
    /\ Reports \subseteq ReportRecords

VARIABLES
    task,          \* state.task
    repo,          \* what the repository records, and its tree
    report,        \* record.builder_summary
    step,          \* where the loop stands
    iteration,     \* the iteration in progress
    audit,         \* last_audit["value"]
    judged,        \* the evaluator's decision after the deterministic layers, and what they said
    reviews,       \* review_ledger.records
    satisfying,    \* satisfying["value"]: the tree of the review that satisfied, 0 for none
    required,      \* last_requirement["value"].required
    journal        \* journal.json, once written

vars == <<task, repo, report, step, iteration, audit, judged, reviews, satisfying, required, journal>>

Scope == ResolveTaskScope(task)

----------------------------------------------------------------------------
(* The claims a report makes.                                              *)

PhaseClaims == {"PHASE_COMPLETE", "INDEPENDENT_REVIEW", "ADJUDICATION"}
Reaches == {"NEXT_PHASE_UNBLOCKED", "CRITERION_PASS", "ADJUDICATION", "LIVE_ENABLEMENT"}
MoodInsensitive == {"PROGRESS_PERCENT"}

\* A denied or quoted mention is no claim; a conditional one only of what carries no mood.
ExtractClaims(sentences) ==
    {s.claim : s \in {t \in sentences : \/ t.mood = "asserted"
                                        \/ t.mood = "conditional" /\ t.claim \in MoodInsensitive}}

----------------------------------------------------------------------------
(* What the repository shows.                                              *)

Pending(r) == Criteria \ r.passed
IndependentPending(r) == Pending(r) \cap Independent
OnlyIndependentRemains(r) == IndependentPending(r) # {} /\ Pending(r) = IndependentPending(r)

\* A receipt may name HEAD or its parent: a status commit lands on the content it records.
ValidatedStates(r) == {r.head} \cup (IF r.head > 0 THEN {r.head - 1} ELSE {})
Absent(r, k) == r.receipts[k].state = "absent"
Failed(r, k) == r.receipts[k].state = "failed"
Stale(r, k) == r.receipts[k].state = "passed" /\ r.receipts[k].commit \notin ValidatedStates(r)
NotIndependent(r) == r.documents \cap {"implementer", "untracked"} # {}

StatusContradictions(r) ==
    {f \in r.faults :
        \/ f = "prose says COMPLETE" /\ r.status # "COMPLETE"
        \/ f = "limitation erased" /\ r.dirty
        \/ f \in {"region diverges", "dependency open"}}
    \cup {f \in {"percent overstated"} : r.percent > Cardinality(r.passed)}

SkipContradictions(r) == r.faults \cap {"unapproved skip", "environmental skip"}

ClaimOf == [suite |-> "FULL_SUITE_PASSED", finalizer |-> "FINALIZER_RAN", clean_clone |-> "CLEAN_CLONE_PASSED"]
RuleOf == [suite |-> "CANONICAL_SUITE_GATE", finalizer |-> "FINALIZER_OWNERSHIP",
           clean_clone |-> "CLEAN_CLONE_GATE"]

----------------------------------------------------------------------------
(* The audit.                                                              *)

PhaseClaimed(claims) == "PHASE_COMPLETE" \in claims

ReceiptContradictions(r, scope, claims, targeted) ==
    LET implied(k) == /\ PhaseClaimed(claims)
                      /\ k = "suite" \/ (RequiresPhaseAcceptance(scope.intent) /\ RuleOf[k] \in r.rules)
        claimed(k) == ClaimOf[k] \in claims
        refuted(k) == \/ claimed(k) /\ Failed(r, k)
                      \/ claimed(k) /\ Absent(r, k) /\ k # "suite"
                      \/ k = "suite" /\ implied(k) /\ Failed(r, k)
                      \/ (claimed(k) \/ implied(k)) /\ Stale(r, k)
    IN  {k \in ReceiptKinds : refuted(k)}
        \cup {f \in {"targeted tests only"} : targeted /\ claimed("suite")}

ReceiptsMissing(r, scope, claims) ==
    LET owed(k) == PhaseClaimed(claims) /\ RequiresPhaseAcceptance(scope.intent) /\ RuleOf[k] \in r.rules
    IN  {k \in ReceiptKinds :
            \/ k = "suite" /\ Absent(r, k) /\ (ClaimOf[k] \in claims \/ owed(k))
            \/ k # "suite" /\ ClaimOf[k] \notin claims /\ owed(k) /\ (Absent(r, k) \/ Failed(r, k))}

ClaimContradictions(r, claims) ==
    LET premature == PhaseClaimed(claims) /\ ~OnlyIndependentRemains(r)
    IN  {c \in claims :
            \/ c = "PHASE_COMPLETE" /\ premature /\ (r.status # "COMPLETE" \/ Pending(r) # {})
            \/ c = "PHASE_COMPLETE" /\ r.dirty
            \/ c = "OTHER_PHASE_COMPLETE"
            \/ c = "RISK_CONTAINED" /\ "risk open" \in r.faults
            \/ c = "PROGRESS_PERCENT" /\ Pending(r) # {}
            \/ c \in {"INDEPENDENT_REVIEW", "ADJUDICATION"}
                 /\ (NotIndependent(r) \/ r.documents = {} \/ IndependentPending(r) # {})}

\* Reporting the phase forward from a task that is not the phase's acceptance.
ScopeOverreach(r, scope, claims) ==
    {c \in claims \cap Reaches : scope.intent = "PHASE_IMPLEMENTATION" \/ IsNested(scope.intent)}
    \cup {c \in claims \cap {"PHASE_COMPLETE"} :
            scope.intent = "PHASE_IMPLEMENTATION" /\ r.status # "COMPLETE"}

Contradictions(r, rep, scope) ==
    LET claims == ExtractClaims(rep.sentences)
    IN  StatusContradictions(r) \cup SkipContradictions(r) \cup (rep.paths \ r.files)
        \cup ReceiptContradictions(r, scope, claims, rep.targeted)
        \cup ClaimContradictions(r, claims) \cup ScopeOverreach(r, scope, claims)

\* Evidenced: an artifact in the tree is recorded or cited for the criterion, and the
\* report does not say it is unbuilt.
Evidenced(r, rep, c) ==
    /\ \E loc \in r.files : loc \in r.recorded[c] \/ [criterion |-> c, locator |-> loc] \in rep.cites
    /\ c \notin rep.unbuilt

\* A whole-phase build owes the implementation: checkpoints, and evidence for what no later gate settles.
ImplementationOutstanding(r, rep) ==
    {c \in (Required \cap Built) \ r.passed : ~Evidenced(r, rep, c)}
    \cup {f \in {"checkpoints"} : r.landed < CheckpointsExpected}

\* An acceptance owes every required criterion; no other task owes the phase's criteria.
TaskRequirementsOutstanding(r, rep, scope) ==
    IF scope.intent = "PHASE_IMPLEMENTATION" THEN ImplementationOutstanding(r, rep)
    ELSE IF scope.intent = "PHASE_ACCEPTANCE" THEN Required \ r.passed
    ELSE {}

\* Items of `missing' only an independent session can supply.
ReviewItems(r, scope, claims) ==
    {c \in Independent \ r.passed :
        \/ scope.intent = "PHASE_ACCEPTANCE" /\ c \in Required
        \/ PhaseClaimed(claims) /\ (RequiresPhaseAcceptance(scope.intent) \/ OnlyIndependentRemains(r))}

Missing(r, rep, scope) ==
    LET claims == ExtractClaims(rep.sentences)
    IN  ReceiptsMissing(r, scope, claims) \cup TaskRequirementsOutstanding(r, rep, scope)
        \cup ReviewItems(r, scope, claims)

\* A review this run obtained discharges only for the tree under audit; a document only
\* when it names the unit and nothing under the phase's name is the implementer's own.
ReviewOutstanding(r, scope, reviewed) ==
    /\ IsNested(scope.intent)
    /\ "INDEPENDENT_REVIEW" \in r.rules
    /\ reviewed # r.tree
    /\ "unit" \notin r.documents \/ NotIndependent(r)

\* Faulty: a review is owed as soon as only the review criteria are pending.
DecideReviewFirst(r, rep, scope, reviewed) ==
    IF Contradictions(r, rep, scope) # {} THEN "CONTRADICTED"
    ELSE IF OnlyIndependentRemains(r) \/ ReviewOutstanding(r, scope, reviewed)
         THEN "REQUIRES_INDEPENDENT_REVIEW"
    ELSE IF Missing(r, rep, scope) # {} THEN "UNPROVEN"
    ELSE "VERIFIED"

\* Faulty: the review branch asks first what the report claims.
DecideOnClaims(r, rep, scope, reviewed) ==
    LET claims == ExtractClaims(rep.sentences)
        missing == Missing(r, rep, scope)
    IN  IF Contradictions(r, rep, scope) # {} THEN "CONTRADICTED"
        ELSE IF scope.intent = "PHASE_IMPLEMENTATION" \/ IsNested(scope.intent)
             THEN IF missing # {} THEN "UNPROVEN"
                  ELSE IF ReviewOutstanding(r, scope, reviewed) THEN "REQUIRES_INDEPENDENT_REVIEW"
                  ELSE "VERIFIED"
        ELSE IF /\ claims \cap PhaseClaims # {}
                /\ OnlyIndependentRemains(r)
                /\ missing \subseteq ReviewItems(r, scope, claims)
             THEN "REQUIRES_INDEPENDENT_REVIEW"
        ELSE IF missing # {} THEN "UNPROVEN"
        ELSE "VERIFIED"

Decide(r, rep, scope, reviewed) ==
    LET claims == ExtractClaims(rep.sentences)
        missing == Missing(r, rep, scope)
    IN  IF Contradictions(r, rep, scope) # {} THEN "CONTRADICTED"
        ELSE IF scope.intent = "PHASE_IMPLEMENTATION" \/ IsNested(scope.intent)
             THEN IF missing # {} THEN "UNPROVEN"
                  ELSE IF ReviewOutstanding(r, scope, reviewed) THEN "REQUIRES_INDEPENDENT_REVIEW"
                  ELSE "VERIFIED"
        ELSE IF OnlyIndependentRemains(r) /\ missing \subseteq ReviewItems(r, scope, claims)
             THEN "REQUIRES_INDEPENDENT_REVIEW"
        ELSE IF missing # {} THEN "UNPROVEN"
        ELSE IF claims \cap PhaseClaims # {} /\ IndependentPending(r) # {}
             THEN "REQUIRES_INDEPENDENT_REVIEW"
        ELSE IF claims \cap PhaseClaims # {} /\ Pending(r) # {} THEN "UNPROVEN"
        ELSE "VERIFIED"

NoAudit == [decision |-> "NONE", result |-> "NONE", outstanding |-> {}, phaseAccepted |-> FALSE]

ResultOf(decision) ==
    IF decision = "REQUIRES_INDEPENDENT_REVIEW" THEN "AWAITING_INDEPENDENT_REVIEW" ELSE decision

Audited(r, rep, scope, reviewed) ==
    LET decision == Decide(r, rep, scope, reviewed)
    IN  [decision |-> decision,
         result |-> ResultOf(decision),
         outstanding |-> Contradictions(r, rep, scope) \cup Missing(r, rep, scope)
                         \cup {f \in {"independent review"} : ReviewOutstanding(r, scope, reviewed)},
         phaseAccepted |-> /\ decision = "VERIFIED"
                           /\ scope.intent = "PHASE_ACCEPTANCE"
                           /\ r.status = "COMPLETE"]

\* An owed review waits behind the evidence it needs; the audit's decision is not altered.
HoldReviewBehind(a, blockers) ==
    IF blockers # {} /\ a.result \in {"AWAITING_INDEPENDENT_REVIEW", "VERIFIED"}
    THEN [a EXCEPT !.result = "UNPROVEN", !.outstanding = @ \cup blockers]
    ELSE a

----------------------------------------------------------------------------
(* The builder.  An edit is one change to what the repository records,     *)
(* left uncommitted or committed.                                          *)

Scores(r) == {[r EXCEPT !.passed = @ \cup {c}] : c \in Pending(r)}
Records(r) == {[r EXCEPT !.recorded[c] = @ \cup {loc}] : c \in Built, loc \in Locators}
Artifacts(r) ==
    {[r EXCEPT !.files = @ \cup {loc}] : loc \in Locators \ r.files}
    \cup {[r EXCEPT !.files = @ \ {loc}] : loc \in r.files}
Receipted(r) == {[r EXCEPT !.receipts[k] = [state |-> "passed", commit |-> r.head]] : k \in ReceiptKinds}
Written(r) ==
    {[r EXCEPT !.documents = @ \cup {"unit"}], [r EXCEPT !.faults = {}],
     [r EXCEPT !.landed = CheckpointsExpected], [r EXCEPT !.status = "COMPLETE"]}

Edits(r) ==
    LET changed == (Scores(r) \cup Records(r) \cup Artifacts(r) \cup Receipted(r) \cup Written(r)) \ {r}
    IN  {r} \cup {[e EXCEPT !.tree = @ + 1, !.dirty = TRUE] : e \in changed}
            \cup {[e EXCEPT !.tree = @ + 1, !.dirty = FALSE, !.head = @ + 1] : e \in changed}

NoJudgement == [decision |-> "NONE", gate |-> "NONE", changed |-> FALSE, verification |-> "none"]
NoJournal == [written |-> FALSE, established |-> FALSE, handedOver |-> FALSE, shippable |-> FALSE,
              satisfiedScope |-> FALSE, reviewedTree |-> 0]
NoReport == [sentences |-> {}, cites |-> {}, paths |-> {}, unbuilt |-> {}, targeted |-> FALSE]

Init ==
    /\ task \in Tasks
    /\ repo \in Repositories
    /\ report = NoReport
    /\ step = "build"
    /\ iteration = 1
    /\ audit = NoAudit
    /\ judged = NoJudgement
    /\ reviews = <<>>
    /\ satisfying = 0
    /\ required = FALSE
    /\ journal = NoJournal

Build ==
    /\ step = "build"
    /\ repo' \in Edits(repo)
    /\ report' \in Reports
    /\ step' = "audit"
    /\ UNCHANGED <<task, iteration, audit, judged, reviews, satisfying, required, journal>>

\* The builder's session fails: the run ends on the last iteration's audit.
BuilderFails ==
    /\ step = "build"
    /\ step' = "BLOCKED"
    /\ UNCHANGED <<task, repo, report, iteration, audit, judged, reviews, satisfying, required, journal>>

----------------------------------------------------------------------------
(* One iteration after the builder.                                        *)

Audit ==
    /\ step = "audit"
    /\ audit' = Audited(repo, report, Scope, 0)
    /\ step' = "judge"
    /\ UNCHANGED <<task, repo, report, iteration, judged, reviews, satisfying, required, journal>>

\* What makes an independent review owed: the unit's repository rule, an acceptance's pending
\* review criteria as they stood when the run began, the change's risk, the audit.
ReviewRequired(r, scope, a, risky) ==
    \/ IsNested(scope.intent) /\ "INDEPENDENT_REVIEW" \in r.rules
    \/ scope.intent = "PHASE_ACCEPTANCE" /\ Independent \ r.passedAtStart # {}
    \/ risky
    \/ a.decision = "REQUIRES_INDEPENDENT_REVIEW"

PreReviewBlockers(gate, changed) ==
    {b \in {"scenario gate"} : gate = "NOT_VERIFIED"} \cup {b \in {"changed verification"} : changed}

\* The gate and the changed verification turn an ACCEPT they refuse into a FIX; so does an
\* audit that blocks, unless all it waits for is the review.
Combined(evaluator, blockers, a) ==
    IF /\ evaluator = "ACCEPT"
       /\ blockers # {} \/ a.decision \in {"CONTRADICTED", "UNPROVEN"}
    THEN "FIX" ELSE evaluator

Judge ==
    /\ step = "judge"
    /\ \E evaluator \in {"ACCEPT", "FIX", "ASK_USER", "BLOCKED"},
          gate \in {"NONE", "VERIFIED", "NOT_VERIFIED"}, changed, risky \in BOOLEAN :
          LET blockers == PreReviewBlockers(gate, changed)
              decision == Combined(evaluator, blockers, audit)
          IN  /\ audit' = HoldReviewBehind(audit, blockers)
              /\ judged' = [decision |-> decision, gate |-> gate, changed |-> changed,
                            verification |-> judged.verification]
              /\ required' = ReviewRequired(repo, Scope, audit, risky)
              /\ step' = IF decision = "ACCEPT" THEN "review" ELSE "route"
    /\ UNCHANGED <<task, repo, report, iteration, reviews, satisfying, journal>>

Supported(tree) == \E i \in DOMAIN reviews : reviews[i] = [tree |-> tree, verdict |-> "SUPPORTED"]

ReviewNotOwed ==
    /\ step = "review" /\ ~required
    /\ step' = "verify"
    /\ UNCHANGED <<task, repo, report, iteration, audit, judged, reviews, satisfying, required, journal>>

\* A supported review of this tree, standing or just taken; the audit is asked again.
ReviewSupports ==
    /\ step = "review" /\ required
    /\ reviews' = IF Supported(repo.tree) THEN reviews
                  ELSE Append(reviews, [tree |-> repo.tree, verdict |-> "SUPPORTED"])
    /\ satisfying' = repo.tree
    /\ audit' = Audited(repo, report, Scope, repo.tree)
    /\ step' = "verify"
    /\ UNCHANGED <<task, repo, report, iteration, judged, required, journal>>

ReviewRefuses ==
    /\ step = "review" /\ required /\ ~Supported(repo.tree)
    /\ reviews' = Append(reviews, [tree |-> repo.tree, verdict |-> "UNSUPPORTED"])
    /\ judged' = [judged EXCEPT !.decision = "FIX"]
    /\ step' = "verify"
    /\ UNCHANGED <<task, repo, report, iteration, audit, satisfying, required, journal>>

\* No reviewer could be launched, or none that was independent returned a verdict.
ReviewUnavailable ==
    /\ step = "review" /\ required /\ ~Supported(repo.tree)
    /\ step' = "NEEDS_INDEPENDENT_REVIEW"
    /\ UNCHANGED <<task, repo, report, iteration, audit, judged, reviews, satisfying, required, journal>>

\* The repository's own verification: one that fails refuses the candidate, one that could
\* not run only keeps it from being pushed.
VerifyRepository ==
    /\ step = "verify"
    /\ \E outcome \in {"passed", "unrun", "failed"} :
          judged' = [judged EXCEPT !.verification = outcome,
                                   !.decision = IF outcome = "failed" THEN "FIX" ELSE @]
    /\ step' = "route"
    /\ UNCHANGED <<task, repo, report, iteration, audit, reviews, satisfying, required, journal>>

Finish ==
    /\ step = "route" /\ judged.decision # "FIX"
    /\ step' = IF judged.decision = "ACCEPT" THEN "ACCEPTED"
               ELSE IF judged.decision = "ASK_USER" THEN "NEEDS_USER"
               ELSE "BLOCKED"
    /\ UNCHANGED <<task, repo, report, iteration, audit, judged, reviews, satisfying, required, journal>>

\* A correction goes back to the builder while the budget lasts; the next iteration has a
\* record of its own, and the last audit stays until it is audited.
Correct ==
    /\ step = "route" /\ judged.decision = "FIX" /\ iteration < MaxIterations
    /\ step' = "build"
    /\ iteration' = iteration + 1
    /\ report' = NoReport
    /\ judged' = NoJudgement
    /\ UNCHANGED <<task, repo, audit, reviews, satisfying, required, journal>>

BudgetSpent ==
    /\ step = "route" /\ judged.decision = "FIX" /\ iteration >= MaxIterations
    /\ step' = "MAX_ITERATIONS"
    /\ UNCHANGED <<task, repo, report, iteration, audit, judged, reviews, satisfying, required, journal>>

----------------------------------------------------------------------------
(* The journal.                                                            *)

Terminal == {"ACCEPTED", "NEEDS_USER", "BLOCKED", "MAX_ITERATIONS", "NEEDS_INDEPENDENT_REVIEW"}

LastVerdict == IF reviews = <<>> THEN "" ELSE reviews[Len(reviews)].verdict

\* Faulty: the gate and the status answer for the task.
EstablishedByTheGate ==
    /\ step = "ACCEPTED"
    /\ judged.gate = "VERIFIED"
    /\ required => LastVerdict = "SUPPORTED" /\ satisfying # 0

VerificationEstablished ==
    /\ step = "ACCEPTED"
    /\ judged.gate = "VERIFIED"
    /\ audit.outstanding = {}
    /\ required => LastVerdict = "SUPPORTED" /\ satisfying # 0

HandedOver ==
    /\ step = "ACCEPTED" /\ judged.gate = "VERIFIED"
    /\ Scope.intent = "PHASE_IMPLEMENTATION" /\ audit.outstanding = {}

Shippable ==
    /\ step = "ACCEPTED" /\ judged.gate = "VERIFIED"
    /\ required => satisfying # 0
    /\ ~repo.dirty
    /\ audit.outstanding = {}
    /\ judged.verification \in {"none", "passed"} /\ ~judged.changed

WriteJournal ==
    /\ step \in Terminal /\ ~journal.written
    /\ journal' = [written |-> TRUE, established |-> VerificationEstablished, handedOver |-> HandedOver,
                   shippable |-> Shippable, satisfiedScope |-> satisfying # 0, reviewedTree |-> satisfying]
    /\ UNCHANGED <<task, repo, report, step, iteration, audit, judged, reviews, satisfying, required>>

Next ==
    \/ Build \/ BuilderFails \/ Audit \/ Judge
    \/ ReviewNotOwed \/ ReviewSupports \/ ReviewRefuses \/ ReviewUnavailable
    \/ VerifyRepository \/ Finish \/ Correct \/ BudgetSpent \/ WriteJournal

Spec == Init /\ [][Next]_vars

----------------------------------------------------------------------------
(* Properties.                                                             *)

\* What the task asked for, read off the repository and not off any audit.
TaskDone ==
    /\ Scope.intent = "PHASE_ACCEPTANCE" => Required \subseteq repo.passed
    /\ Scope.intent = "PHASE_IMPLEMENTATION" =>
          /\ repo.landed >= CheckpointsExpected
          /\ \A c \in (Required \cap Built) \ repo.passed :
                /\ c \notin report.unbuilt
                /\ \E loc \in repo.files :
                      loc \in repo.recorded[c] \/ [criterion |-> c, locator |-> loc] \in report.cites

ReviewDone ==
    /\ required => Supported(repo.tree)
    /\ IsNested(Scope.intent) /\ "INDEPENDENT_REVIEW" \in repo.rules =>
          Supported(repo.tree) \/ "unit" \in repo.documents

\* A run that tells its reader something is proven, hands a candidate to phase closure or calls
\* it ready to ship has done the task it was given on the tree it leaves, has every review it
\* owed bound to that tree, and made no statement the repository contradicts
\* (run_journal.verification_established, cli._next_safe_action, cli._report_founder_summary).
EstablishedMeansDone ==
    journal.established \/ journal.handedOver \/ journal.shippable =>
        TaskDone /\ ReviewDone /\ Contradictions(repo, report, Scope) = {}

Rank == [CONTRADICTED |-> 0, UNPROVEN |-> 1, REQUIRES_INDEPENDENT_REVIEW |-> 2, VERIFIED |-> 3]

\* No wording earns a verdict silence would not: the audit of a report is never better than the
\* audit of the same report with every claim struck out (completion_auditor._decide).
WordsNeverHelp ==
    step = "judge" =>
        Rank[audit.decision] <= Rank[Decide(repo, [report EXCEPT !.sentences = {}], Scope, 0)]

\* A reviewer is spent only when nothing but the review is outstanding: no other missing item, no
\* contradiction, no refusal of the gate or of the changed verification (cli.run_loop's order).
ReviewIsLast ==
    [][Len(reviews') > Len(reviews) =>
          /\ audit.outstanding \subseteq Independent \cup {"independent review"}
          /\ judged.gate # "NOT_VERIFIED" /\ ~judged.changed]_vars
=============================================================================
