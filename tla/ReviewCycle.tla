----------------------------- MODULE ReviewCycle -----------------------------
(***************************************************************************)
(* The independent review as a transition of the control loop              *)
(* (neyma_product_driver/review_cycle.py and the review half of            *)
(* run_control_loop in neyma_product_driver/cli.py).                       *)
(*                                                                         *)
(* One process of the driver iterates: the builder works, the product is   *)
(* judged, and an ACCEPT earns, when the task owes one, a review by a      *)
(* fresh session.  A review is evidence about one working tree, so the     *)
(* driver keeps a ledger that binds each review to a fingerprint and       *)
(* retires a review whose tree is no longer there.  A refusal either goes  *)
(* back to the builder as a correction or ends the process.  The process   *)
(* may be stopped, may die, and may be resumed by another process.         *)
(*                                                                         *)
(* A working tree is a model value; the two trees of one fingerprint are   *)
(* the same value.  How the product is judged before the review is one     *)
(* nondeterministic verdict here (module ControlLoop opens it).            *)
(***************************************************************************)
EXTENDS Naturals, Sequences, FiniteSets, ReviewerSession

CONSTANTS
  Trees,              \* identities capture_fingerprint can return
  NoTree,             \* "no tree": nothing captured, nothing superseding
  Situations,         \* the facts a review requirement is resolved from
  CorrectionBudget,   \* config.review.max_automatic_reviews
  MaxIterations,      \* config.max_iterations: iterations of one process
  MaxProcesses,       \* bound of the model: the first process and its resumes
  RepositoryVerified  \* config.repository_verification.enabled

(***************************************************************************)
(* What resolve_review_requirement reads: whether the task names a unit    *)
(* inside a phase and the repository states a review rule; whether phase   *)
(* acceptance was requested and a criterion needing another session is     *)
(* pending; what the change risks; what the completion auditor says.       *)
(***************************************************************************)
SituationType ==
  [nested : BOOLEAN, ruleStated : BOOLEAN, phaseRequested : BOOLEAN,
   criterionPending : BOOLEAN, highRisk : BOOLEAN, warranted : BOOLEAN,
   auditAsks : BOOLEAN]

ASSUME ReviewAssumption ==
  /\ NoTree \notin Trees
  /\ Situations \subseteq SituationType
  /\ CorrectionBudget \in Nat
  /\ MaxIterations \in Nat \ {0}
  /\ MaxProcesses \in Nat \ {0}
  /\ RepositoryVerified \in BOOLEAN

VARIABLES
  tree,         \* the working tree now
  ledger,       \* ReviewLedger.records of this process
  corrections,  \* refusals this process routed to the builder
  founderReason,\* why a review went to the founder
  fingerprint,  \* the tree this review step captured
  situation,    \* the facts of this iteration
  retried,      \* the reviewer has been asked a second time in this step
  evidence,     \* what the last review of this step rests on
  pc,           \* where the loop is
  decision,     \* the decision the loop carries after the review
  status,       \* RunState.status
  attempt,      \* iterations begun by this process
  processes,    \* processes started for this run
  prompt,       \* what the next builder turn will be sent
  routed        \* a refusal was routed to the builder and has not reached it

ledgerVars  == <<ledger, corrections, founderReason>>
captureVars == <<fingerprint, situation, retried>>
stepVars    == <<captureVars, evidence>>
processVars == <<attempt, processes>>
builderVars == <<prompt, routed>>

vars == <<tree, ledgerVars, stepVars, pc, decision, status, processVars, builderVars>>

(***************************************************************************)
(* A verdict as the router reads it: grounded says that a finding cites    *)
(* evidence, executed that the reviewer ran a permitted command, and       *)
(* ownSession that its session id is the builder's.  What it reproduced,   *)
(* on which basis, and what was measured come from the session.            *)
(***************************************************************************)
Review == [verdict : Verdicts, blocker : BlockerKinds, grounded : BOOLEAN,
           executed : BOOLEAN, ownSession : BOOLEAN, reproduced : BOOLEAN,
           basis : Bases, measured : SUBSET Kinds]

Record == [tree : Trees, verdict : Verdicts, independent : BOOLEAN,
           supersededBy : Trees \cup {NoTree}]

Statuses == {"RUNNING", "ACCEPTED", "NEEDS_USER", "BLOCKED", "MAX_ITERATIONS",
             "STOPPED", "ERROR", "REQUIRES_APPROVAL", "NEEDS_INDEPENDENT_REVIEW"}

Prompts == {"task", "evaluator", "review", "verification"}

FounderReasons == {"none", "authority", "ungrounded", "refused_again"}

Working == {"build", "judge", "review", "reviewing", "verify", "route"}

-----------------------------------------------------------------------------
(* The requirement.                                                        *)

(***************************************************************************)
(* The triggers of a review; any one of them makes it owed.  The last is   *)
(* the discretionary half the review step adds when no other applies.      *)
(***************************************************************************)
Triggers(s) ==
  {k \in {"REPOSITORY_AUTHORITY", "PHASE_ACCEPTANCE_CRITERION", "CHANGE_RISK",
          "COMPLETION_AUDIT"} :
     \/ k = "REPOSITORY_AUTHORITY" /\ s.nested /\ s.ruleStated
     \/ k = "PHASE_ACCEPTANCE_CRITERION" /\ s.phaseRequested /\ s.criterionPending
     \/ k = "CHANGE_RISK" /\ s.highRisk
     \/ k = "COMPLETION_AUDIT" /\ s.auditAsks}

Owed(s) == Triggers(s) # {} \/ s.warranted

-----------------------------------------------------------------------------
(* The ledger.                                                             *)

Stale(r) == r.supersededBy # NoTree

Satisfies(r, t) ==
  /\ r.verdict = "SUPPORTED"
  /\ ~Stale(r)
  /\ r.independent
  /\ r.tree = t

\* A record of another tree is retired and one already retired stays so.
Retired(r, t) ==
  IF Stale(r) \/ r.tree = t THEN r ELSE [r EXCEPT !.supersededBy = t]

InvalidateStale(l, t) == [i \in DOMAIN l |-> Retired(l[i], t)]

\* Faulty: "supported earlier" read as "supported now".
SupportedEarlier(l, t) == {i \in DOMAIN l : l[i].verdict = "SUPPORTED"}

Satisfying(l, t) == {i \in DOMAIN l : Satisfies(l[i], t)}

Refusals(l) == {i \in DOMAIN l : l[i].verdict # "SUPPORTED"}

Entry(r, t) ==
  [tree |-> t, verdict |-> r.verdict, independent |-> ~r.ownSession,
   supersededBy |-> NoTree]

(* What the iteration's record holds of its last review.                   *)
NoEvidence == [reproduced |-> FALSE, basis |-> "CORROBORATED", measured |-> {}]
EvidenceOf(r) ==
  [reproduced |-> r.reproduced, basis |-> r.basis, measured |-> r.measured]

-----------------------------------------------------------------------------
(* The routing of a verdict.                                               *)

RetryOwed(r, again) == ExecutionAvailable /\ ~r.executed /\ ~again

\* Faulty: the correction budget is never consulted.
RouteWithoutBudget(r, refused, again) ==
  IF r.verdict = "SUPPORTED" THEN "SATISFIED"
  ELSE IF r.blocker = "EXTERNAL_ACTION" THEN "EXTERNAL_ACTION"
  ELSE IF r.blocker = "REPOSITORY_AUTHORITY" THEN "FOUNDER_DECISION"
  ELSE IF r.verdict = "NOT_SUPPORTED" /\ ~r.grounded THEN "FOUNDER_DECISION"
  ELSE IF r.verdict = "NOT_SUPPORTED" \/ (r.blocker = "PRODUCT_DEFECT" /\ r.grounded)
       THEN "CORRECT_PRODUCT"
  ELSE IF RetryOwed(r, again) THEN "RETRY_WITH_EXECUTION"
  ELSE "UNRESOLVED"

\* Faulty: a reviewer that ran something and objected to nothing has supported.
RouteSilenceAsSupport(r, refused, again) ==
  IF r.verdict = "SUPPORTED" \/ (r.executed /\ ~r.grounded) THEN "SATISFIED"
  ELSE RouteWithoutBudget(r, refused, again)

(***************************************************************************)
(* Who owns the verdict r.  refused counts the refusing reviews of this    *)
(* process, r's own included.                                              *)
(***************************************************************************)
RouteReview(r, refused, again) ==
  LET defect == r.grounded /\ (r.verdict = "NOT_SUPPORTED" \/ r.blocker = "PRODUCT_DEFECT")
  IN IF r.verdict = "SUPPORTED" THEN "SATISFIED"
     ELSE IF r.blocker = "EXTERNAL_ACTION" THEN "EXTERNAL_ACTION"
     ELSE IF r.blocker = "REPOSITORY_AUTHORITY" THEN "FOUNDER_DECISION"
     ELSE IF defect
          THEN IF refused > CorrectionBudget THEN "FOUNDER_DECISION" ELSE "CORRECT_PRODUCT"
     ELSE IF r.verdict = "NOT_SUPPORTED" THEN "FOUNDER_DECISION"
     ELSE IF RetryOwed(r, again) THEN "RETRY_WITH_EXECUTION"
     ELSE "UNRESOLVED"

\* The reason a FOUNDER_DECISION states, in route_review's order.
ReasonOf(r) ==
  IF r.blocker = "REPOSITORY_AUTHORITY" THEN "authority"
  ELSE IF r.grounded THEN "refused_again"
  ELSE "ungrounded"

-----------------------------------------------------------------------------
Init ==
  /\ tree \in Trees
  /\ ledger = <<>> /\ corrections = 0 /\ founderReason = "none"
  /\ fingerprint = NoTree /\ situation \in Situations /\ retried = FALSE
  /\ evidence = NoEvidence
  /\ pc = "build" /\ decision = "none" /\ status = "RUNNING"
  /\ attempt = 0 /\ processes = 1
  /\ prompt = "task" /\ routed = FALSE

\* _terminate: every terminal state records its status and ends the loop.
Terminate(s) == status' = s /\ pc' = "ended"

(***************************************************************************)
(* A FIX is written down as sent, becomes the next prompt, and the loop    *)
(* goes on, unless this was the last iteration of the process.             *)
(***************************************************************************)
Correct(kind) ==
  \/ /\ attempt >= MaxIterations
     /\ Terminate("MAX_ITERATIONS")
     /\ UNCHANGED builderVars
  \/ /\ attempt < MaxIterations
     /\ prompt' = kind
     /\ pc' = "build"
     /\ UNCHANGED <<routed, status>>

(***************************************************************************)
(* The builder's turn: the pending prompt reaches the session, which may   *)
(* leave any tree behind, the one it started from included.                *)
(***************************************************************************)
BuilderTurn ==
  /\ pc = "build"
  /\ attempt < MaxIterations
  /\ attempt' = attempt + 1
  /\ tree' \in Trees
  /\ routed' = (routed /\ prompt # "review")
  /\ pc' = "judge"
  /\ UNCHANGED <<ledgerVars, stepVars, decision, status, processes, prompt>>

\* A stop request is seen at the top of an iteration only.
StopBeforeIteration ==
  /\ pc = "build"
  /\ Terminate("STOPPED")
  /\ UNCHANGED <<tree, ledgerVars, stepVars, decision, processVars, builderVars>>

\* The layers before the review accept: the facts of the requirement are in.
JudgeAccepts ==
  /\ pc = "judge"
  /\ situation' \in Situations
  /\ decision' = "ACCEPT"
  /\ pc' = "review"
  /\ UNCHANGED <<tree, ledgerVars, fingerprint, retried, evidence, status, processVars, builderVars>>

JudgeCorrects ==
  /\ pc = "judge"
  /\ decision' = "FIX"
  /\ Correct("evaluator")
  /\ UNCHANGED <<tree, ledgerVars, stepVars, processVars>>

\* The builder could not work twice running, the protocol needs an approval,
\* or the layers before the review ask or block.
JudgeEnds ==
  /\ pc = "judge"
  /\ decision' = "none"
  /\ \E s \in {"STOPPED", "REQUIRES_APPROVAL", "NEEDS_USER", "BLOCKED"} : Terminate(s)
  /\ UNCHANGED <<tree, ledgerVars, stepVars, processVars, builderVars>>

-----------------------------------------------------------------------------
(* The review step.                                                        *)

(***************************************************************************)
(* Capture the tree, retire what no longer describes it, then ask whether  *)
(* a review is owed, whether one stands, whether one can be launched.      *)
(***************************************************************************)
BeginReviewStep ==
  /\ pc = "review"
  /\ fingerprint' = tree
  /\ ledger' = InvalidateStale(ledger, tree)
  /\ retried' = FALSE
  /\ evidence' = NoEvidence
  /\ LET missing == Owed(situation) /\ Satisfying(ledger', tree) = {}
     IN \/ ~missing /\ pc' = "verify" /\ UNCHANGED status
        \/ missing /\ pc' = "reviewing" /\ UNCHANGED status
        \/ missing /\ Terminate("NEEDS_INDEPENDENT_REVIEW")  \* no factory supplied
  /\ UNCHANGED <<tree, corrections, founderReason, situation, decision,
                 processVars, builderVars>>

\* The session could not be launched, died, or returned nothing.
ReviewerFails ==
  /\ pc = "reviewing"
  /\ Terminate("NEEDS_INDEPENDENT_REVIEW")
  /\ UNCHANGED <<tree, ledgerVars, stepVars, decision, processVars, builderVars>>

\* Every verdict is recorded before it is routed.
Recorded(r) ==
  /\ pc = "reviewing"
  /\ ledger' = Append(ledger, Entry(r, fingerprint))
  /\ evidence' = EvidenceOf(r)

RouteOf(r) == RouteReview(r, Cardinality(Refusals(ledger')), retried)

ReviewNotIndependent(r) ==
  /\ Recorded(r)
  /\ r.ownSession
  /\ Terminate("NEEDS_INDEPENDENT_REVIEW")
  /\ UNCHANGED <<tree, corrections, founderReason, captureVars, decision,
                 processVars, builderVars>>

ReviewSatisfies(r) ==
  /\ Recorded(r)
  /\ ~r.ownSession
  /\ RouteOf(r) = "SATISFIED"
  /\ pc' = "verify"
  /\ UNCHANGED <<tree, corrections, founderReason, captureVars, decision, status,
                 processVars, builderVars>>

\* Faulty: the second ask starts the review step over, before the first answer
\* is recorded, and so forgets that it was a second ask.
ReviewRetriedForgotten(r) ==
  /\ pc = "reviewing"
  /\ ~r.ownSession
  /\ RouteReview(r, 0, retried) = "RETRY_WITH_EXECUTION"
  /\ pc' = "review"
  /\ UNCHANGED <<tree, ledgerVars, stepVars, decision, status, processVars, builderVars>>

\* Insufficient evidence from a reviewer that ran nothing: one more ask.
ReviewRetried(r) ==
  /\ Recorded(r)
  /\ ~r.ownSession
  /\ RouteOf(r) = "RETRY_WITH_EXECUTION"
  /\ ~retried
  /\ retried' = TRUE
  /\ UNCHANGED <<tree, corrections, founderReason, fingerprint, situation, pc,
                 decision, status, processVars, builderVars>>

\* The grounded findings become the decision; they are not sent yet.
ReviewCorrects(r) ==
  /\ Recorded(r)
  /\ ~r.ownSession
  /\ RouteOf(r) = "CORRECT_PRODUCT"
  /\ decision' = "FIX"
  /\ corrections' = corrections + 1
  /\ routed' = TRUE
  /\ pc' = "verify"
  /\ UNCHANGED <<tree, founderReason, captureVars, status, processVars, prompt>>

\* A question for the founder, an action outside this machine, or no answer.
ReviewEscalates(r) ==
  /\ Recorded(r)
  /\ ~r.ownSession
  /\ \/ /\ RouteOf(r) = "FOUNDER_DECISION"
        /\ founderReason' = ReasonOf(r)
        /\ Terminate("NEEDS_USER")
     \/ /\ RouteOf(r) = "EXTERNAL_ACTION"
        /\ Terminate("NEEDS_USER")
        /\ UNCHANGED founderReason
     \/ /\ RouteOf(r) = "UNRESOLVED" \/ (RouteOf(r) = "RETRY_WITH_EXECUTION" /\ retried)
        /\ Terminate("BLOCKED")
        /\ UNCHANGED founderReason
  /\ decision' = "none"
  /\ UNCHANGED <<tree, corrections, captureVars, processVars, builderVars>>

ReviewReturns ==
  \E r \in Reviews :
     \/ ReviewNotIndependent(r)
     \/ ReviewSatisfies(r)
     \/ ReviewRetried(r)
     \/ ReviewCorrects(r)
     \/ ReviewEscalates(r)

-----------------------------------------------------------------------------
(* What follows the review in the same iteration.                          *)

\* The repository's own guards refuse the change, whatever was decided: their
\* correction takes the place of the decision the review left.
RepositoryRefuses ==
  /\ pc = "verify"
  /\ RepositoryVerified
  /\ decision' = "FIX"
  /\ Correct("verification")
  /\ UNCHANGED <<tree, ledgerVars, stepVars, processVars>>

RepositoryAgrees ==
  /\ pc = "verify"
  /\ pc' = "route"
  /\ UNCHANGED <<tree, ledgerVars, stepVars, decision, status, processVars, builderVars>>

RouteAccept ==
  /\ pc = "route"
  /\ decision = "ACCEPT"
  /\ Terminate("ACCEPTED")
  /\ UNCHANGED <<tree, ledgerVars, stepVars, decision, processVars, builderVars>>

RouteCorrection ==
  /\ pc = "route"
  /\ decision = "FIX"
  /\ Correct("review")
  /\ UNCHANGED <<tree, ledgerVars, stepVars, decision, processVars>>

-----------------------------------------------------------------------------
(* The environment.                                                        *)

\* Somebody else writes to the repository while the iteration is judged: the
\* founder's editor, or a guard that leaves a file behind.
TreeMoves ==
  /\ pc \in {"review", "reviewing", "verify", "route"}
  /\ tree' \in Trees \ {tree}
  /\ UNCHANGED <<ledgerVars, stepVars, pc, decision, status, processVars, builderVars>>

\* The process is killed and state.json keeps its last status, is interrupted
\* from the keyboard, or fails with an exception no step caught.
Crash ==
  /\ pc \in Working
  /\ \E s \in {status, "STOPPED", "ERROR"} : Terminate(s)
  /\ UNCHANGED <<tree, ledgerVars, stepVars, decision, processVars, builderVars>>

(***************************************************************************)
(* Another process resumes the run, whatever its status: a fresh ledger, a *)
(* fresh budget, and a first prompt that states the task again.            *)
(***************************************************************************)
Resume ==
  /\ pc = "ended"
  /\ processes < MaxProcesses
  /\ processes' = processes + 1
  /\ tree' \in Trees
  /\ ledger' = <<>> /\ corrections' = 0 /\ founderReason' = "none"
  /\ fingerprint' = NoTree /\ retried' = FALSE /\ evidence' = NoEvidence
  /\ pc' = "build" /\ decision' = "none" /\ status' = "RUNNING"
  /\ attempt' = 0
  /\ prompt' = "task" /\ routed' = FALSE
  /\ UNCHANGED situation

\* The steps of the driver's own process.
Step ==
  \/ BuilderTurn \/ StopBeforeIteration
  \/ JudgeAccepts \/ JudgeCorrects \/ JudgeEnds
  \/ BeginReviewStep \/ ReviewerFails \/ ReviewReturns
  \/ RepositoryRefuses \/ RepositoryAgrees
  \/ RouteAccept \/ RouteCorrection

Next == Step \/ TreeMoves \/ Crash \/ Resume

Spec == Init /\ [][Next]_vars

(***************************************************************************)
(* Every session of the driver is bounded by a timeout and every command   *)
(* by its own, so a process that is not killed takes its next step.        *)
(***************************************************************************)
FairSpec == Spec /\ WF_vars(Step)

-----------------------------------------------------------------------------
(* Properties.                                                             *)

TypeOK ==
  /\ tree \in Trees
  /\ ledger \in Seq(Record)
  /\ fingerprint \in Trees \cup {NoTree}
  /\ situation \in Situations
  /\ pc \in Working \cup {"ended"}
  /\ decision \in {"none", "ACCEPT", "FIX"}
  /\ retried \in BOOLEAN
  /\ evidence \in [reproduced : BOOLEAN, basis : Bases, measured : SUBSET Kinds]
  /\ attempt \in 0..MaxIterations
  /\ processes \in 1..MaxProcesses
  /\ status \in Statuses
  /\ prompt \in Prompts
  /\ corrections \in Nat
  /\ routed \in BOOLEAN
  /\ founderReason \in FounderReasons

(***************************************************************************)
(* An accepted run that owed a review holds one that supported, from       *)
(* another session, the very tree the review step captured, and that no    *)
(* later change retired: there is no path from "supported earlier" to      *)
(* "supported now".                                                        *)
(***************************************************************************)
AcceptedIsReviewed ==
  status = "ACCEPTED" /\ (Triggers(situation) # {} \/ situation.warranted) =>
    \E i \in DOMAIN ledger :
      /\ ledger[i].tree = fingerprint
      /\ ledger[i].verdict = "SUPPORTED"
      /\ ledger[i].independent
      /\ ledger[i].supersededBy = NoTree

(***************************************************************************)
(* From the review step on, every review still standing is of the tree     *)
(* the step captured, whichever reviews earlier iterations took of others. *)
(***************************************************************************)
LiveReviewsAreCurrent ==
  pc \in {"reviewing", "verify", "route"} =>
    \A i \in DOMAIN ledger : Stale(ledger[i]) \/ ledger[i].tree = fingerprint

(***************************************************************************)
(* superseded_by is set once and never cleared: a review retired by a      *)
(* change does not come back when the tree does, and no verdict of the     *)
(* process is rewritten or dropped.  A resume starts another ledger.       *)
(***************************************************************************)
RetiredStaysRetired ==
  [][\A i \in DOMAIN ledger :
       \/ ledger' = <<>>
       \/ /\ i \in DOMAIN ledger'
          /\ ledger'[i].verdict = ledger[i].verdict
          /\ ledger'[i].tree = ledger[i].tree
          /\ Stale(ledger[i]) => ledger'[i] = ledger[i]]_vars

(***************************************************************************)
(* max_automatic_reviews caps how many refusals one process recycles into  *)
(* builder corrections, in whatever order refusals, retries, supports and  *)
(* the repository's own refusals come.                                     *)
(***************************************************************************)
CorrectionsWithinBudget == corrections <= CorrectionBudget

(***************************************************************************)
(* What a recorded review is said to rest on was really measured: a basis  *)
(* of reproduced or structural evidence, or a claim of reproduction that   *)
(* was let stand, has behind it a command of that kind that was admitted,  *)
(* whose own answer came back complete and met the oracle in force, the    *)
(* repository's where it declares one, in whatever order requests and      *)
(* answers came.                                                           *)
(***************************************************************************)
EvidenceIsMeasured ==
  /\ evidence.basis \in Kinds => evidence.basis \in evidence.measured
  /\ evidence.reproduced => "RUNTIME" \in evidence.measured

(***************************************************************************)
(* The loop always ends: no order of refusals, second asks and corrections *)
(* keeps a process that is not killed from a terminal status.              *)
(***************************************************************************)
EveryProcessEnds == (pc = "build") ~> (pc = "ended")

(***************************************************************************)
(* What the cycle promises whoever reads an acceptance.                    *)
(***************************************************************************)
Standing == {ledger[i].tree : i \in {j \in DOMAIN ledger :
               ledger[j].verdict = "SUPPORTED" /\ ledger[j].independent
               /\ ~Stale(ledger[j])}}

Outcome == IF pc # "ended" THEN "open"
           ELSE IF status = "ACCEPTED" THEN "accepted" ELSE "closed"

Promise == INSTANCE ReviewedAcceptance WITH
             subject <- fingerprint,
             vouched <- Standing,
             owed <- Owed(situation),
             outcome <- Outcome

ImplementsPromise == Promise!Spec
=============================================================================
