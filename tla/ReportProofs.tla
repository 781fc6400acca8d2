----------------------------- MODULE ReportProofs -----------------------------
(***************************************************************************)
(* What is proved of the two components that judge what is said of the     *)
(* work.  Of CompletionAudit, for every phase, every repository and every  *)
(* report: what a run may call established, what a report's words can      *)
(* earn, and what a review is spent on.  Of Investigation, for every set   *)
(* of explanations, probes and readings: a root cause was measured, and    *)
(* what a measurement refuted stays refuted.                               *)
(***************************************************************************)
EXTENDS CompletionAudit, Investigation, FiniteSetTheorems, SequenceTheorems,
        WellFoundedInduction, TLAPS

\* From the audit of an iteration to the end of it.
Concluding == {"judge", "review", "verify", "route", "ACCEPTED"}

Reviews == [tree : Nat \ {0}, verdict : {"SUPPORTED", "UNSUPPORTED"}]

TypeOK ==
    /\ repo \in RepositoryRecords /\ report \in ReportRecords
    /\ step \in {"build", "audit", "judge", "review", "verify", "route"} \cup Terminal
    /\ judged \in [decision : {"NONE", "ACCEPT", "FIX", "ASK_USER", "BLOCKED"},
                   gate : {"NONE", "VERIFIED", "NOT_VERIFIED"}, changed : BOOLEAN,
                   verification : {"none", "passed", "unrun", "failed"}]
    /\ reviews \in Seq(Reviews)

\* From the audit on, what the repository contradicts and what is missing stays outstanding,
\* and a review the unit owes is outstanding until one supports this tree.
OutstandingStands ==
    step \in Concluding =>
        /\ Contradictions(repo, report, Scope) \cup Missing(repo, report, Scope) \subseteq audit.outstanding
        /\ ReviewOutstanding(repo, Scope, 0) =>
              "independent review" \in audit.outstanding \/ Supported(repo.tree)

\* The audit is this iteration's, and is still it when the review's turn comes.
AuditIsFresh ==
    /\ step = "judge" => audit = Audited(repo, report, Scope, 0)
    /\ step = "review" => /\ audit = Audited(repo, report, Scope, 0)
                          /\ audit.decision \notin {"CONTRADICTED", "UNPROVEN"}
                          /\ judged.gate # "NOT_VERIFIED" /\ ~judged.changed

\* An owed review that has been passed by supported the tree.
ReviewedBeforeVerified ==
    /\ step = "ACCEPTED" => judged.decision = "ACCEPT"
    /\ step \in {"verify", "route", "ACCEPTED"} /\ judged.decision = "ACCEPT" /\ required =>
          Supported(repo.tree)

\* Only an accepted run says anything, and nothing follows what it says.
JournalIsLast ==
    journal.established \/ journal.handedOver \/ journal.shippable => step = "ACCEPTED"

IInv ==
    /\ TypeOK /\ OutstandingStands /\ AuditIsFresh /\ ReviewedBeforeVerified
    /\ JournalIsLast /\ EstablishedMeansDone

----------------------------------------------------------------------------
(* The audit as a function of what it is given.                            *)

\* A report struck of its sentences claims nothing, and says the rest as before.
LEMMA StruckReport ==
    ASSUME NEW rep \in ReportRecords
    PROVE  LET silent == [rep EXCEPT !.sentences = {}]
           IN  /\ ExtractClaims(silent.sentences) = {}
               /\ silent.paths = rep.paths /\ silent.cites = rep.cites
               /\ silent.unbuilt = rep.unbuilt /\ silent.targeted = rep.targeted
BY DEF ReportRecords, ExtractClaims

\* What the repository contradicts in a silent report, it contradicts in any.
LEMMA SilenceContradictsLeast ==
    ASSUME NEW r, NEW scope, NEW rep \in ReportRecords
    PROVE  Contradictions(r, [rep EXCEPT !.sentences = {}], scope) \subseteq Contradictions(r, rep, scope)
<1> DEFINE silent == [rep EXCEPT !.sentences = {}]
<1>1. ExtractClaims(silent.sentences) = {} /\ silent.paths = rep.paths
  BY StruckReport
<1>2. ReceiptContradictions(r, scope, {}, silent.targeted) = {}
  BY DEF ReceiptContradictions, PhaseClaimed
<1>3. ClaimContradictions(r, {}) = {} /\ ScopeOverreach(r, scope, {}) = {}
  BY DEF ClaimContradictions, ScopeOverreach
<1> HIDE DEF silent
<1>4. Contradictions(r, silent, scope) = StatusContradictions(r) \cup SkipContradictions(r) \cup (rep.paths \ r.files)
  BY <1>1, <1>2, <1>3 DEF Contradictions
<1>5. Contradictions(r, silent, scope) \subseteq Contradictions(r, rep, scope)
  BY <1>4 DEF Contradictions
<1> QED
  BY <1>5 DEF silent

\* A silent report owes what the task requires and the reviews it requires, and so does any.
LEMMA SilenceOwesLeast ==
    ASSUME NEW r, NEW scope, NEW rep \in ReportRecords
    PROVE  LET silent == [rep EXCEPT !.sentences = {}]
           IN  /\ Missing(r, silent, scope) =
                     TaskRequirementsOutstanding(r, rep, scope) \cup ReviewItems(r, scope, {})
               /\ Missing(r, silent, scope) \subseteq Missing(r, rep, scope)
<1> DEFINE silent == [rep EXCEPT !.sentences = {}]
<1>1. ExtractClaims(silent.sentences) = {} /\ silent.cites = rep.cites /\ silent.unbuilt = rep.unbuilt
  BY StruckReport
<1> HIDE DEF silent
<1>2. ReceiptsMissing(r, scope, {}) = {}
  <2>1. \A k \in ReceiptKinds : ClaimOf[k] \notin {} /\ ~PhaseClaimed({})
    BY DEF PhaseClaimed
  <2> QED
    BY <2>1 DEF ReceiptsMissing
<1>3. TaskRequirementsOutstanding(r, silent, scope) = TaskRequirementsOutstanding(r, rep, scope)
  BY <1>1 DEF TaskRequirementsOutstanding, ImplementationOutstanding, Evidenced
<1>4. \A claims : ReviewItems(r, scope, {}) \subseteq ReviewItems(r, scope, claims)
  BY DEF ReviewItems, PhaseClaimed
<1>5. Missing(r, silent, scope) = TaskRequirementsOutstanding(r, rep, scope) \cup ReviewItems(r, scope, {})
  BY <1>1, <1>2, <1>3 DEF Missing
<1>6. Missing(r, silent, scope) \subseteq Missing(r, rep, scope)
  BY <1>4, <1>5 DEF Missing
<1> QED
  BY <1>5, <1>6 DEF silent

\* When only the independent criteria remain, an acceptance owes nothing but their review.
LEMMA OnlyReviewRemains ==
    ASSUME NEW r, NEW scope, NEW rep, OnlyIndependentRemains(r),
           scope.intent # "PHASE_IMPLEMENTATION"
    PROVE  TaskRequirementsOutstanding(r, rep, scope) \subseteq ReviewItems(r, scope, {})
<1>1. CASE scope.intent = "PHASE_ACCEPTANCE"
  <2>1. TaskRequirementsOutstanding(r, rep, scope) = Required \ r.passed
    BY <1>1 DEF TaskRequirementsOutstanding
  <2>2. Criteria \ r.passed \subseteq Independent \ r.passed
    BY DEF OnlyIndependentRemains, IndependentPending, Pending
  <2>3. Required \ r.passed \subseteq {c \in Independent \ r.passed : c \in Required}
    BY <2>2 DEF Required
  <2> QED
    BY <1>1, <2>1, <2>3 DEF ReviewItems
<1>2. CASE scope.intent # "PHASE_ACCEPTANCE"
  BY <1>2 DEF TaskRequirementsOutstanding
<1> QED
  BY <1>1, <1>2

\* The items a review supplies are independent criteria, whatever is claimed.
LEMMA ItemsAreIndependent ==
    ASSUME NEW r, NEW scope, NEW claims
    PROVE  ReviewItems(r, scope, claims) \subseteq Independent
BY DEF ReviewItems

\* The audit of a report never ranks above the audit of the same report struck of its
\* sentences (completion_auditor._decide).
LEMMA WordsEarnNothing ==
    ASSUME NEW r, NEW scope, NEW reviewed, NEW rep \in ReportRecords
    PROVE  Rank[Decide(r, rep, scope, reviewed)]
             <= Rank[Decide(r, [rep EXCEPT !.sentences = {}], scope, reviewed)]
<1> DEFINE silent == [rep EXCEPT !.sentences = {}]
           claims == ExtractClaims(rep.sentences)
<1>1. ExtractClaims(silent.sentences) = {}
  BY StruckReport
<1>2. Contradictions(r, silent, scope) \subseteq Contradictions(r, rep, scope)
  BY SilenceContradictsLeast
<1>3. /\ Missing(r, silent, scope) =
            TaskRequirementsOutstanding(r, rep, scope) \cup ReviewItems(r, scope, {})
      /\ Missing(r, silent, scope) \subseteq Missing(r, rep, scope)
  BY SilenceOwesLeast
<1> HIDE DEF silent
<1>4. Decide(r, rep, scope, reviewed) \in DOMAIN Rank /\ Decide(r, silent, scope, reviewed) \in DOMAIN Rank
  BY DEF Decide, Rank
<1>5. CASE Contradictions(r, rep, scope) # {}
  <2>1. Decide(r, rep, scope, reviewed) = "CONTRADICTED"
    BY <1>5 DEF Decide
  <2> QED
    BY <2>1, <1>4 DEF Rank, silent
<1>6. CASE /\ Contradictions(r, rep, scope) = {}
           /\ scope.intent = "PHASE_IMPLEMENTATION" \/ IsNested(scope.intent)
  <2>1. Contradictions(r, silent, scope) = {}
    BY <1>2, <1>6
  <2>2. Decide(r, rep, scope, reviewed) =
          IF Missing(r, rep, scope) # {} THEN "UNPROVEN"
          ELSE IF ReviewOutstanding(r, scope, reviewed) THEN "REQUIRES_INDEPENDENT_REVIEW"
          ELSE "VERIFIED"
    BY <1>6 DEF Decide
  <2>3. Decide(r, silent, scope, reviewed) =
          IF Missing(r, silent, scope) # {} THEN "UNPROVEN"
          ELSE IF ReviewOutstanding(r, scope, reviewed) THEN "REQUIRES_INDEPENDENT_REVIEW"
          ELSE "VERIFIED"
    BY <1>6, <2>1 DEF Decide
  <2> QED
    BY <2>2, <2>3, <1>3 DEF Rank, silent
<1>7. CASE /\ Contradictions(r, rep, scope) = {}
           /\ ~(scope.intent = "PHASE_IMPLEMENTATION" \/ IsNested(scope.intent))
  <2> DEFINE missing == Missing(r, rep, scope)
             owed == Missing(r, silent, scope)
  <2>1. Contradictions(r, silent, scope) = {}
    BY <1>2, <1>7
  <2>2. Decide(r, silent, scope, reviewed) =
          IF OnlyIndependentRemains(r) /\ owed \subseteq ReviewItems(r, scope, {})
             THEN "REQUIRES_INDEPENDENT_REVIEW"
          ELSE IF owed # {} THEN "UNPROVEN" ELSE "VERIFIED"
    BY <1>1, <1>7, <2>1 DEF Decide
  <2>3. /\ OnlyIndependentRemains(r) /\ missing \subseteq ReviewItems(r, scope, claims) =>
              Decide(r, rep, scope, reviewed) = "REQUIRES_INDEPENDENT_REVIEW"
        /\ ~(OnlyIndependentRemains(r) /\ missing \subseteq ReviewItems(r, scope, claims)) /\ missing # {} =>
              Decide(r, rep, scope, reviewed) = "UNPROVEN"
    BY <1>7 DEF Decide
  <2>4. OnlyIndependentRemains(r) => owed \subseteq ReviewItems(r, scope, {})
    BY <1>3, <1>7, OnlyReviewRemains
  <2>5. OnlyIndependentRemains(r) => Decide(r, rep, scope, reviewed) # "VERIFIED"
    <3>1. missing = {} => missing \subseteq ReviewItems(r, scope, claims)
      OBVIOUS
    <3> QED
      BY <2>3, <3>1
  <2>6. CASE OnlyIndependentRemains(r)
    BY <2>2, <2>4, <2>5, <2>6, <1>4 DEF Rank, silent
  <2>7. CASE ~OnlyIndependentRemains(r)
    <3>1. owed # {} => missing # {}
      BY <1>3
    <3> HIDE DEF owed, missing
    <3>2. CASE owed # {}
      BY <3>1, <3>2, <2>2, <2>3, <2>7 DEF Rank, silent
    <3>3. CASE owed = {}
      BY <3>3, <2>2, <2>7, <1>4 DEF Rank, silent
    <3> QED
      BY <3>2, <3>3
  <2> QED
    BY <2>6, <2>7
<1> QED
  BY <1>5, <1>6, <1>7

\* Every edit of a repository leaves a repository.
LEMMA EditsAreRepositories ==
    ASSUME NEW r \in RepositoryRecords
    PROVE  Edits(r) \subseteq RepositoryRecords
<1>1. Scores(r) \subseteq RepositoryRecords
  BY DEF Scores, Pending, RepositoryRecords
<1>2. Records(r) \subseteq RepositoryRecords
  <2> SUFFICES ASSUME NEW c \in Built, NEW loc \in Locators
               PROVE  [r EXCEPT !.recorded[c] = @ \cup {loc}] \in RepositoryRecords
    BY DEF Records
  <2>1. [r.recorded EXCEPT ![c] = @ \cup {loc}] \in [Built -> SUBSET Locators]
    BY DEF RepositoryRecords
  <2> QED
    BY <2>1 DEF RepositoryRecords
<1>3. Artifacts(r) \subseteq RepositoryRecords
  BY DEF Artifacts, RepositoryRecords
<1>4. Receipted(r) \subseteq RepositoryRecords
  <2> SUFFICES ASSUME NEW k \in ReceiptKinds
               PROVE  [r EXCEPT !.receipts[k] = [state |-> "passed", commit |-> r.head]] \in RepositoryRecords
    BY DEF Receipted
  <2>1. [r.receipts EXCEPT ![k] = [state |-> "passed", commit |-> r.head]]
          \in [ReceiptKinds -> [state : {"absent", "passed", "failed"}, commit : Nat]]
    BY DEF RepositoryRecords
  <2> QED
    BY <2>1 DEF RepositoryRecords
<1>5. Written(r) \subseteq RepositoryRecords
  <2>1. r.documents \cup {"unit"} \in SUBSET {"unit", "implementer", "untracked"}
    BY DEF RepositoryRecords
  <2>2. [r EXCEPT !.documents = @ \cup {"unit"}] \in RepositoryRecords
    BY <2>1 DEF RepositoryRecords
  <2>3. [r EXCEPT !.faults = {}] \in RepositoryRecords
    BY DEF RepositoryRecords
  <2>4. [r EXCEPT !.landed = CheckpointsExpected] \in RepositoryRecords
    BY AuditAssumption DEF RepositoryRecords
  <2>5. [r EXCEPT !.status = "COMPLETE"] \in RepositoryRecords
    BY DEF RepositoryRecords
  <2> QED
    BY <2>2, <2>3, <2>4, <2>5 DEF Written
<1>6. \A e \in RepositoryRecords :
        /\ [e EXCEPT !.tree = @ + 1, !.dirty = TRUE] \in RepositoryRecords
        /\ [e EXCEPT !.tree = @ + 1, !.dirty = FALSE, !.head = @ + 1] \in RepositoryRecords
  <2> SUFFICES ASSUME NEW e \in RepositoryRecords
               PROVE  /\ [e EXCEPT !.tree = @ + 1, !.dirty = TRUE] \in RepositoryRecords
                      /\ [e EXCEPT !.tree = @ + 1, !.dirty = FALSE, !.head = @ + 1] \in RepositoryRecords
    OBVIOUS
  <2>1. e.tree + 1 \in Nat \ {0} /\ e.head + 1 \in Nat
    BY DEF RepositoryRecords
  <2> QED
    BY <2>1 DEF RepositoryRecords
<1> QED
  BY <1>1, <1>2, <1>3, <1>4, <1>5, <1>6 DEF Edits

\* An audit carries the verdict, and everything it found outstanding.
LEMMA AuditReports ==
    ASSUME NEW r, NEW rep, NEW scope, NEW reviewed
    PROVE  LET a == Audited(r, rep, scope, reviewed)
           IN  /\ a.decision = Decide(r, rep, scope, reviewed)
               /\ Contradictions(r, rep, scope) \cup Missing(r, rep, scope) \subseteq a.outstanding
               /\ ReviewOutstanding(r, scope, reviewed) => "independent review" \in a.outstanding
               /\ a.outstanding \subseteq Contradictions(r, rep, scope) \cup Missing(r, rep, scope)
                                          \cup {"independent review"}
BY DEF Audited

\* Holding a review back only adds to what is outstanding.
LEMMA HoldingAddsWork ==
    ASSUME NEW r, NEW rep, NEW scope, NEW reviewed, NEW blockers
    PROVE  LET a == Audited(r, rep, scope, reviewed)
               h == HoldReviewBehind(a, blockers)
           IN  /\ a.outstanding \subseteq h.outstanding
               /\ blockers = {} => h = a
<1> DEFINE a == Audited(r, rep, scope, reviewed)
<1>1. [a EXCEPT !.result = "UNPROVEN", !.outstanding = @ \cup blockers].outstanding = a.outstanding \cup blockers
  BY DEF Audited
<1> HIDE DEF a
<1>2. /\ a.outstanding \subseteq HoldReviewBehind(a, blockers).outstanding
      /\ blockers = {} => HoldReviewBehind(a, blockers) = a
  BY <1>1 DEF HoldReviewBehind
<1> QED
  BY <1>2 DEF a

\* An audit that neither refutes nor finds work leaves nothing outstanding but reviews.
LEMMA OnlyReviewsOutstanding ==
    ASSUME NEW r, NEW rep, NEW scope, NEW reviewed,
           Decide(r, rep, scope, reviewed) \notin {"CONTRADICTED", "UNPROVEN"}
    PROVE  Audited(r, rep, scope, reviewed).outstanding \subseteq Independent \cup {"independent review"}
<1>1. Contradictions(r, rep, scope) = {}
  BY DEF Decide
<1>2. \/ Missing(r, rep, scope) = {}
      \/ Missing(r, rep, scope) \subseteq ReviewItems(r, scope, ExtractClaims(rep.sentences))
  BY DEF Decide
<1> QED
  BY <1>1, <1>2, AuditReports, ItemsAreIndependent

\* With no review taken, a unit's rule alone leaves its review outstanding.
LEMMA ReviewDischarges ==
    ASSUME NEW r \in RepositoryRecords, NEW scope
    PROVE  ReviewOutstanding(r, scope, 0) <=>
              /\ IsNested(scope.intent)
              /\ "INDEPENDENT_REVIEW" \in r.rules
              /\ "unit" \notin r.documents \/ NotIndependent(r)
BY DEF ReviewOutstanding, RepositoryRecords

----------------------------------------------------------------------------
(* The invariant, one action at a time.                                    *)

\* A review of the tree, once supported, stays in the ledger.
LEMMA LedgerKeepsSupport ==
    ASSUME reviews \in Seq(Reviews), NEW entry \in Reviews, NEW version, Supported(version),
           reviews' = Append(reviews, entry)
    PROVE  Supported(version)'
<1>1. PICK i \in DOMAIN reviews : reviews[i] = [tree |-> version, verdict |-> "SUPPORTED"]
  BY DEF Supported
<1>2. i \in DOMAIN reviews' /\ reviews'[i] = reviews[i]
  BY <1>1
<1> QED
  BY <1>1, <1>2 DEF Supported

\* Nothing is said before the journal is written.
LEMMA InitIInv == Init => IInv
<1> SUFFICES ASSUME Init PROVE IInv
  OBVIOUS
<1>1. TypeOK
  <2>1. NoReport \in ReportRecords
    BY DEF NoReport, ReportRecords
  <2>2. repo \in RepositoryRecords
    BY AuditAssumption DEF Init
  <2>3. <<>> \in Seq(Reviews)
    OBVIOUS
  <2> QED
    BY <2>1, <2>2, <2>3 DEF Init, TypeOK, NoJudgement
<1> QED
  BY <1>1 DEF Init, IInv, OutstandingStands, Concluding, AuditIsFresh, ReviewedBeforeVerified,
              JournalIsLast, EstablishedMeansDone, NoJournal

\* While the run has not concluded the journal claims nothing.
LEMMA NotYetSaid ==
    ASSUME IInv, step # "ACCEPTED"
    PROVE  ~journal.established /\ ~journal.handedOver /\ ~journal.shippable
BY DEF IInv, JournalIsLast

\* A builder's turn opens an iteration whose audit is still to come.
LEMMA BuildIInv ==
    ASSUME IInv, Build \/ BuilderFails
    PROVE  IInv'
<1>1. ~journal.established /\ ~journal.handedOver /\ ~journal.shippable
  BY NotYetSaid DEF Build, BuilderFails
<1>2. TypeOK'
  <2>1. CASE Build
    BY <2>1, EditsAreRepositories, AuditAssumption DEF IInv, TypeOK, Build
  <2>2. CASE BuilderFails
    BY <2>2 DEF IInv, TypeOK, BuilderFails, Terminal
  <2> QED
    BY <2>1, <2>2
<1>3. step' \in {"audit", "BLOCKED"} /\ journal' = journal
  BY DEF Build, BuilderFails
<1> QED
  BY <1>1, <1>2, <1>3
     DEF IInv, OutstandingStands, Concluding, AuditIsFresh, ReviewedBeforeVerified, JournalIsLast,
         EstablishedMeansDone

\* An audit names all it found.
LEMMA AuditIInv ==
    ASSUME IInv, Audit
    PROVE  IInv'
<1>1. ~journal.established /\ ~journal.handedOver /\ ~journal.shippable
  BY NotYetSaid DEF Audit
<1>2. TypeOK'
  BY DEF IInv, TypeOK, Audit
<1>3. OutstandingStands'
  BY AuditReports DEF Audit, OutstandingStands, Scope, Supported
<1> QED
  BY <1>1, <1>2, <1>3
     DEF Audit, IInv, AuditIsFresh, ReviewedBeforeVerified, JournalIsLast, EstablishedMeansDone, Scope

\* A judgement that accepts holds nothing behind anything.
LEMMA JudgeIInv ==
    ASSUME IInv, Judge
    PROVE  IInv'
<1>1. PICK evaluator \in {"ACCEPT", "FIX", "ASK_USER", "BLOCKED"},
           gate \in {"NONE", "VERIFIED", "NOT_VERIFIED"}, changed \in BOOLEAN :
        LET blockers == PreReviewBlockers(gate, changed)
            decision == Combined(evaluator, blockers, audit)
        IN  /\ audit' = HoldReviewBehind(audit, blockers)
            /\ judged' = [decision |-> decision, gate |-> gate, changed |-> changed,
                          verification |-> judged.verification]
            /\ step' = IF decision = "ACCEPT" THEN "review" ELSE "route"
  BY DEF Judge
<1> DEFINE blockers == PreReviewBlockers(gate, changed)
           decision == Combined(evaluator, blockers, audit)
<1>2. UNCHANGED <<task, repo, report, iteration, reviews, satisfying, journal>> /\ step = "judge"
  BY DEF Judge
<1>3. ~journal.established /\ ~journal.handedOver /\ ~journal.shippable
  BY <1>2, NotYetSaid
<1>4. audit = Audited(repo, report, Scope, 0)
  BY <1>2 DEF IInv, AuditIsFresh
<1>5. decision \in {"ACCEPT", "FIX", "ASK_USER", "BLOCKED"}
  BY DEF Combined
<1>6. decision = "ACCEPT" => /\ blockers = {} /\ audit.decision \notin {"CONTRADICTED", "UNPROVEN"}
                             /\ gate # "NOT_VERIFIED" /\ ~changed
  BY DEF Combined, PreReviewBlockers
<1>7. TypeOK'
  <2>1. judged' \in [decision : {"NONE", "ACCEPT", "FIX", "ASK_USER", "BLOCKED"},
                     gate : {"NONE", "VERIFIED", "NOT_VERIFIED"}, changed : BOOLEAN,
                     verification : {"none", "passed", "unrun", "failed"}]
    BY <1>1, <1>5 DEF IInv, TypeOK
  <2> QED
    BY <2>1, <1>1, <1>2 DEF IInv, TypeOK
<1>8. audit.outstanding \subseteq audit'.outstanding /\ (blockers = {} => audit' = audit)
  BY <1>1, <1>4, HoldingAddsWork
<1>9. OutstandingStands'
  BY <1>2, <1>8 DEF IInv, OutstandingStands, Concluding, Supported, Scope
<1>10. AuditIsFresh'
  BY <1>1, <1>2, <1>4, <1>6, <1>8 DEF AuditIsFresh, Scope
<1>11. ReviewedBeforeVerified'
  BY <1>1 DEF ReviewedBeforeVerified
<1>12. JournalIsLast' /\ EstablishedMeansDone'
  BY <1>2, <1>3 DEF JournalIsLast, EstablishedMeansDone
<1> QED
  BY <1>7, <1>9, <1>10, <1>11, <1>12 DEF IInv

\* A review that supports the tree is in the ledger; one that does not corrects.
LEMMA ReviewIInv ==
    ASSUME IInv, ReviewNotOwed \/ ReviewSupports \/ ReviewRefuses \/ ReviewUnavailable
    PROVE  IInv'
<1>1. ~journal.established /\ ~journal.handedOver /\ ~journal.shippable
  BY NotYetSaid DEF ReviewNotOwed, ReviewSupports, ReviewRefuses, ReviewUnavailable
<1>2. UNCHANGED <<task, repo, report, required, journal>> /\ step = "review"
  BY DEF ReviewNotOwed, ReviewSupports, ReviewRefuses, ReviewUnavailable
<1>3. repo.tree \in Nat \ {0}
  BY DEF IInv, TypeOK, RepositoryRecords
<1>4. JournalIsLast' /\ EstablishedMeansDone'
  BY <1>1, <1>2 DEF JournalIsLast, EstablishedMeansDone
<1>5. CASE ReviewNotOwed
  <2>1. TypeOK'
    BY <1>5 DEF IInv, TypeOK, ReviewNotOwed
  <2>2. OutstandingStands'
    BY <1>5 DEF IInv, OutstandingStands, Concluding, ReviewNotOwed, Supported, Scope
  <2> QED
    BY <1>4, <1>5, <2>1, <2>2 DEF IInv, AuditIsFresh, ReviewedBeforeVerified, ReviewNotOwed
<1>6. CASE ReviewSupports
  <2>1. reviews' \in Seq(Reviews) /\ Supported(repo.tree)'
    <3>1. CASE Supported(repo.tree)
      BY <1>2, <1>6, <3>1 DEF IInv, TypeOK, ReviewSupports, Supported
    <3>2. CASE ~Supported(repo.tree)
      <4> DEFINE entry == [tree |-> repo.tree, verdict |-> "SUPPORTED"]
      <4>1. entry \in Reviews /\ reviews \in Seq(Reviews) /\ reviews' = Append(reviews, entry)
        BY <1>3, <1>6, <3>2 DEF IInv, TypeOK, ReviewSupports, Reviews
      <4> HIDE DEF entry
      <4>2. /\ reviews' \in Seq(Reviews) /\ Len(reviews) + 1 \in DOMAIN reviews'
            /\ reviews'[Len(reviews) + 1] = entry
        BY <4>1
      <4> QED
        BY <1>2, <4>2 DEF Supported, entry
    <3> QED
      BY <3>1, <3>2
  <2>2. TypeOK'
    BY <2>1, <1>6 DEF IInv, TypeOK, ReviewSupports
  <2>3. OutstandingStands'
    BY <1>2, <1>6, <2>1, AuditReports DEF ReviewSupports, OutstandingStands, Scope
  <2> QED
    BY <1>4, <1>6, <2>1, <2>2, <2>3 DEF IInv, AuditIsFresh, ReviewedBeforeVerified, ReviewSupports
<1>7. CASE ReviewRefuses
  <2>1. reviews' \in Seq(Reviews)
    BY <1>3, <1>7 DEF IInv, TypeOK, ReviewRefuses, Reviews
  <2>2. TypeOK'
    BY <2>1, <1>7 DEF IInv, TypeOK, ReviewRefuses
  <2>3. Supported(repo.tree) => Supported(repo.tree)'
    BY <1>7 DEF ReviewRefuses
  <2>4. OutstandingStands'
    BY <1>2, <1>7, <2>3 DEF IInv, OutstandingStands, Concluding, ReviewRefuses, Scope
  <2>5. judged'.decision = "FIX" /\ step' = "verify"
    BY <1>7 DEF ReviewRefuses, IInv, TypeOK
  <2> QED
    BY <1>4, <2>2, <2>4, <2>5 DEF IInv, AuditIsFresh, ReviewedBeforeVerified
<1>8. CASE ReviewUnavailable
  <2>1. TypeOK'
    BY <1>8 DEF IInv, TypeOK, ReviewUnavailable, Terminal
  <2> QED
    BY <1>4, <1>8, <2>1
       DEF IInv, OutstandingStands, Concluding, AuditIsFresh, ReviewedBeforeVerified, ReviewUnavailable
<1> QED
  BY <1>5, <1>6, <1>7, <1>8

\* Verification and routing leave the audit and the ledger as they are.
LEMMA RouteIInv ==
    ASSUME IInv, VerifyRepository \/ Finish \/ Correct \/ BudgetSpent
    PROVE  IInv'
<1>1. ~journal.established /\ ~journal.handedOver /\ ~journal.shippable
  BY NotYetSaid DEF VerifyRepository, Finish, Correct, BudgetSpent
<1>2. UNCHANGED <<task, repo, audit, reviews, satisfying, required, journal>> /\ step \in {"verify", "route"}
  BY DEF VerifyRepository, Finish, Correct, BudgetSpent
<1>3. JournalIsLast' /\ EstablishedMeansDone'
  BY <1>1, <1>2 DEF JournalIsLast, EstablishedMeansDone
<1>4. TypeOK'
  <2>1. NoReport \in ReportRecords
    BY DEF NoReport, ReportRecords
  <2>2. CASE VerifyRepository
    BY <2>2 DEF IInv, TypeOK, VerifyRepository
  <2>3. CASE Finish \/ BudgetSpent
    BY <2>3 DEF IInv, TypeOK, Finish, BudgetSpent, Terminal
  <2>4. CASE Correct
    BY <2>1, <2>4 DEF IInv, TypeOK, Correct, NoJudgement
  <2> QED
    BY <2>2, <2>3, <2>4
<1>5. CASE Correct
  BY <1>3, <1>4, <1>5
     DEF IInv, OutstandingStands, Concluding, AuditIsFresh, ReviewedBeforeVerified, Correct
<1>6. CASE VerifyRepository \/ Finish \/ BudgetSpent
  <2>1. report' = report
    BY <1>6 DEF VerifyRepository, Finish, BudgetSpent
  <2>2. OutstandingStands'
    BY <1>2, <2>1 DEF IInv, OutstandingStands, Concluding, Supported, Scope
  <2>3. step' \in {"route", "ACCEPTED"} \cup (Terminal \ {"ACCEPTED"})
    BY <1>6 DEF VerifyRepository, Finish, BudgetSpent, Terminal
  <2>4. judged'.decision = "ACCEPT" => judged.decision = "ACCEPT"
    BY <1>6 DEF VerifyRepository, Finish, BudgetSpent, IInv, TypeOK
  <2>5. step' = "ACCEPTED" => judged'.decision = "ACCEPT"
    BY <1>6 DEF VerifyRepository, Finish, BudgetSpent
  <2>6. ReviewedBeforeVerified'
    BY <1>2, <2>4, <2>5 DEF IInv, ReviewedBeforeVerified, Supported
  <2> QED
    BY <1>3, <1>4, <2>2, <2>3, <2>6 DEF IInv, AuditIsFresh, Terminal
<1> QED
  BY <1>5, <1>6

\* An accepted run with nothing outstanding has done its task, been reviewed and contradicted nothing.
LEMMA AcceptedIsDone ==
    ASSUME IInv, step = "ACCEPTED", audit.outstanding = {}
    PROVE  TaskDone /\ ReviewDone /\ Contradictions(repo, report, Scope) = {}
<1>1. Contradictions(repo, report, Scope) = {} /\ Missing(repo, report, Scope) = {}
  BY DEF IInv, OutstandingStands, Concluding
<1>2. TaskRequirementsOutstanding(repo, report, Scope) = {}
  BY <1>1 DEF Missing
<1>3. TaskDone
  <2>1. Scope.intent = "PHASE_ACCEPTANCE" => Required \subseteq repo.passed
    BY <1>2 DEF TaskRequirementsOutstanding
  <2>2. ASSUME Scope.intent = "PHASE_IMPLEMENTATION"
        PROVE  /\ repo.landed >= CheckpointsExpected
               /\ \A c \in (Required \cap Built) \ repo.passed : Evidenced(repo, report, c)
    <3>1. ImplementationOutstanding(repo, report) = {}
      BY <1>2, <2>2 DEF TaskRequirementsOutstanding
    <3>2. ~(repo.landed < CheckpointsExpected)
      BY <3>1 DEF ImplementationOutstanding
    <3>3. repo.landed \in Nat
      BY DEF IInv, TypeOK, RepositoryRecords
    <3> QED
      BY <3>1, <3>2, <3>3, AuditAssumption DEF ImplementationOutstanding
  <2> QED
    BY <2>1, <2>2 DEF TaskDone, Evidenced
<1>4. ReviewDone
  <2>1. required => Supported(repo.tree)
    BY DEF IInv, ReviewedBeforeVerified
  <2>2. ReviewOutstanding(repo, Scope, 0) => Supported(repo.tree)
    BY DEF IInv, OutstandingStands, Concluding
  <2>3. repo \in RepositoryRecords
    BY DEF IInv, TypeOK
  <2> QED
    BY <2>1, <2>2, <2>3, ReviewDischarges DEF ReviewDone
<1> QED
  BY <1>1, <1>3, <1>4

\* What the journal says is said of the state it is written in.
LEMMA JournalIInv ==
    ASSUME IInv, WriteJournal
    PROVE  IInv'
<1>1. UNCHANGED <<task, repo, report, step, iteration, audit, judged, reviews, satisfying, required>>
  BY DEF WriteJournal
<1>2. journal'.established \/ journal'.handedOver \/ journal'.shippable =>
        step = "ACCEPTED" /\ audit.outstanding = {}
  BY DEF WriteJournal, VerificationEstablished, HandedOver, Shippable
<1>3. TypeOK' /\ OutstandingStands' /\ AuditIsFresh' /\ ReviewedBeforeVerified'
  <2>1. TypeOK'
    BY <1>1 DEF IInv, TypeOK
  <2>2. OutstandingStands'
    BY <1>1 DEF IInv, OutstandingStands, Supported, Scope
  <2>3. AuditIsFresh' /\ ReviewedBeforeVerified'
    BY <1>1 DEF IInv, AuditIsFresh, ReviewedBeforeVerified, Supported, Scope
  <2> QED
    BY <2>1, <2>2, <2>3
<1>4. JournalIsLast'
  BY <1>1, <1>2 DEF JournalIsLast
<1>5. EstablishedMeansDone'
  BY <1>1, <1>2, AcceptedIsDone DEF EstablishedMeansDone, TaskDone, ReviewDone, Supported, Scope
<1> QED
  BY <1>3, <1>4, <1>5 DEF IInv

\* No step breaks the invariant.
LEMMA NextIInv == IInv /\ [Next]_vars => IInv'
<1> SUFFICES ASSUME IInv, [Next]_vars PROVE IInv'
  OBVIOUS
<1>1. CASE Next
  BY <1>1, BuildIInv, AuditIInv, JudgeIInv, ReviewIInv, RouteIInv, JournalIInv DEF Next
<1>2. CASE UNCHANGED vars
  <2>1. TypeOK' /\ JournalIsLast'
    BY <1>2 DEF vars, IInv, TypeOK, JournalIsLast
  <2>2. OutstandingStands'
    BY <1>2 DEF vars, IInv, OutstandingStands, Supported, Scope
  <2>3. AuditIsFresh' /\ ReviewedBeforeVerified'
    BY <1>2 DEF vars, IInv, AuditIsFresh, ReviewedBeforeVerified, Supported, Scope
  <2>4. EstablishedMeansDone'
    BY <1>2 DEF vars, IInv, EstablishedMeansDone, TaskDone, ReviewDone, Supported, Scope
  <2> QED
    BY <2>1, <2>2, <2>3, <2>4 DEF IInv
<1> QED
  BY <1>1, <1>2

\* The strengthening: what is outstanding stays so until the iteration ends, the audit at the review's
\* turn is this iteration's and blocks nothing, and an owed review is behind an accepted tree
\* (the order of cli.run_loop).
THEOREM Invariance == Spec => []IInv
BY InitIInv, NextIInv, PTL DEF Spec

\* Whatever the journal establishes, hands over or calls shippable was done on the tree the run
\* leaves, reviewed where it owed a review, and contradicted nowhere (run_journal.py).
THEOREM EstablishedIsDone == Spec => []EstablishedMeansDone
<1>1. IInv => EstablishedMeansDone
  BY DEF IInv
<1> QED
  BY <1>1, Invariance, PTL

\* No wording of a report earns it a better audit than silence (completion_auditor._decide).
THEOREM SilenceIsNoWorse == Spec => []WordsNeverHelp
<1>1. IInv => WordsNeverHelp
  <2> SUFFICES ASSUME IInv, step = "judge"
               PROVE  Rank[audit.decision]
                        <= Rank[Decide(repo, [report EXCEPT !.sentences = {}], Scope, 0)]
    BY DEF WordsNeverHelp
  <2>1. audit.decision = Decide(repo, report, Scope, 0) /\ report \in ReportRecords
    BY AuditReports DEF IInv, AuditIsFresh, TypeOK
  <2> QED
    BY <2>1, WordsEarnNothing
<1> QED
  BY <1>1, Invariance, PTL

\* A verdict is added to the ledger only when nothing but the review is outstanding and neither the
\* gate nor the changed verification refuses (the order of cli.run_loop).
THEOREM ReviewComesLast == Spec => ReviewIsLast
<1>1. ASSUME IInv, [Next]_vars
      PROVE  Len(reviews') > Len(reviews) =>
                /\ audit.outstanding \subseteq Independent \cup {"independent review"}
                /\ judged.gate # "NOT_VERIFIED" /\ ~judged.changed
  <2>1. CASE ReviewSupports \/ ReviewRefuses
    <3>1. step = "review"
      BY <2>1 DEF ReviewSupports, ReviewRefuses
    <3>2. /\ audit = Audited(repo, report, Scope, 0)
          /\ audit.decision \notin {"CONTRADICTED", "UNPROVEN"}
          /\ judged.gate # "NOT_VERIFIED" /\ ~judged.changed
      BY <1>1, <3>1 DEF IInv, AuditIsFresh
    <3>3. Decide(repo, report, Scope, 0) \notin {"CONTRADICTED", "UNPROVEN"}
      BY <3>2, AuditReports
    <3>4. Audited(repo, report, Scope, 0).outstanding \subseteq Independent \cup {"independent review"}
      BY <3>3, OnlyReviewsOutstanding
    <3> QED
      BY <3>2, <3>4
  <2>2. CASE ~(ReviewSupports \/ ReviewRefuses)
    <3>1. reviews' = reviews
      BY <1>1, <2>2 DEF Next, vars, Build, BuilderFails, Audit, Judge, ReviewNotOwed, ReviewUnavailable,
                        VerifyRepository, Finish, Correct, BudgetSpent, WriteJournal
    <3>2. Len(reviews) \in Nat /\ Len(reviews') = Len(reviews)
      BY <1>1, <3>1 DEF IInv, TypeOK
    <3>3. ~(Len(reviews') > Len(reviews))
      BY <3>2
    <3> QED
      BY <3>3
  <2> QED
    BY <2>1, <2>2
<1> QED
  BY <1>1, Invariance, PTL DEF ReviewIsLast, Spec

-----------------------------------------------------------------------------
(* Naturals.                                                               *)

\* Less-than is well-founded on the naturals.
LEMMA LessThanWellFounded == IsWellFoundedOn({ss \in Nat \X Nat : ss[1] < ss[2]}, Nat)
BY NatLessThanWellFounded, Zenon DEF OpToRel

\* A set of naturals that holds 0 and, with each member, the next holds them all.
LEMMA NaturalsByInduction ==
  ASSUME NEW T, 0 \in T, \A n \in Nat : n \in T => n + 1 \in T
  PROVE  \A n \in Nat : n \in T
<1> DEFINE R == {ss \in Nat \X Nat : ss[1] < ss[2]}
           Out == {n \in Nat : n \notin T}
<1>1. SUFFICES ASSUME Out # {} PROVE FALSE
  OBVIOUS
<1>2. Out \subseteq Nat
  OBVIOUS
<1> HIDE DEF R
<1>3. IsWellFoundedOn(R, Nat)
  BY LessThanWellFounded DEF R
<1>4. PICK m \in Out : \A k \in Out : ~(<<k, m>> \in R)
  <2> HIDE DEF Out
  <2> QED
    BY <1>1, <1>2, <1>3, WFMin
<1>5. m \in Nat /\ m # 0 /\ m \notin T
  OBVIOUS
<1>6. m - 1 \in Nat /\ (m - 1) + 1 = m /\ m - 1 < m
  BY <1>5
<1>7. m - 1 \in T
  BY <1>4, <1>6 DEF R
<1> QED
  BY <1>5, <1>6, <1>7

-----------------------------------------------------------------------------
(* Belief.                                                                 *)

Statuses == {"UNPROPOSED", "ACTIVE", "SUPPORTED", "WEAKENED", "DISPROVEN"}

\* A belief about every hypothesis.
IsBelief(b) ==
  /\ b = [i \in Ids |-> b[i]]
  /\ \A i \in Ids :
       /\ b[i] = [status |-> b[i].status, confidence |-> b[i].confidence, direct |-> b[i].direct]
       /\ b[i].status \in Statuses /\ b[i].direct \in BOOLEAN

\* Support and refutation have their measurement among the observations obs.
Founded(b, obs) ==
  \A i \in Ids :
    /\ b[i].direct => \E o \in obs : o.reliability = "DIRECT" /\ Supports(i, o.signals) # {}
    /\ b[i].status = "SUPPORTED" => b[i].direct
    /\ b[i].status = "DISPROVEN" =>
         \E o \in obs : o.reliability = "DIRECT" /\ Contradicts(i, o.signals) # {}

\* What is disproven in b is as disproven in c.
StaysDisproven(b, c) == \A i \in Ids : b[i].status = "DISPROVEN" => c[i] = b[i]

\* One update keeps every belief founded, and revives none.
LEMMA UpdateFounded ==
  ASSUME NEW b, IsBelief(b), NEW obs, Founded(b, obs), NEW o \in obs
  PROVE  LET c == Incorporate(b, o.signals, o.reliability)
         IN  IsBelief(c) /\ Founded(c, obs) /\ StaysDisproven(b, c)
<1> DEFINE c == Incorporate(b, o.signals, o.reliability)
<1>1. c = [i \in Ids |-> c[i]]
  BY DEF Incorporate
<1>2. ASSUME NEW i \in Ids
      PROVE  /\ c[i] = [status |-> c[i].status, confidence |-> c[i].confidence, direct |-> c[i].direct]
             /\ c[i].status \in Statuses /\ c[i].direct \in BOOLEAN
             /\ c[i].direct => \E e \in obs : e.reliability = "DIRECT" /\ Supports(i, e.signals) # {}
             /\ c[i].status = "SUPPORTED" => c[i].direct
             /\ c[i].status = "DISPROVEN" =>
                  \E e \in obs : e.reliability = "DIRECT" /\ Contradicts(i, e.signals) # {}
             /\ b[i].status = "DISPROVEN" => c[i] = b[i]
  <2>1. /\ b[i] = [status |-> b[i].status, confidence |-> b[i].confidence, direct |-> b[i].direct]
        /\ b[i].status \in Statuses /\ b[i].direct \in BOOLEAN
        /\ b[i].direct => \E e \in obs : e.reliability = "DIRECT" /\ Supports(i, e.signals) # {}
        /\ b[i].status = "SUPPORTED" => b[i].direct
        /\ b[i].status = "DISPROVEN" =>
             \E e \in obs : e.reliability = "DIRECT" /\ Contradicts(i, e.signals) # {}
    BY DEF IsBelief, Founded
  <2>2. \/ c[i] = b[i]
        \/ IsAlive(b, i) /\ Contradicts(i, o.signals) # {} /\ c[i] = Refuted(b[i], o.reliability)
        \/ /\ IsAlive(b, i) /\ Supports(i, o.signals) # {}
           /\ c[i] = Backed(b[i], o.reliability, Cardinality(Supports(i, o.signals)))
    BY DEF Incorporate
  <2> HIDE DEF c
  <2>3. CASE c[i] = b[i]
    BY <2>1, <2>3
  <2>4. CASE /\ IsAlive(b, i) /\ Contradicts(i, o.signals) # {}
             /\ c[i] = Refuted(b[i], o.reliability)
    <3>1. CASE o.reliability = "DIRECT"
      <4>1. /\ c[i].status = "DISPROVEN" /\ c[i].direct = b[i].direct
            /\ c[i] = [status |-> c[i].status, confidence |-> c[i].confidence, direct |-> c[i].direct]
        BY <2>1, <2>4, <3>1 DEF Refuted
      <4> QED
        BY <2>1, <2>4, <3>1, <4>1 DEF Statuses, IsAlive
    <3>2. CASE o.reliability # "DIRECT"
      <4>1. /\ c[i].status = "WEAKENED" /\ c[i].direct = b[i].direct
            /\ c[i] = [status |-> c[i].status, confidence |-> c[i].confidence, direct |-> c[i].direct]
        BY <2>1, <2>4, <3>2 DEF Refuted
      <4> QED
        BY <2>1, <2>4, <4>1 DEF Statuses, IsAlive
    <3> QED
      BY <3>1, <3>2
  <2>5. CASE /\ IsAlive(b, i) /\ Supports(i, o.signals) # {}
             /\ c[i] = Backed(b[i], o.reliability, Cardinality(Supports(i, o.signals)))
    <3>1. /\ c[i].status \in {"SUPPORTED", b[i].status}
          /\ c[i].status = "SUPPORTED" => b[i].status = "SUPPORTED" \/ o.reliability = "DIRECT"
          /\ c[i].direct = (b[i].direct \/ o.reliability = "DIRECT")
          /\ c[i] = [status |-> c[i].status, confidence |-> c[i].confidence, direct |-> c[i].direct]
      BY <2>5 DEF Backed
    <3> QED
      BY <2>1, <2>5, <3>1 DEF Statuses, IsAlive
  <2> QED
    BY <2>2, <2>3, <2>4, <2>5
<1> HIDE DEF c
<1>3. IsBelief(c)
  BY <1>1, <1>2 DEF IsBelief
<1>4. Founded(c, obs)
  BY <1>2 DEF Founded
<1>5. StaysDisproven(b, c)
  BY <1>2 DEF StaysDisproven
<1> QED
  BY <1>3, <1>4, <1>5 DEF c

\* f tells the beliefs after each of the first n observations.
Tells(f, n, b, obs) ==
  f = [k \in 0..n |-> IF k = 0 THEN b
                      ELSE Incorporate(f[k - 1], obs[k].signals, obs[k].reliability)]

\* The beliefs after a sequence of observations are defined by their recursion.
LEMMA BeliefsExist ==
  ASSUME NEW S, NEW obs \in Seq(S), NEW b
  PROVE  \A n \in Nat : \E f : Tells(f, n, b, obs)
<1> USE DEF Tells
<1> DEFINE Ok(j) == \E f : Tells(f, j, b, obs)
           T == {j \in Nat : Ok(j)}
<1>1. 0 \in T
  <2>1. Ok(0)
    <3> WITNESS [k \in 0..0 |-> b]
    <3> QED
      OBVIOUS
  <2> HIDE DEF Ok
  <2> QED
    BY <2>1
<1>2. ASSUME NEW j \in Nat, j \in T
      PROVE  j + 1 \in T
  <2>1. PICK f : Tells(f, j, b, obs)
    BY <1>2
  <2> DEFINE new == Incorporate(f[j], obs[j + 1].signals, obs[j + 1].reliability)
             g == [k \in 0..(j + 1) |-> IF k = j + 1 THEN new ELSE f[k]]
  <2>2. \A k \in 0..j : f[k] = IF k = 0 THEN b
                               ELSE Incorporate(f[k - 1], obs[k].signals, obs[k].reliability)
    BY <2>1
  <2> HIDE DEF new
  <2>3. g[j + 1] = new /\ \A k \in 0..j : g[k] = f[k]
    BY j + 1 \notin 0..j
  <2>4. g = [k \in 0..(j + 1) |-> g[k]]
    OBVIOUS
  <2> HIDE DEF g
  <2>5. g[0] = b
    BY <2>2, <2>3, 0 \in 0..j
  <2>6. ASSUME NEW k \in 1..(j + 1)
        PROVE  g[k] = Incorporate(g[k - 1], obs[k].signals, obs[k].reliability)
    <3>1. CASE k = j + 1
      <4>1. k - 1 = j /\ j \in 0..j
        BY <3>1
      <4> QED
        BY <2>3, <3>1, <4>1 DEF new
    <3>2. CASE k # j + 1
      <4>1. k \in 0..j /\ k - 1 \in 0..j /\ k # 0
        BY <3>2
      <4>2. g[k] = f[k] /\ g[k - 1] = f[k - 1]
        BY <2>3, <4>1
      <4> QED
        BY <2>2, <4>1, <4>2
    <3> QED
      BY <3>1, <3>2
  <2>7. \A k \in 0..(j + 1) : g[k] = IF k = 0 THEN b
                                ELSE Incorporate(g[k - 1], obs[k].signals, obs[k].reliability)
    <3>1. \A k \in 0..(j + 1) : k = 0 \/ k \in 1..(j + 1)
      OBVIOUS
    <3>2. \A k \in 1..(j + 1) : k # 0
      OBVIOUS
    <3> QED
      BY <2>5, <2>6, <3>1, <3>2
  <2>8. Tells(g, j + 1, b, obs)
    BY <2>4, <2>7
  <2>9. Ok(j + 1)
    BY <2>8
  <2> HIDE DEF Ok
  <2> QED
    BY <2>9
<1> HIDE DEF T
<1>3. \A j \in Nat : j \in T
  BY <1>1, <1>2, NaturalsByInduction
<1> QED
  BY <1>3 DEF T

LEMMA BeliefsStep ==
  ASSUME NEW S, NEW obs \in Seq(S), NEW b
  PROVE  /\ Beliefs(b, obs)[0] = b
         /\ \A k \in 1..Len(obs) :
              Beliefs(b, obs)[k] =
                Incorporate(Beliefs(b, obs)[k - 1], obs[k].signals, obs[k].reliability)
<1>1. Len(obs) \in Nat /\ Len(obs) <= Len(obs)
  OBVIOUS
<1> DEFINE f == Beliefs(b, obs)
<1>2. \E g : Tells(g, Len(obs), b, obs)
  BY <1>1, BeliefsExist
<1>3. Tells(f, Len(obs), b, obs)
  BY <1>2, Zenon DEF Beliefs, Tells
<1> HIDE DEF f
<1>4. \A k \in 0..Len(obs) : f[k] = IF k = 0 THEN b
                     ELSE Incorporate(f[k - 1], obs[k].signals, obs[k].reliability)
  BY <1>3 DEF Tells
<1>5. f[0] = b
  BY <1>1, <1>4, 0 \in 0..Len(obs)
<1>6. ASSUME NEW k \in 1..Len(obs)
      PROVE  f[k] = Incorporate(f[k - 1], obs[k].signals, obs[k].reliability)
  BY <1>1, <1>4, k \in 0..Len(obs), k # 0
<1> QED
  BY <1>5, <1>6 DEF f

\* Any number of updates keeps every belief founded, and revives none.
LEMMA UpdatesFounded ==
  ASSUME NEW S, NEW seq \in Seq(S), NEW b, IsBelief(b), NEW obs, Founded(b, obs),
         \A k \in 1..Len(seq) : \E e \in obs : /\ e.reliability = seq[k].reliability
                                               /\ e.signals = seq[k].signals
  PROVE  LET c == IncorporateAll(b, seq)
         IN  IsBelief(c) /\ Founded(c, obs) /\ StaysDisproven(b, c)
<1> DEFINE f == Beliefs(b, seq)
           Ok(k) == IsBelief(f[k]) /\ Founded(f[k], obs) /\ StaysDisproven(b, f[k])
           T == {k \in Nat : k <= Len(seq) => Ok(k)}
<1>1. /\ Len(seq) \in Nat /\ f[0] = b
      /\ \A k \in 1..Len(seq) : f[k] = Incorporate(f[k - 1], seq[k].signals, seq[k].reliability)
  BY BeliefsStep
<1> HIDE DEF f
<1>2. Ok(0)
  BY <1>1 DEF StaysDisproven
<1>3. 0 \in T
  <2> HIDE DEF Ok
  <2> QED
    BY <1>2
<1>4. ASSUME NEW k \in Nat, k \in T
      PROVE  k + 1 \in T
  <2>1. SUFFICES ASSUME k + 1 <= Len(seq) PROVE Ok(k + 1)
    <3> HIDE DEF Ok
    <3> QED
      OBVIOUS
  <2>2. Ok(k)
    <3>1. k <= Len(seq)
      BY <1>1, <2>1
    <3> HIDE DEF Ok
    <3> QED
      BY <1>4, <3>1
  <2>3. k + 1 \in 1..Len(seq) /\ (k + 1) - 1 = k
    BY <1>1, <2>1
  <2>4. f[k + 1] = Incorporate(f[k], seq[k + 1].signals, seq[k + 1].reliability)
    BY <1>1, <2>3
  <2>5. PICK e \in obs : /\ e.reliability = seq[k + 1].reliability
                         /\ e.signals = seq[k + 1].signals
    BY <2>3
  <2>6. /\ IsBelief(f[k + 1]) /\ Founded(f[k + 1], obs) /\ StaysDisproven(f[k], f[k + 1])
    BY <2>2, <2>4, <2>5, UpdateFounded
  <2>7. StaysDisproven(b, f[k + 1])
    BY <2>2, <2>6 DEF StaysDisproven
  <2> QED
    BY <2>6, <2>7
<1> HIDE DEF T
<1>5. \A k \in Nat : k \in T
  BY <1>3, <1>4, NaturalsByInduction
<1>6. Ok(Len(seq))
  <2> HIDE DEF Ok
  <2> QED
    BY <1>1, <1>5 DEF T
<1> QED
  BY <1>6 DEF IncorporateAll, f

\* A cause was measured, and what it displaced was.
Caused ==
  result.status = "ROOT_CAUSE_FOUND" =>
    /\ pc = "done" /\ result.winner \in Ids
    /\ Alive(belief) = {result.winner} /\ belief[result.winner].direct

Grounded ==
  /\ IsBelief(belief) /\ Founded(belief, observations)
  /\ pc = "idle" => \A i \in Ids : belief[i].status = "UNPROPOSED"
  /\ Caused

LEMMA GroundedIsMeasured == Grounded => RootCauseIsMeasured
<1> SUFFICES ASSUME Grounded, result.status = "ROOT_CAUSE_FOUND" PROVE RootCauseIsMeasured
  BY DEF RootCauseIsMeasured
<1> DEFINE w == result.winner
<1>1. /\ w \in Ids /\ Alive(belief) = {w} /\ belief[w].direct
      /\ IsBelief(belief) /\ Founded(belief, observations)
  BY DEF Grounded, Caused
<1>2. w \in Int
  BY <1>1, InvestigationAssumption DEF Ids
<1> HIDE DEF w
<1>3. Measured(w, Supports)
  BY <1>1 DEF Measured, Founded
<1>4. ASSUME NEW i \in Proposed(belief) \ {w}
      PROVE  Measured(i, Contradicts)
  <2>1. i \in Ids /\ i \notin Alive(belief) /\ belief[i].status # "UNPROPOSED"
    BY <1>1 DEF Proposed
  <2>2. belief[i].status = "DISPROVEN"
    BY <1>1, <2>1 DEF Alive, IsAlive, IsBelief, Statuses
  <2> QED
    BY <1>1, <2>1, <2>2 DEF Measured, Founded
<1>5. Correction \in {0, w}
  <2>1. Carried(belief) \subseteq {w}
    BY <1>1 DEF Carried, Alive, IsAlive
  <2>2. CASE Carried(belief) = {}
    BY <2>2 DEF Correction
  <2>3. CASE Carried(belief) = {w}
    <3>1. \E i \in Carried(belief) : \A j \in Carried(belief) : i <= j
      BY <1>2, <2>3
    <3> QED
      BY <2>3, <3>1 DEF Correction
  <2> QED
    BY <2>1, <2>2, <2>3
<1> QED
  BY <1>1, <1>3, <1>4, <1>5 DEF RootCauseIsMeasured, w

LEMMA InitGrounded == InvestigationInit => Grounded
<1> SUFFICES ASSUME InvestigationInit PROVE Grounded
  OBVIOUS
<1>1. belief = [i \in Ids |-> Unproposed(i)] /\ result = Unfinished
  BY DEF InvestigationInit
<1>2. IsBelief(belief) /\ \A i \in Ids : belief[i].status = "UNPROPOSED" /\ ~belief[i].direct
  BY <1>1 DEF IsBelief, Unproposed, Statuses
<1> QED
  BY <1>1, <1>2 DEF Grounded, Founded, Caused, Unfinished

\* More observations found a belief as well.
LEMMA FoundedGrows ==
  ASSUME NEW b, NEW obs, NEW more, Founded(b, obs), obs \subseteq more
  PROVE  Founded(b, more)
BY DEF Founded

\* What is promoted stood alone, with a measurement of its own.
LEMMA PromotionGrounded ==
  ASSUME Grounded, pc # "idle", ConcludeRootCause, observations' = observations
  PROVE  Grounded' /\ StaysDisproven(belief, belief')
<1>1. PICK w \in Winners(belief) :
        /\ belief' = Promoted(belief, w)
        /\ result'.status = "ROOT_CAUSE_FOUND" /\ result'.winner = w /\ pc' = "done"
  BY DEF ConcludeRootCause, Conclude
<1>2. /\ w \in Ids /\ Alive(belief) = {w}
      /\ belief[w].direct
  BY <1>1 DEF Winners, CarriesTheLoad, LastStanding, Carried, Grounded, Founded
<1>3. /\ IsBelief(belief) /\ Founded(belief, observations)
  BY DEF Grounded
<1>4. /\ belief' = [i \in Ids |-> belief'[i]]
      /\ \A i \in Ids \ {w} : belief'[i] = belief[i]
      /\ belief'[w] = [status |-> "SUPPORTED", confidence |-> belief[w].confidence,
                       direct |-> belief[w].direct]
  <2>1. belief = [i \in Ids |-> belief[i]]
    BY <1>3 DEF IsBelief
  <2>2. belief[w] = [status |-> belief[w].status, confidence |-> belief[w].confidence,
                     direct |-> belief[w].direct]
    BY <1>2, <1>3 DEF IsBelief
  <2>3. belief' = [belief EXCEPT ![w].status = "SUPPORTED"]
    BY <1>1 DEF Promoted
  <2> QED
    BY <1>2, <2>1, <2>2, <2>3
<1>5. belief'[w].status = "SUPPORTED" /\ belief'[w].direct /\ belief'[w].direct = belief[w].direct
      /\ belief'[w] = [status |-> belief'[w].status, confidence |-> belief'[w].confidence,
                        direct |-> belief'[w].direct]
  BY <1>2, <1>4
<1>6. IsBelief(belief') /\ Founded(belief', observations')
  <2>1. ASSUME NEW i \in Ids
        PROVE  /\ belief'[i] = [status |-> belief'[i].status, confidence |-> belief'[i].confidence,
                                direct |-> belief'[i].direct]
               /\ belief'[i].status \in Statuses /\ belief'[i].direct \in BOOLEAN
               /\ belief'[i].direct = belief[i].direct
               /\ belief'[i].status = belief[i].status
                     \/ (belief'[i].status = "SUPPORTED" /\ belief'[i].direct)
    <3>1. CASE i = w
      BY <1>2, <1>3, <1>5, <3>1 DEF IsBelief, Statuses
    <3>2. CASE i # w
      BY <1>3, <1>4, <3>2 DEF IsBelief
    <3> QED
      BY <3>1, <3>2
  <2> QED
    BY <1>3, <1>4, <2>1 DEF IsBelief, Founded
<1>7. Alive(belief') = {w}
  BY <1>2, <1>4 DEF Alive, IsAlive
<1>8. StaysDisproven(belief, belief')
  BY <1>2, <1>4 DEF StaysDisproven, Alive, IsAlive
<1> QED
  BY <1>1, <1>2, <1>4, <1>5, <1>6, <1>7, <1>8 DEF Grounded, Caused

\* An end that names no cause.
LEMMA EndGrounded ==
  ASSUME Grounded, NEW status, status # "ROOT_CAUSE_FOUND", Conclude(status, 0, belief),
         belief' = belief, observations' = observations
  PROVE  Grounded' /\ StaysDisproven(belief, belief')
BY DEF Grounded, Conclude, Caused, StaysDisproven

\* A step that neither learns nor ends.
LEMMA QuietGrounded ==
  ASSUME Grounded, pc # "done" \/ pc' = "done", pc' # "idle" \/ pc = "idle",
         belief' = belief, observations' = observations, result' = result
  PROVE  Grounded' /\ StaysDisproven(belief, belief')
BY DEF Grounded, Caused, StaysDisproven

\* A probe's outcome is a direct observation, and is on record.
LEMMA LearnGrounded ==
  ASSUME Grounded, NEW p, NEW outcome, Learn(p, outcome), pc \notin {"idle", "done"},
         pc' # "idle", result' = result
  PROVE  Grounded' /\ StaysDisproven(belief, belief')
<1> DEFINE o == [reliability |-> "DIRECT", signals |-> outcome.signals, tree |-> tree]
           obs == observations \cup {o}
<1>1. /\ belief' = Incorporate(belief, o.signals, o.reliability) /\ observations' = obs
  BY DEF Learn
<1>2. o \in obs /\ Founded(belief, obs) /\ IsBelief(belief)
  BY FoundedGrows DEF Grounded
<1> HIDE DEF o, obs
<1>3. IsBelief(belief') /\ Founded(belief', obs) /\ StaysDisproven(belief, belief')
  BY <1>1, <1>2, UpdateFounded
<1> QED
  BY <1>1, <1>3 DEF Grounded, Caused

\* What the collector reads is on record.
LEMMA ReadingsRecorded ==
  ASSUME NEW seq \in Seq(Readings), NEW t
  PROVE  \A k \in 1..Len(seq) : \E e \in {Entry(o, t) : o \in Range(seq)} :
           e.reliability = seq[k].reliability /\ e.signals = seq[k].signals
<1> TAKE k \in 1..Len(seq)
<1>1. DOMAIN seq = 1..Len(seq)
  OBVIOUS
<1>2. seq[k] \in Range(seq)
  BY <1>1 DEF Range
<1>3. Entry(seq[k], t) \in {Entry(o, t) : o \in Range(seq)}
  BY <1>2
<1>4. Entry(seq[k], t).reliability = seq[k].reliability /\ Entry(seq[k], t).signals = seq[k].signals
  BY DEF Entry
<1> QED
  BY <1>3, <1>4

LEMMA BeginGrounded ==
  ASSUME Grounded, Begin, tree \in Trees
  PROVE  Grounded' /\ StaysDisproven(belief, belief')
<1>1. PICK hyps \in GenerateHypotheses :
        belief' = IncorporateAll([i \in Ids |-> IF i \in hyps THEN [Unproposed(i) EXCEPT !.status = "ACTIVE"]
                                                ELSE Unproposed(i)], CollectAll(tree))
  BY DEF Begin
<1> DEFINE fresh == [i \in Ids |-> IF i \in hyps THEN [Unproposed(i) EXCEPT !.status = "ACTIVE"]
                                   ELSE Unproposed(i)]
<1>2. IsBelief(fresh) /\ Founded(fresh, observations')
  BY DEF IsBelief, Founded, Unproposed, Statuses
<1>3. belief' = IncorporateAll(fresh, CollectAll(tree))
  BY <1>1
<1> HIDE DEF fresh
<1>4. CollectAll(tree) \in Seq(Readings)
  BY InvestigationAssumption DEF CollectAll, Collect
<1>5. IsBelief(belief') /\ Founded(belief', observations')
  <2>1. observations' = {Entry(o, tree) : o \in Range(CollectAll(tree))}
    BY DEF Begin
  <2> QED
    BY <1>2, <1>3, <1>4, <2>1, ReadingsRecorded, UpdatesFounded
<1>6. pc = "idle" /\ pc' = "consider" /\ result' = result
  BY DEF Begin
<1> QED
  BY <1>5, <1>6 DEF Grounded, Caused, StaysDisproven

LEMMA ReobserveGrounded ==
  ASSUME Grounded, Reobserve, tree \in Trees
  PROVE  Grounded' /\ StaysDisproven(belief, belief')
<1> DEFINE new == {Entry(o, tree) : o \in Range(Collect(tree))}
<1>1. /\ belief' = IncorporateAll(belief, Collect(tree)) /\ observations' = observations \cup new
      /\ pc = "consider" /\ pc' = "probe" /\ result' = result
  BY DEF Reobserve
<1>2. Collect(tree) \in Seq(Readings)
  BY InvestigationAssumption DEF Collect
<1>3. \A k \in 1..Len(Collect(tree)) : \E e \in new :
        e.reliability = Collect(tree)[k].reliability /\ e.signals = Collect(tree)[k].signals
  BY <1>2, ReadingsRecorded
<1> HIDE DEF new
<1>4. Founded(belief, observations \cup new) /\ IsBelief(belief)
  BY FoundedGrows DEF Grounded
<1>5. IsBelief(belief') /\ Founded(belief', observations') /\ StaysDisproven(belief, belief')
  BY <1>1, <1>2, <1>3, <1>4, UpdatesFounded
<1> QED
  BY <1>1, <1>5 DEF Grounded, Caused

GInv == Grounded /\ tree \in Trees

LEMMA StepGrounded ==
  ASSUME GInv, [InvestigationNext]_investigationVars
  PROVE  GInv' /\ StaysDisproven(belief, belief')
<1>1. tree' \in Trees
  BY DEF GInv, investigationVars, InvestigationNext, Begin, Pass, StopConverged, StopSpent, Reobserve,
         NoProbe, AskFounder, RunnerRefuses, Probe, Challenge, Unchallenged, Settle, Move
<1>2. CASE Begin
  BY <1>1, <1>2, BeginGrounded DEF GInv
<1>3. CASE Reobserve
  BY <1>1, <1>3, ReobserveGrounded DEF GInv
<1>4. CASE StopConverged
  BY <1>1, <1>4, PromotionGrounded DEF GInv, StopConverged
<1>5. CASE StopSpent
  <2>1. BudgetStatus(belief) # "ROOT_CAUSE_FOUND"
    BY DEF BudgetStatus
  <2> QED
    BY <1>1, <1>5, <2>1, EndGrounded DEF GInv, StopSpent
<1>6. CASE NoProbe
  BY <1>1, <1>6, EndGrounded DEF GInv, NoProbe
<1>7. CASE AskFounder
  BY <1>1, <1>7, EndGrounded DEF GInv, AskFounder
<1>8. CASE RunnerRefuses
  BY <1>1, <1>8, EndGrounded DEF GInv, RunnerRefuses
<1>9. CASE Probe
  <2>1. PICK p \in DesignProbe : \E outcome \in Produced(p) : Learn(p, outcome)
    BY <1>9 DEF Probe
  <2>2. PICK outcome \in Produced(p) : Learn(p, outcome)
    BY <2>1
  <2>3. pc = "probe" /\ pc' = "challenge" /\ result' = result
    BY <1>9 DEF Probe
  <2> QED
    BY <1>1, <2>2, <2>3, LearnGrounded DEF GInv
<1>10. CASE Challenge
  <2>1. pc = "challenge" /\ pc' = "settle" /\ result' = result
    BY <1>10 DEF Challenge
  <2>2. CASE UNCHANGED <<runs, observations, belief, transitions>>
    BY <1>1, <2>1, <2>2, QuietGrounded DEF GInv
  <2>3. CASE \E p \in DesignProbe : \E outcome \in Produced(p) : Learn(p, outcome)
    <3>1. PICK p \in DesignProbe : \E outcome \in Produced(p) : Learn(p, outcome)
      BY <2>3
    <3>2. PICK outcome \in Produced(p) : Learn(p, outcome)
      BY <3>1
    <3> QED
      BY <1>1, <2>1, <3>2, LearnGrounded DEF GInv
  <2> QED
    BY <1>10, <2>2, <2>3 DEF Challenge
<1>11. CASE Settle
  <2>1. pc = "settle" /\ observations' = observations
    BY <1>11 DEF Settle
  <2>2. CASE ConcludeRootCause
    BY <1>1, <2>1, <2>2, PromotionGrounded DEF GInv
  <2>3. CASE belief' = belief /\ Conclude("NEEDS_MORE_EVIDENCE", 0, belief)
    BY <1>1, <2>1, <2>3, EndGrounded DEF GInv
  <2>4. CASE belief' = belief /\ Conclude("PARTIAL_DIAGNOSIS", 0, belief)
    BY <1>1, <2>1, <2>4, EndGrounded DEF GInv
  <2>5. CASE belief' = belief /\ pc' = "consider" /\ result' = result
    BY <1>1, <2>1, <2>5, QuietGrounded DEF GInv
  <2> QED
    BY <1>11, <2>2, <2>3, <2>4, <2>5 DEF Settle
<1>12. CASE Pass
  BY <1>1, <1>12, QuietGrounded DEF GInv, Pass
<1>13. CASE Unchallenged
  BY <1>1, <1>13, QuietGrounded DEF GInv, Unchallenged
<1>14. CASE Move
  BY <1>1, <1>14, QuietGrounded DEF GInv, Move
<1>15. CASE UNCHANGED investigationVars
  BY <1>1, <1>15, QuietGrounded DEF GInv, investigationVars
<1> QED
  BY <1>2, <1>3, <1>4, <1>5, <1>6, <1>7, <1>8, <1>9, <1>10, <1>11, <1>12, <1>13, <1>14, <1>15
     DEF InvestigationNext

LEMMA GroundedInvariance == InvestigationSpec => []GInv
<1>1. InvestigationInit => GInv
  BY InitGrounded DEF GInv, InvestigationInit
<1>2. GInv /\ [InvestigationNext]_investigationVars => GInv'
  BY StepGrounded
<1> QED
  BY <1>1, <1>2, PTL DEF InvestigationSpec

\* A root cause was measured, for any explanations, probes, repository and
\* reports (HypothesisEngine.converged, incorporate).
THEOREM CauseMeasured == InvestigationSpec => []RootCauseIsMeasured
<1>1. GInv => RootCauseIsMeasured
  BY GroundedIsMeasured DEF GInv
<1> QED
  BY <1>1, GroundedInvariance, PTL

\* No reading and no probe revives what a measurement refuted
\* (the liveness test at the head of incorporate).
THEOREM RefutedStays == InvestigationSpec => RefutationStands
<1>1. GInv /\ [InvestigationNext]_investigationVars =>
        [\A i \in Ids : belief[i].status = "DISPROVEN" => belief'[i] = belief[i]]_investigationVars
  BY StepGrounded DEF StaysDisproven
<1> QED
  BY <1>1, GroundedInvariance, PTL DEF InvestigationSpec, RefutationStands
===============================================================================
