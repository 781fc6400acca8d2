------------------------- MODULE ReviewCycleProofs -------------------------
(***************************************************************************)
(* Proofs about ReviewCycle, for every set of trees, every set of          *)
(* situations, every budget and any number of iterations and processes.    *)
(***************************************************************************)
EXTENDS ReviewCycle, FiniteSetTheorems, SequenceTheorems, WellFoundedInduction, TLAPS

-----------------------------------------------------------------------------
(* What the ledger's operators do.                                         *)

\* Retiring stale records keeps a ledger a ledger, record by record.
LEMMA InvalidateKeepsLedger ==
  ASSUME NEW l \in Seq(Record), NEW t \in Trees
  PROVE  /\ InvalidateStale(l, t) \in Seq(Record)
         /\ DOMAIN InvalidateStale(l, t) = DOMAIN l
         /\ \A i \in DOMAIN l : InvalidateStale(l, t)[i] = Retired(l[i], t)
<1> DEFINE k == InvalidateStale(l, t)
<1>1. DOMAIN l = 1..Len(l) /\ Len(l) \in Nat
  OBVIOUS
<1>2. DOMAIN k = 1..Len(l) /\ \A i \in 1..Len(l) : k[i] = Retired(l[i], t)
  BY <1>1 DEF InvalidateStale
<1>3. \A i \in 1..Len(l) : Retired(l[i], t) \in Record
  <2> TAKE i \in 1..Len(l)
  <2>1. l[i] \in Record
    BY <1>1
  <2> QED
    BY <2>1 DEF Retired, Record
<1>4. k \in Seq(Record)
  BY <1>1, <1>2, <1>3 DEF InvalidateStale
<1> QED
  BY <1>1, <1>2, <1>4

\* A retired record keeps what the reviewer said and where; it stands only for
\* the tree it is retired against, and only if it stood before.
LEMMA RetiredFacts ==
  ASSUME NEW r \in Record, NEW t \in Trees
  PROVE  /\ Retired(r, t).tree = r.tree
         /\ Retired(r, t).verdict = r.verdict
         /\ Retired(r, t).independent = r.independent
         /\ ~Stale(Retired(r, t)) <=> (~Stale(r) /\ r.tree = t)
         /\ Stale(r) => Retired(r, t) = r
BY ReviewAssumption DEF Retired, Record, Stale

\* Recording a verdict appends one record and leaves the others alone.
LEMMA RecordKeepsLedger ==
  ASSUME NEW l \in Seq(Record), NEW r \in Review, NEW t \in Trees
  PROVE  LET k == Append(l, Entry(r, t))
         IN /\ k \in Seq(Record)
            /\ DOMAIN k = DOMAIN l \cup {Len(l) + 1}
            /\ Len(l) + 1 \notin DOMAIN l
            /\ k[Len(l) + 1] = Entry(r, t)
            /\ \A i \in DOMAIN l : k[i] = l[i]
<1>1. Entry(r, t) \in Record
  BY ReviewAssumption DEF Entry, Record, Review
<1> QED
  BY <1>1

\* The refusals of a ledger are finitely many.
LEMMA RefusalsFinite ==
  ASSUME NEW l \in Seq(Record)
  PROVE  IsFiniteSet(Refusals(l)) /\ Cardinality(Refusals(l)) \in Nat
<1>1. IsFiniteSet(1..Len(l))
  BY FS_Interval
<1>2. Refusals(l) \subseteq 1..Len(l)
  BY DEF Refusals
<1> QED
  BY <1>1, <1>2, FS_Subset, FS_CardinalityType

\* Only a refusing verdict adds to them, and it adds one.
LEMMA RecordCountsRefusals ==
  ASSUME NEW l \in Seq(Record), NEW r \in Review, NEW t \in Trees
  PROVE  Cardinality(Refusals(Append(l, Entry(r, t)))) =
           IF r.verdict = "SUPPORTED" THEN Cardinality(Refusals(l))
                                      ELSE Cardinality(Refusals(l)) + 1
<1> DEFINE k == Append(l, Entry(r, t))
           n == Len(l) + 1
<1>1. /\ DOMAIN k = DOMAIN l \cup {n} /\ n \notin DOMAIN l
      /\ k[n] = Entry(r, t) /\ \A i \in DOMAIN l : k[i] = l[i]
  BY RecordKeepsLedger
<1>2. k[n].verdict = r.verdict
  BY <1>1 DEF Entry
<1> HIDE DEF k, n
<1>3. CASE r.verdict = "SUPPORTED"
  <2>1. Refusals(k) = Refusals(l)
    BY <1>1, <1>2, <1>3 DEF Refusals
  <2> QED
    BY <2>1, <1>3 DEF k
<1>4. CASE r.verdict # "SUPPORTED"
  <2>1. Refusals(k) = Refusals(l) \cup {n} /\ n \notin Refusals(l)
    BY <1>1, <1>2, <1>4 DEF Refusals
  <2> QED
    BY <2>1, <1>4, RefusalsFinite, FS_AddElement DEF k
<1> QED
  BY <1>3, <1>4

\* Retiring a review changes no verdict.
LEMMA InvalidateKeepsRefusals ==
  ASSUME NEW l \in Seq(Record), NEW t \in Trees
  PROVE  Refusals(InvalidateStale(l, t)) = Refusals(l)
<1>1. \A i \in DOMAIN l : l[i] \in Record
  OBVIOUS
<1> QED
  BY <1>1, InvalidateKeepsLedger, RetiredFacts DEF Refusals

(***************************************************************************)
(* What a session can return is a review, whatever it asked for, whatever  *)
(* came back and whatever it claims.                                       *)
(***************************************************************************)
LEMMA SessionReturnsReview == Reviews \subseteq Review
<1> SUFFICES ASSUME NEW reply \in Replies, NEW transcript \in Transcripts
             PROVE  Bind(reply, transcript) \in Review
  BY DEF Reviews
<1> DEFINE said == Collected(reply)
           statuses == Evidence(Executions(transcript), said)
<1>1. said.verdict \in Verdicts /\ said.blocker \in BlockerKinds
  BY SessionAssumption DEF Collected, Silent, Verdicts, BlockerKinds
<1>2. Grounded(said.findings) \in BOOLEAN
  BY DEF Grounded
<1>3. Basis(statuses) \in Bases
  <2> HIDE DEF statuses
  <2> QED
    BY DEF Basis, Bases, Kinds
<1>4. Measured(transcript, said) \in SUBSET Kinds
  BY DEF Measured
<1> QED
  BY <1>1, <1>2, <1>3, <1>4 DEF Bind, Review

\* What is kept of a review is what its session established.
LEMMA EvidenceType ==
  ASSUME NEW r \in Review
  PROVE  EvidenceOf(r) \in [reproduced : BOOLEAN, basis : Bases, measured : SUBSET Kinds]
BY DEF EvidenceOf, Review

LEMMA NoEvidenceType ==
  NoEvidence \in [reproduced : BOOLEAN, basis : Bases, measured : SUBSET Kinds]
BY DEF NoEvidence, Bases, Kinds

-----------------------------------------------------------------------------
(* Type correctness.                                                       *)

USE DEF ledgerVars, captureVars, stepVars, processVars, builderVars

LEMMA TypeInit == Init => TypeOK
<1> SUFFICES ASSUME Init PROVE TypeOK
  OBVIOUS
<1>1. ledger \in Seq(Record)
  BY DEF Init
<1>2. attempt \in 0..MaxIterations /\ processes \in 1..MaxProcesses /\ corrections \in Nat
  BY ReviewAssumption DEF Init
<1>3. fingerprint \in Trees \cup {NoTree}
  BY DEF Init
<1>4. /\ pc \in Working \cup {"ended"} /\ status \in Statuses
      /\ prompt \in Prompts /\ founderReason \in FounderReasons
  BY DEF Init, Working, Statuses, Prompts, FounderReasons
<1> QED
  BY <1>1, <1>2, <1>3, <1>4, NoEvidenceType DEF Init, TypeOK

\* Correct leaves the loop's own variables in their types.
LEMMA CorrectType ==
  ASSUME TypeOK, NEW kind \in Prompts, Correct(kind)
  PROVE  /\ pc' \in {"build", "ended"}
         /\ status' \in Statuses
         /\ prompt' \in Prompts
         /\ routed' = routed
         /\ status' # "ACCEPTED" \/ status' = status
BY DEF Correct, Terminate, TypeOK, Statuses

\* A recorded verdict leaves a ledger, and evidence of its kind.
LEMMA RecordedType ==
  ASSUME TypeOK, NEW r \in Review, Recorded(r), fingerprint \in Trees
  PROVE  /\ ledger' \in Seq(Record)
         /\ evidence' \in [reproduced : BOOLEAN, basis : Bases, measured : SUBSET Kinds]
BY RecordKeepsLedger, EvidenceType DEF Recorded, TypeOK

LEMMA RouteFounder ==
  ASSUME NEW r \in Review
  PROVE  ReasonOf(r) \in FounderReasons
BY DEF ReasonOf, FounderReasons

\* The review step reads a tree it captured.
CapturedInv == pc \in {"reviewing", "verify", "route"} => fingerprint \in Trees

LEMMA TypeStep == TypeOK /\ CapturedInv /\ [Next]_vars => TypeOK' /\ CapturedInv'
<1> SUFFICES ASSUME TypeOK, CapturedInv, [Next]_vars
             PROVE  TypeOK' /\ CapturedInv'
  OBVIOUS
<1> USE ReviewAssumption
<1>1. CASE BuilderTurn
  BY <1>1 DEF BuilderTurn, TypeOK, CapturedInv, Working
<1>2. CASE StopBeforeIteration
  BY <1>2 DEF StopBeforeIteration, Terminate, TypeOK, CapturedInv, Working, Statuses
<1>3. CASE JudgeAccepts
  BY <1>3 DEF JudgeAccepts, TypeOK, CapturedInv, Working
<1>4. CASE JudgeCorrects
  <2>1. "evaluator" \in Prompts
    BY DEF Prompts
  <2> QED
    BY <1>4, <2>1, CorrectType DEF JudgeCorrects, TypeOK, CapturedInv, Working
<1>5. CASE JudgeEnds
  BY <1>5 DEF JudgeEnds, Terminate, TypeOK, CapturedInv, Working, Statuses
<1>6. CASE BeginReviewStep
  <2>1. ledger' \in Seq(Record)
    BY <1>6, InvalidateKeepsLedger DEF BeginReviewStep, TypeOK
  <2> QED
    BY <1>6, <2>1, NoEvidenceType
       DEF BeginReviewStep, Terminate, TypeOK, CapturedInv, Working, Statuses
<1>7. CASE ReviewerFails
  BY <1>7 DEF ReviewerFails, Terminate, TypeOK, CapturedInv, Working, Statuses
<1>8. CASE ReviewReturns
  <2> PICK r \in Reviews : \/ ReviewNotIndependent(r)
                          \/ ReviewSatisfies(r)
                          \/ ReviewRetried(r)
                          \/ ReviewCorrects(r)
                          \/ ReviewEscalates(r)
    BY <1>8 DEF ReviewReturns
  <2> r \in Review
    BY SessionReturnsReview
  <2>1. pc = "reviewing" /\ Recorded(r) /\ fingerprint \in Trees
    BY DEF ReviewNotIndependent, ReviewSatisfies, ReviewRetried, ReviewCorrects,
           ReviewEscalates, Recorded, CapturedInv
  <2>2. /\ ledger' \in Seq(Record)
        /\ evidence' \in [reproduced : BOOLEAN, basis : Bases, measured : SUBSET Kinds]
    BY <2>1, RecordedType
  <2>3. CASE ReviewNotIndependent(r)
    BY <2>1, <2>2, <2>3
       DEF ReviewNotIndependent, Terminate, TypeOK, CapturedInv, Working, Statuses
  <2>4. CASE ReviewSatisfies(r)
    BY <2>1, <2>2, <2>4 DEF ReviewSatisfies, TypeOK, CapturedInv, Working
  <2>5. CASE ReviewRetried(r)
    BY <2>1, <2>2, <2>5 DEF ReviewRetried, TypeOK, CapturedInv, Working
  <2>6. CASE ReviewCorrects(r)
    BY <2>1, <2>2, <2>6 DEF ReviewCorrects, TypeOK, CapturedInv, Working
  <2>7. CASE ReviewEscalates(r)
    BY <2>1, <2>2, <2>7, RouteFounder
       DEF ReviewEscalates, Terminate, TypeOK, CapturedInv, Working, Statuses
  <2> QED
    BY <2>3, <2>4, <2>5, <2>6, <2>7
<1>9. CASE RepositoryRefuses
  <2>1. "verification" \in Prompts
    BY DEF Prompts
  <2> QED
    BY <1>9, <2>1, CorrectType DEF RepositoryRefuses, TypeOK, CapturedInv, Working
<1>10. CASE RepositoryAgrees
  BY <1>10 DEF RepositoryAgrees, TypeOK, CapturedInv, Working
<1>11. CASE RouteAccept
  BY <1>11 DEF RouteAccept, Terminate, TypeOK, CapturedInv, Working, Statuses
<1>12. CASE RouteCorrection
  <2>1. "review" \in Prompts
    BY DEF Prompts
  <2> QED
    BY <1>12, <2>1, CorrectType DEF RouteCorrection, TypeOK, CapturedInv, Working
<1>13. CASE TreeMoves
  BY <1>13 DEF TreeMoves, TypeOK, CapturedInv
<1>14. CASE Crash
  BY <1>14 DEF Crash, Terminate, TypeOK, CapturedInv, Working, Statuses
<1>15. CASE Resume
  <2>1. ledger' \in Seq(Record)
    BY <1>15 DEF Resume
  <2>2. attempt' \in 0..MaxIterations /\ processes' \in 1..MaxProcesses /\ corrections' \in Nat
    BY <1>15 DEF Resume, TypeOK
  <2>3. /\ pc' \in Working \cup {"ended"} /\ status' \in Statuses
        /\ prompt' \in Prompts /\ founderReason' \in FounderReasons
    BY <1>15 DEF Resume, Working, Statuses, Prompts, FounderReasons
  <2>4. CapturedInv'
    BY <1>15 DEF Resume, CapturedInv
  <2> QED
    BY <1>15, <2>1, <2>2, <2>3, <2>4, NoEvidenceType DEF Resume, TypeOK
<1>16. CASE UNCHANGED vars
  BY <1>16 DEF vars, TypeOK, CapturedInv
<1> QED
  BY <1>1, <1>2, <1>3, <1>4, <1>5, <1>6, <1>7, <1>8, <1>9, <1>10, <1>11, <1>12,
     <1>13, <1>14, <1>15, <1>16 DEF Next, Step

\* Every variable keeps its type in every behaviour.
THEOREM TypeCorrect == Spec => [](TypeOK /\ CapturedInv)
<1>1. Init => TypeOK /\ CapturedInv
  BY TypeInit DEF Init, CapturedInv
<1> QED
  BY <1>1, TypeStep, PTL DEF Spec

-----------------------------------------------------------------------------
(* An acceptance rests on a standing review of the captured tree.          *)

(***************************************************************************)
(* AcceptedIsReviewed is not inductive: what the last step relies on is    *)
(* already true when the review step leaves an ACCEPT behind, and holds    *)
(* because nothing between that step and the route touches the ledger or   *)
(* the captured tree.                                                      *)
(***************************************************************************)
Reviewed == Owed(situation) => Satisfying(ledger, fingerprint) # {}

ReviewedInv ==
  /\ LiveReviewsAreCurrent
  /\ pc \in {"verify", "route"} /\ decision = "ACCEPT" => Reviewed
  /\ status = "ACCEPTED" => pc = "ended" /\ Reviewed

\* After the review step captured t, what stands is of t.
LEMMA InvalidateLeavesCurrent ==
  ASSUME NEW l \in Seq(Record), NEW t \in Trees
  PROVE  \A i \in DOMAIN InvalidateStale(l, t) :
           Stale(InvalidateStale(l, t)[i]) \/ InvalidateStale(l, t)[i].tree = t
<1>1. \A i \in DOMAIN l : l[i] \in Record
  OBVIOUS
<1> QED
  BY <1>1, InvalidateKeepsLedger, RetiredFacts

LEMMA ReviewedStep ==
  TypeOK /\ CapturedInv /\ ReviewedInv /\ [Next]_vars => ReviewedInv'
<1> SUFFICES ASSUME TypeOK, CapturedInv, ReviewedInv, [Next]_vars PROVE ReviewedInv'
  OBVIOUS
<1> USE DEF ReviewedInv, LiveReviewsAreCurrent, Reviewed
<1>1. CASE BuilderTurn
  BY <1>1 DEF BuilderTurn
<1>2. CASE StopBeforeIteration
  BY <1>2 DEF StopBeforeIteration, Terminate
<1>3. CASE JudgeAccepts
  BY <1>3 DEF JudgeAccepts
<1>4. CASE JudgeCorrects
  BY <1>4 DEF JudgeCorrects, Correct, Terminate
<1>5. CASE JudgeEnds
  BY <1>5 DEF JudgeEnds, Terminate
<1>6. CASE BeginReviewStep
  <2>1. LiveReviewsAreCurrent'
    BY <1>6, InvalidateLeavesCurrent DEF BeginReviewStep, TypeOK
  <2>2. pc' = "verify" => Reviewed'
    BY <1>6 DEF BeginReviewStep, Terminate
  <2>3. pc' # "route" /\ status' # "ACCEPTED"
    BY <1>6 DEF BeginReviewStep, Terminate
  <2> QED
    BY <2>1, <2>2, <2>3
<1>7. CASE ReviewerFails
  BY <1>7 DEF ReviewerFails, Terminate
<1>8. CASE ReviewReturns
  <2> PICK r \in Reviews : \/ ReviewNotIndependent(r)
                          \/ ReviewSatisfies(r)
                          \/ ReviewRetried(r)
                          \/ ReviewCorrects(r)
                          \/ ReviewEscalates(r)
    BY <1>8 DEF ReviewReturns
  <2> r \in Review
    BY SessionReturnsReview
  <2>1. pc = "reviewing" /\ Recorded(r) /\ fingerprint \in Trees /\ fingerprint' = fingerprint
    BY DEF ReviewNotIndependent, ReviewSatisfies, ReviewRetried, ReviewCorrects,
           ReviewEscalates, Recorded, CapturedInv
  <2>2. LiveReviewsAreCurrent'
    BY <2>1, RecordKeepsLedger DEF Recorded, Entry, TypeOK
  <2>3. status' # "ACCEPTED"
    BY <2>1 DEF ReviewNotIndependent, ReviewSatisfies, ReviewRetried,
                ReviewCorrects, ReviewEscalates, Terminate
  <2>4. CASE ReviewSatisfies(r)
    <3> DEFINE n == Len(ledger) + 1
    <3>1. r.verdict = "SUPPORTED"
      BY <2>4 DEF ReviewSatisfies, RouteOf, RouteReview
    <3>2. /\ n \in DOMAIN ledger' /\ ledger'[n] = Entry(r, fingerprint)
      BY <2>1, RecordKeepsLedger DEF Recorded, TypeOK
    <3>3. Satisfies(Entry(r, fingerprint), fingerprint)
      BY <2>4, <3>1 DEF ReviewSatisfies, Satisfies, Entry, Stale, Review
    <3>4. n \in Satisfying(ledger', fingerprint')
      BY <2>1, <3>2, <3>3 DEF Satisfying
    <3> QED
      BY <2>2, <2>3, <3>4
  <2>5. CASE ~ReviewSatisfies(r)
    <3>1. decision' # "ACCEPT" \/ pc' \notin {"verify", "route"}
      BY <2>1, <2>5 DEF ReviewNotIndependent, ReviewRetried, ReviewCorrects,
                        ReviewEscalates, Terminate
    <3> QED
      BY <2>2, <2>3, <3>1
  <2> QED
    BY <2>4, <2>5
<1>9. CASE RepositoryRefuses
  BY <1>9 DEF RepositoryRefuses, Correct, Terminate
<1>10. CASE RepositoryAgrees
  BY <1>10 DEF RepositoryAgrees
<1>11. CASE RouteAccept
  BY <1>11 DEF RouteAccept, Terminate
<1>12. CASE RouteCorrection
  BY <1>12 DEF RouteCorrection, Correct, Terminate
<1>13. CASE TreeMoves
  BY <1>13 DEF TreeMoves
<1>14. CASE Crash
  BY <1>14 DEF Crash, Terminate, Working
<1>15. CASE Resume
  BY <1>15 DEF Resume
<1>16. CASE UNCHANGED vars
  BY <1>16 DEF vars
<1> QED
  BY <1>1, <1>2, <1>3, <1>4, <1>5, <1>6, <1>7, <1>8, <1>9, <1>10, <1>11, <1>12,
     <1>13, <1>14, <1>15, <1>16 DEF Next, Step

\* Standing reviews are always of the captured tree while a verdict is carried.
LEMMA ReviewedAlways == Spec => []ReviewedInv
<1>1. Init => ReviewedInv
  BY DEF Init, ReviewedInv, LiveReviewsAreCurrent
<1> QED
  BY <1>1, ReviewedStep, TypeCorrect, PTL DEF Spec

\* From the review step to the end of the iteration, every review that still
\* stands is of the tree the step captured.
THEOREM ReviewsCurrent == Spec => []LiveReviewsAreCurrent
<1>1. ReviewedInv => LiveReviewsAreCurrent
  BY DEF ReviewedInv
<1> QED
  BY <1>1, ReviewedAlways, PTL

\* No run is accepted, when a review was owed, without an independent session
\* that supported the tree the review step captured.
THEOREM AcceptanceReviewed == Spec => []AcceptedIsReviewed
<1>1. ReviewedInv => AcceptedIsReviewed
  BY DEF ReviewedInv, Reviewed, Owed, Satisfying, Satisfies, Stale, AcceptedIsReviewed
<1> QED
  BY <1>1, ReviewedAlways, PTL

-----------------------------------------------------------------------------
(* The correction budget.                                                  *)

\* Each correction has a refusing review of its own behind it, which is why
\* counting refusals bounds corrections.
BudgetInv ==
  /\ corrections <= Cardinality(Refusals(ledger))
  /\ corrections <= CorrectionBudget

\* A verdict is routed to the builder only as a refusal within the budget.
LEMMA RouteCorrectFacts ==
  ASSUME NEW r \in Review, NEW refused \in Nat, NEW again \in BOOLEAN,
         RouteReview(r, refused, again) = "CORRECT_PRODUCT"
  PROVE  r.verdict # "SUPPORTED" /\ refused <= CorrectionBudget
BY ReviewAssumption DEF RouteReview

LEMMA BudgetStep ==
  TypeOK /\ CapturedInv /\ BudgetInv /\ [Next]_vars => BudgetInv'
<1> SUFFICES ASSUME TypeOK, CapturedInv, BudgetInv, [Next]_vars PROVE BudgetInv'
  OBVIOUS
<1>1. CASE UNCHANGED ledgerVars
  BY <1>1 DEF BudgetInv
<1>2. CASE BeginReviewStep
  BY <1>2, InvalidateKeepsRefusals DEF BeginReviewStep, BudgetInv, TypeOK
<1>3. CASE ReviewReturns
  <2> PICK r \in Reviews : \/ ReviewNotIndependent(r)
                          \/ ReviewSatisfies(r)
                          \/ ReviewRetried(r)
                          \/ ReviewCorrects(r)
                          \/ ReviewEscalates(r)
    BY <1>3 DEF ReviewReturns
  <2> r \in Review
    BY SessionReturnsReview
  <2> DEFINE before == Cardinality(Refusals(ledger))
             after  == Cardinality(Refusals(ledger'))
  <2>1. ledger' = Append(ledger, Entry(r, fingerprint)) /\ fingerprint \in Trees
    BY DEF ReviewNotIndependent, ReviewSatisfies, ReviewRetried, ReviewCorrects,
           ReviewEscalates, Recorded, CapturedInv
  <2>2. after = IF r.verdict = "SUPPORTED" THEN before ELSE before + 1
    BY <2>1, RecordCountsRefusals DEF TypeOK
  <2>3. before \in Nat /\ after \in Nat
    BY <2>2, RefusalsFinite DEF TypeOK
  <2>4. CASE ReviewCorrects(r)
    <3>1. RouteReview(r, after, retried) = "CORRECT_PRODUCT"
      BY <2>4 DEF ReviewCorrects, RouteOf
    <3>2. r.verdict # "SUPPORTED" /\ after <= CorrectionBudget
      BY <2>3, <3>1, RouteCorrectFacts DEF TypeOK
    <3>3. corrections' = corrections + 1
      BY <2>4 DEF ReviewCorrects
    <3> HIDE DEF before, after
    <3>4. corrections <= before
      BY DEF BudgetInv, before
    <3>5. corrections' <= after /\ corrections' <= CorrectionBudget
      BY <2>2, <2>3, <3>2, <3>3, <3>4, ReviewAssumption DEF TypeOK
    <3> QED
      BY <3>5 DEF BudgetInv, after
  <2>5. CASE ~ReviewCorrects(r)
    <3>1. corrections' = corrections
      BY <2>5 DEF ReviewNotIndependent, ReviewSatisfies, ReviewRetried, ReviewEscalates
    <3>2. corrections <= before /\ corrections <= CorrectionBudget
      BY DEF BudgetInv
    <3> HIDE DEF before, after
    <3>3. corrections' <= after /\ corrections' <= CorrectionBudget
      BY <2>2, <2>3, <3>1, <3>2 DEF TypeOK
    <3> QED
      BY <3>3 DEF BudgetInv, after
  <2> QED
    BY <2>4, <2>5
<1>4. CASE Resume
  <2>1. ledger' = <<>> /\ corrections' = 0
    BY <1>4 DEF Resume
  <2>2. <<>> \in Seq(Record)
    OBVIOUS
  <2>3. Cardinality(Refusals(ledger')) \in Nat
    BY <2>1, <2>2, RefusalsFinite
  <2> QED
    BY <2>1, <2>3, ReviewAssumption DEF BudgetInv
<1> QED
  BY <1>1, <1>2, <1>3, <1>4
     DEF Next, Step, vars, BuilderTurn, StopBeforeIteration, JudgeAccepts, JudgeCorrects,
         JudgeEnds, ReviewerFails, RepositoryRefuses, RepositoryAgrees, RouteAccept,
         RouteCorrection, TreeMoves, Crash

\* One process never recycles more refusals into corrections than the budget.
THEOREM CorrectionsBounded == Spec => []CorrectionsWithinBudget
<1>1. Init => BudgetInv
  <2> SUFFICES ASSUME Init PROVE BudgetInv
    OBVIOUS
  <2>1. ledger \in Seq(Record) /\ corrections = 0
    BY DEF Init
  <2>2. Cardinality(Refusals(ledger)) \in Nat
    BY <2>1, RefusalsFinite
  <2> QED
    BY <2>1, <2>2, ReviewAssumption DEF BudgetInv
<1>2. BudgetInv => CorrectionsWithinBudget
  BY DEF BudgetInv, CorrectionsWithinBudget
<1> QED
  BY <1>1, <1>2, BudgetStep, TypeCorrect, PTL DEF Spec

-----------------------------------------------------------------------------
(* A verdict of a process is never rewritten, a retired one never revived. *)

KeepsVerdicts ==
  \A i \in DOMAIN ledger :
    \/ ledger' = <<>>
    \/ /\ i \in DOMAIN ledger'
       /\ ledger'[i].verdict = ledger[i].verdict
       /\ ledger'[i].tree = ledger[i].tree
       /\ Stale(ledger[i]) => ledger'[i] = ledger[i]

LEMMA LedgerStep ==
  ASSUME TypeOK, CapturedInv, Next
  PROVE  KeepsVerdicts
<1>1. \A i \in DOMAIN ledger : ledger[i] \in Record
  BY DEF TypeOK
<1>2. CASE ledger' = ledger
  BY <1>2 DEF KeepsVerdicts
<1>3. CASE BeginReviewStep
  BY <1>1, <1>3, InvalidateKeepsLedger, RetiredFacts
     DEF BeginReviewStep, TypeOK, KeepsVerdicts
<1>4. CASE ReviewReturns
  <2> PICK r \in Reviews : Recorded(r)
    BY <1>4 DEF ReviewReturns, ReviewNotIndependent, ReviewSatisfies, ReviewRetried,
                ReviewCorrects, ReviewEscalates
  <2> r \in Review
    BY SessionReturnsReview
  <2>1. fingerprint \in Trees
    BY DEF Recorded, CapturedInv
  <2> QED
    BY <2>1, RecordKeepsLedger DEF Recorded, TypeOK, KeepsVerdicts
<1>5. CASE Resume
  BY <1>5 DEF Resume, KeepsVerdicts
<1> QED
  BY <1>2, <1>3, <1>4, <1>5
     DEF Next, Step, BuilderTurn, StopBeforeIteration, JudgeAccepts, JudgeCorrects,
         JudgeEnds, ReviewerFails, RepositoryRefuses, RepositoryAgrees, RouteAccept,
         RouteCorrection, TreeMoves, Crash

\* superseded_by is never cleared and no verdict is rewritten or dropped.
THEOREM RetirementIsFinal == Spec => RetiredStaysRetired
<1>1. TypeOK /\ CapturedInv /\ [Next]_vars => [KeepsVerdicts]_vars
  BY LedgerStep
<1> QED
  BY <1>1, TypeCorrect, PTL DEF Spec, RetiredStaysRetired, KeepsVerdicts

-----------------------------------------------------------------------------
(* The cycle implements ReviewedAcceptance.                                *)

\* Retiring leaves vouched for, of what was, at most the captured tree.
LEMMA InvalidateStanding ==
  ASSUME TypeOK, BeginReviewStep
  PROVE  Standing' = Standing \cap {tree}
<1> DEFINE k == InvalidateStale(ledger, tree)
<1>1. ledger' = k /\ ledger \in Seq(Record) /\ tree \in Trees
  BY DEF BeginReviewStep, TypeOK
<1>2. DOMAIN k = DOMAIN ledger
  BY <1>1, InvalidateKeepsLedger
<1>3. \A i \in DOMAIN ledger :
        /\ k[i].tree = ledger[i].tree
        /\ k[i].verdict = ledger[i].verdict
        /\ k[i].independent = ledger[i].independent
        /\ ~Stale(k[i]) <=> (~Stale(ledger[i]) /\ ledger[i].tree = tree)
  <2> TAKE i \in DOMAIN ledger
  <2>1. ledger[i] \in Record
    BY <1>1
  <2> QED
    BY <1>1, <2>1, InvalidateKeepsLedger, RetiredFacts
<1> HIDE DEF k
<1> QED
  BY <1>1, <1>2, <1>3 DEF Standing

\* A verdict vouches for the captured tree exactly when it supports it from
\* another session.
LEMMA RecordStanding ==
  ASSUME TypeOK, CapturedInv, NEW r \in Review, Recorded(r)
  PROVE  Standing' = IF r.verdict = "SUPPORTED" /\ ~r.ownSession
                     THEN Standing \cup {fingerprint} ELSE Standing
<1> DEFINE n == Len(ledger) + 1
<1>1. fingerprint \in Trees /\ ledger \in Seq(Record)
  BY DEF Recorded, CapturedInv, TypeOK
<1>2. /\ DOMAIN ledger' = DOMAIN ledger \cup {n} /\ n \notin DOMAIN ledger
      /\ ledger'[n] = Entry(r, fingerprint)
      /\ \A i \in DOMAIN ledger : ledger'[i] = ledger[i]
  BY <1>1, RecordKeepsLedger DEF Recorded
<1>3. /\ ledger'[n].tree = fingerprint
      /\ ledger'[n].verdict = r.verdict
      /\ ledger'[n].independent = ~r.ownSession
      /\ ~Stale(ledger'[n])
  BY <1>2 DEF Entry, Stale
<1> HIDE DEF n
<1> DEFINE vouching == {j \in DOMAIN ledger : /\ ledger[j].verdict = "SUPPORTED"
                                             /\ ledger[j].independent
                                             /\ ~Stale(ledger[j])}
<1>4. /\ vouching \subseteq DOMAIN ledger
      /\ Standing = {ledger[i].tree : i \in vouching}
      /\ Standing' = {ledger'[i].tree : i \in vouching'}
  BY DEF Standing
<1>5. CASE r.verdict = "SUPPORTED" /\ ~r.ownSession
  <2>1. vouching' = vouching \cup {n}
    BY <1>2, <1>3, <1>5
  <2> HIDE DEF vouching
  <2> QED
    BY <1>2, <1>3, <1>4, <1>5, <2>1
<1>6. CASE ~(r.verdict = "SUPPORTED" /\ ~r.ownSession)
  <2>1. vouching' = vouching
    BY <1>2, <1>3, <1>6
  <2> HIDE DEF vouching
  <2> QED
    BY <1>2, <1>3, <1>4, <1>6, <2>1
<1> QED
  BY <1>5, <1>6

LEMMA PromiseInit == Init => Promise!Init
<1> SUFFICES ASSUME Init PROVE Promise!Init
  OBVIOUS
<1>1. Standing = {}
  BY DEF Init, Standing
<1>2. Owed(situation) \in BOOLEAN
  BY DEF Owed
<1> QED
  BY <1>1, <1>2 DEF Init, Promise!Init, Outcome

LEMMA PromiseStep ==
  TypeOK /\ CapturedInv /\ ReviewedInv /\ [Next]_vars => [Promise!Next]_(Promise!promise)
<1> SUFFICES ASSUME TypeOK, CapturedInv, ReviewedInv, [Next]_vars
             PROVE  [Promise!Next]_(Promise!promise)
  OBVIOUS
<1> USE DEF Outcome, Promise!promise, Promise!Next
<1>0. ASSUME ledger' = ledger PROVE Standing' = Standing
  BY <1>0 DEF Standing
<1>1. ASSUME UNCHANGED <<ledger, fingerprint, situation>>, pc # "ended", pc' # "ended"
      PROVE  UNCHANGED Promise!promise
  BY <1>1, <1>0
<1>2. ASSUME UNCHANGED <<ledger, fingerprint, situation>>, pc # "ended", pc' = "ended",
             status' # "ACCEPTED"
      PROVE  Promise!Close
  BY <1>2, <1>0 DEF Promise!Close
<1>3. CASE BuilderTurn
  BY <1>1, <1>3 DEF BuilderTurn
<1>4. CASE StopBeforeIteration
  BY <1>2, <1>4 DEF StopBeforeIteration, Terminate
<1>5. CASE JudgeAccepts
  <2>1. Owed(situation') \in BOOLEAN
    BY DEF Owed
  <2> QED
    BY <1>0, <1>5, <2>1 DEF JudgeAccepts, Promise!Reassess
<1>6. CASE JudgeCorrects
  BY <1>1, <1>2, <1>6 DEF JudgeCorrects, Correct, Terminate
<1>7. CASE JudgeEnds
  BY <1>2, <1>7 DEF JudgeEnds, Terminate
<1>8. CASE BeginReviewStep
  <2>1. Standing' = Standing \cap {tree} /\ tree \in Trees
    BY <1>8, InvalidateStanding DEF TypeOK
  <2> QED
    BY <1>8, <2>1 DEF BeginReviewStep, Terminate, Promise!Claim
<1>9. CASE ReviewerFails
  BY <1>2, <1>9 DEF ReviewerFails, Terminate
<1>10. CASE ReviewReturns
  <2> PICK r \in Reviews : \/ ReviewNotIndependent(r)
                          \/ ReviewSatisfies(r)
                          \/ ReviewRetried(r)
                          \/ ReviewCorrects(r)
                          \/ ReviewEscalates(r)
    BY <1>10 DEF ReviewReturns
  <2> r \in Review
    BY SessionReturnsReview
  <2>1. /\ pc = "reviewing" /\ Recorded(r)
        /\ UNCHANGED <<fingerprint, situation>>
        /\ pc' = "ended" => status' # "ACCEPTED"
    BY DEF ReviewNotIndependent, ReviewSatisfies, ReviewRetried, ReviewCorrects,
           ReviewEscalates, Recorded, Terminate
  <2>2. Standing' \in {Standing, Standing \cup {fingerprint}}
    BY <2>1, RecordStanding
  <2>3. fingerprint # NoTree
    BY <2>1, ReviewAssumption DEF CapturedInv
  <2> QED
    BY <2>1, <2>2, <2>3 DEF Promise!Answer
<1>11. CASE RepositoryRefuses
  BY <1>1, <1>2, <1>11 DEF RepositoryRefuses, Correct, Terminate
<1>12. CASE RepositoryAgrees
  BY <1>1, <1>12 DEF RepositoryAgrees
<1>13. CASE RouteAccept
  <2>1. Owed(situation) => fingerprint \in Standing
    BY <1>13 DEF RouteAccept, ReviewedInv, Reviewed, Satisfying, Satisfies, Standing
  <2> QED
    BY <1>0, <1>13, <2>1 DEF RouteAccept, Terminate, Promise!Accept
<1>14. CASE RouteCorrection
  BY <1>1, <1>2, <1>14 DEF RouteCorrection, Correct, Terminate
<1>15. CASE TreeMoves
  BY <1>1, <1>15 DEF TreeMoves
<1>16. CASE Crash
  BY <1>2, <1>16 DEF Crash, Terminate, Working, ReviewedInv
<1>17. CASE Resume
  <2>1. Standing' = {}
    BY <1>17 DEF Resume, Standing
  <2> QED
    BY <1>17, <2>1 DEF Resume, Promise!Reopen
<1>18. CASE UNCHANGED vars
  BY <1>0, <1>18 DEF vars
<1> QED
  BY <1>3, <1>4, <1>5, <1>6, <1>7, <1>8, <1>9, <1>10, <1>11, <1>12, <1>13, <1>14,
     <1>15, <1>16, <1>17, <1>18 DEF Next, Step

\* The cycle implements the promise a reader of an acceptance relies on.
THEOREM CycleKeepsPromise == Spec => ImplementsPromise
<1> QED
  BY PromiseInit, PromiseStep, TypeCorrect, ReviewedAlways, PTL
     DEF Spec, ImplementsPromise, Promise!Spec

-----------------------------------------------------------------------------
(* What a session's executions hold.                                       *)

\* Less-than is well-founded on the naturals.
LEMMA LessThanWellFounded == IsWellFoundedOn({ss \in Nat \X Nat : ss[1] < ss[2]}, Nat)
BY NatLessThanWellFounded, Zenon DEF OpToRel

\* A set of naturals that is not empty has a least element.
LEMMA HasLeast ==
  ASSUME NEW D, D \subseteq Nat, D # {}
  PROVE  \E m \in D : \A k \in D : m <= k
<1> DEFINE R == {ss \in Nat \X Nat : ss[1] < ss[2]}
<1> HIDE DEF R
<1>1. IsWellFoundedOn(R, Nat)
  BY LessThanWellFounded DEF R
<1>2. PICK m \in D : \A k \in D : ~(<<k, m>> \in R)
  BY <1>1, WFMin
<1>3. \A k \in D : ~(k < m)
  BY <1>2 DEF R
<1> QED
  BY <1>3

\* A set of naturals that holds 0 and, with each member, the next holds them all.
LEMMA NaturalsByInduction ==
  ASSUME NEW T, 0 \in T, \A n \in Nat : n \in T => n + 1 \in T
  PROVE  \A n \in Nat : n \in T
<1> DEFINE Out == {n \in Nat : n \notin T}
<1>1. SUFFICES ASSUME Out # {} PROVE FALSE
  OBVIOUS
<1>2. PICK m \in Out : \A k \in Out : m <= k
  BY <1>1, HasLeast
<1>3. m \in Nat /\ m # 0 /\ m \notin T
  OBVIOUS
<1>4. m - 1 \in Nat /\ (m - 1) + 1 = m /\ ~(m <= m - 1)
  BY <1>3
<1>5. m - 1 \in T
  BY <1>2, <1>4
<1> QED
  BY <1>3, <1>4, <1>5

\* Positions up to a bound, if there are any, have a last one.
LEMMA HasNewest ==
  ASSUME NEW n \in Nat, NEW S, S \subseteq 1..n, S # {}
  PROVE  \E i \in S : \A j \in S : j <= i
<1> DEFINE D == {n - i : i \in S}
<1>1. D \subseteq Nat /\ D # {}
  <2>1. \A i \in S : n - i \in Nat
    OBVIOUS
  <2>2. D # {}
    OBVIOUS
  <2> QED
    BY <2>1, <2>2
<1>2. PICK m \in D : \A k \in D : m <= k
  BY <1>1, HasLeast
<1>3. PICK i \in S : m = n - i
  BY <1>2
<1>4. \A j \in S : n - i <= n - j
  BY <1>2, <1>3
<1>5. \A j \in S : j <= i
  BY <1>3, <1>4
<1> QED
  BY <1>5

\* The steps of a session, each from the one before it.
LEMMA StepsDefined ==
  ASSUME NEW t, NEW n \in Nat
  PROVE  \E f : f = [k \in 0..n |-> IF k = 0 THEN <<>> ELSE Taken(f[k - 1], t[k])]
<1> DEFINE Ok(m) == \E f : f = [k \in 0..m |-> IF k = 0 THEN <<>> ELSE Taken(f[k - 1], t[k])]
           T == {m \in Nat : Ok(m)}
<1>1. 0 \in T
  <2>1. Ok(0)
    <3> WITNESS [k \in 0..0 |-> <<>>]
    <3> QED
      OBVIOUS
  <2> QED
    BY <2>1
<1>2. ASSUME NEW m \in Nat, m \in T
      PROVE  m + 1 \in T
  <2>1. PICK f : f = [k \in 0..m |-> IF k = 0 THEN <<>> ELSE Taken(f[k - 1], t[k])]
    BY <1>2
  <2> DEFINE g == [k \in 0..(m + 1) |-> IF k = m + 1 THEN Taken(f[m], t[m + 1]) ELSE f[k]]
  <2>2. \A k \in 0..m : f[k] = IF k = 0 THEN <<>> ELSE Taken(f[k - 1], t[k])
    BY <2>1
  <2>3. \A k \in 0..(m + 1) : g[k] = IF k = 0 THEN <<>> ELSE Taken(g[k - 1], t[k])
    BY <2>2
  <2>4. g = [k \in 0..(m + 1) |-> IF k = 0 THEN <<>> ELSE Taken(g[k - 1], t[k])]
    BY <2>3
  <2> HIDE DEF g
  <2>5. Ok(m + 1)
    BY <2>4
  <2>6. m + 1 \in Nat
    OBVIOUS
  <2> HIDE DEF Ok
  <2> QED
    BY <2>5, <2>6
<1> HIDE DEF T
<1>3. \A m \in Nat : m \in T
  BY <1>1, <1>2, NaturalsByInduction
<1> QED
  BY <1>3 DEF T

\* What a session leaves after each step is what its hooks made of that step.
LEMMA AfterDefined ==
  ASSUME NEW t, Len(t) \in Nat
  PROVE  After(t) = [k \in 0..Len(t) |-> IF k = 0 THEN <<>> ELSE Taken(After(t)[k - 1], t[k])]
BY StepsDefined, Zenon DEF After

\* The first step starts from nothing, each other from the one before it.
LEMMA AfterSteps ==
  ASSUME NEW t, Len(t) \in Nat
  PROVE  /\ After(t)[0] = <<>>
         /\ \A k \in 1..Len(t) : After(t)[k] = Taken(After(t)[k - 1], t[k])
<1> DEFINE f == After(t)
<1>1. f = [k \in 0..Len(t) |-> IF k = 0 THEN <<>> ELSE Taken(f[k - 1], t[k])]
  BY AfterDefined
<1> HIDE DEF f
<1>2. \A k \in 0..Len(t) : f[k] = IF k = 0 THEN <<>> ELSE Taken(f[k - 1], t[k])
  BY <1>1
<1>3. f[0] = <<>> /\ \A k \in 1..Len(t) : f[k] = Taken(f[k - 1], t[k])
  BY <1>2
<1> QED
  BY <1>3 DEF f

-----------------------------------------------------------------------------
\* What an execution of a transcript may be.
Executed(t) ==
  [text : {t[j].text : j \in DOMAIN t}, id : {t[j].id : j \in DOMAIN t},
   observed : SUBSET {Observation(t[j]) : j \in DOMAIN t}, allowed : BOOLEAN]

\* It is one the reviewer asked for, and holds nothing or what answered a request of its text.
Joined(t, x) ==
  /\ \E j \in DOMAIN t : t[j].what = "asks" /\ t[j].text = x.text /\ t[j].id = x.id
  /\ \/ x.observed = {}
     \/ \E j \in DOMAIN t : /\ t[j].what = "answers" /\ t[j].tool = "Bash" /\ t[j].text = x.text
                            /\ x.observed = {Observation(t[j])}

\* An answer goes to an execution of its own text, or of its own identity.
LEMMA AnsweredByTextOrId ==
  ASSUME NEW x, NEW e, NEW i \in Answered(x, e)
  PROVE  x[i].text = e.text \/ (e.id # 0 /\ x[i].id = e.id)
BY DEF Answered

\* An answer is taken for its own request, whatever is open at the time.
LEMMA TakenJoins ==
  ASSUME NEW t, Transcript(t), RunsOnlyAdmitted(t), NEW k \in DOMAIN t,
         NEW x \in Seq(Executed(t)), \A i \in DOMAIN x : Joined(t, x[i])
  PROVE  /\ Taken(x, t[k]) \in Seq(Executed(t))
         /\ \A i \in DOMAIN Taken(x, t[k]) : Joined(t, Taken(x, t[k])[i])
<1> DEFINE e == t[k]
           new == [text |-> e.text, id |-> e.id, observed |-> {},
                   allowed |-> ToolAllowed("Bash", e.text, ExecutionAvailable, AllowedCount(x))]
<1>1. CASE e.what = "asks"
  <2>1. new \in Executed(t)
    <3>1. new.allowed \in BOOLEAN
      BY DEF ToolAllowed
    <3> QED
      BY <3>1 DEF Executed
  <2>2. Joined(t, new)
    BY <1>1 DEF Joined
  <2>3. Taken(x, e) = x \/ Taken(x, e) = Append(x, new)
    BY <1>1 DEF Taken, Requested
  <2> HIDE DEF new
  <2>4. /\ Append(x, new) \in Seq(Executed(t))
        /\ \A i \in DOMAIN Append(x, new) : Joined(t, Append(x, new)[i])
    <3>1. Append(x, new) \in Seq(Executed(t)) /\ DOMAIN Append(x, new) = DOMAIN x \cup {Len(x) + 1}
      BY <2>1
    <3>2. Append(x, new)[Len(x) + 1] = new /\ \A i \in DOMAIN x : Append(x, new)[i] = x[i]
      BY <2>1
    <3> QED
      BY <3>1, <3>2, <2>2
  <2> QED
    BY <2>3, <2>4
<1>2. CASE e.what # "asks"
  <2> DEFINE mine == Answered(x, e)
             newest == CHOOSE i \in mine : \A j \in mine : j <= i
  <2>0. e.what = "answers"
    BY <1>2 DEF Transcript
  <2>1. CASE e.tool # "Bash" \/ ~ExecutionAvailable \/ mine = {}
    BY <1>2, <2>1 DEF Taken, Observed
  <2>2. CASE e.tool = "Bash" /\ ExecutionAvailable /\ mine # {}
    <3>1. Taken(x, e) = [x EXCEPT ![newest].observed = {Observation(e)}]
      BY <1>2, <2>2 DEF Taken, Observed
    <3>2. mine \subseteq 1..Len(x) /\ Len(x) \in Nat
      BY DEF Answered
    <3>3. newest \in mine
      <4> HIDE DEF mine
      <4>1. \E i \in mine : \A j \in mine : j <= i
        BY <2>2, <3>2, HasNewest
      <4> QED
        BY <4>1
    <3>4. x[newest].text = e.text
      <4>0. x[newest].text = e.text \/ (e.id # 0 /\ x[newest].id = e.id)
        <5> HIDE DEF newest
        <5> QED
          BY <3>3, AnsweredByTextOrId
      <4>1. CASE x[newest].text = e.text
        BY <4>1
      <4>3. CASE e.id # 0 /\ x[newest].id = e.id
        <5>1. PICK j \in DOMAIN t : t[j].what = "asks" /\ t[j].text = x[newest].text /\ t[j].id = x[newest].id
          <6>1. newest \in DOMAIN x
            BY <3>2, <3>3
          <6>2. Joined(t, x[newest])
            BY <6>1
          <6> QED
            BY <6>2 DEF Joined
        <5>2. /\ e.asked \in DOMAIN t /\ t[e.asked].what = "asks"
              /\ t[e.asked].text = e.text /\ t[e.asked].id = e.id
          BY <2>0 DEF RunsOnlyAdmitted, Transcript
        <5>3. j = e.asked
          BY <4>3, <5>1, <5>2 DEF Transcript
        <5> QED
          BY <5>1, <5>2, <5>3
      <4> QED
        BY <4>0, <4>1, <4>3
    <3> DEFINE i0 == newest
    <3>5. i0 \in DOMAIN x /\ x[i0] \in Executed(t) /\ Joined(t, x[i0]) /\ x[i0].text = e.text
      BY <3>2, <3>3, <3>4
    <3>6. Taken(x, e) = [x EXCEPT ![i0].observed = {Observation(e)}]
      BY <3>1
    <3> HIDE DEF i0, newest
    <3>7. [x[i0] EXCEPT !.observed = {Observation(e)}] \in Executed(t)
      BY <3>5 DEF Executed
    <3>8. Joined(t, [x[i0] EXCEPT !.observed = {Observation(e)}])
      BY <2>0, <2>2, <3>5 DEF Joined, Executed
    <3>9. /\ [x EXCEPT ![i0] = [x[i0] EXCEPT !.observed = {Observation(e)}]] \in Seq(Executed(t))
          /\ \A i \in DOMAIN x : i # i0 =>
               [x EXCEPT ![i0] = [x[i0] EXCEPT !.observed = {Observation(e)}]][i] = x[i]
      BY <3>5, <3>7
    <3>10. Taken(x, e) = [x EXCEPT ![i0] = [x[i0] EXCEPT !.observed = {Observation(e)}]]
      BY <3>6
    <3> QED
      BY <3>5, <3>8, <3>9, <3>10
  <2> QED
    BY <2>1, <2>2
<1> QED
  BY <1>1, <1>2

\* So does every session, to its end.
LEMMA SessionJoins ==
  ASSUME NEW t, Transcript(t), RunsOnlyAdmitted(t)
  PROVE  \A i \in DOMAIN Executions(t) : Joined(t, Executions(t)[i])
<1> DEFINE Ok(k) == /\ After(t)[k] \in Seq(Executed(t))
                    /\ \A i \in DOMAIN After(t)[k] : Joined(t, After(t)[k][i])
           T == {k \in Nat : k <= Len(t) => Ok(k)}
<1>1. Len(t) \in Nat /\ DOMAIN t = 1..Len(t)
  BY DEF Transcript
<1>2. 0 \in T
  <2>1. After(t)[0] = <<>>
    BY <1>1, AfterSteps
  <2>2. <<>> \in Seq(Executed(t)) /\ \A i \in DOMAIN <<>> : Joined(t, <<>>[i])
    OBVIOUS
  <2>3. Ok(0)
    BY <2>1, <2>2
  <2> HIDE DEF Ok
  <2> QED
    BY <2>3
<1>3. ASSUME NEW k \in Nat, k \in T
      PROVE  k + 1 \in T
  <2>1. SUFFICES ASSUME k + 1 <= Len(t) PROVE Ok(k + 1)
    OBVIOUS
  <2>2. k + 1 \in DOMAIN t /\ k + 1 \in 1..Len(t) /\ k <= Len(t)
    BY <1>1, <2>1
  <2>3. After(t)[k + 1] = Taken(After(t)[k], t[k + 1])
    <3>1. After(t)[k + 1] = Taken(After(t)[(k + 1) - 1], t[k + 1])
      BY <1>1, <2>2, AfterSteps
    <3>2. (k + 1) - 1 = k
      OBVIOUS
    <3> QED
      BY <3>1, <3>2
  <2>4. Ok(k)
    BY <1>3, <2>2
  <2> DEFINE x == After(t)[k]
  <2>5. x \in Seq(Executed(t)) /\ \A i \in DOMAIN x : Joined(t, x[i])
    BY <2>4
  <2> HIDE DEF x
  <2>6. /\ Taken(x, t[k + 1]) \in Seq(Executed(t))
        /\ \A i \in DOMAIN Taken(x, t[k + 1]) : Joined(t, Taken(x, t[k + 1])[i])
    BY <2>2, <2>5, TakenJoins
  <2> QED
    BY <2>3, <2>6 DEF x
<1> HIDE DEF T
<1>4. \A k \in Nat : k \in T
  BY <1>2, <1>3, NaturalsByInduction
<1>5. Ok(Len(t))
  BY <1>1, <1>4 DEF T
<1> QED
  BY <1>5 DEF Executions

\* A status that claims to have reproduced or read is one an answer earned.
LEMMA ClaimedIsMeasured ==
  ASSUME NEW e, e.what = "answers", Truthful(e.response, e.failed), NEW o, NEW allowed,
         NEW obs, obs = {Observation(e)},
         NEW c, c = Classify(e.text, allowed, obs, o),
         c \in {"RUNTIME_REPRODUCED", "STRUCTURAL_VERIFIED"}
  PROVE  /\ Deterministic(o) /\ ~e.failed /\ e.response.completed
         /\ {e.response.exit} = (IF o.code = {} THEN {0} ELSE o.code)
         /\ o.contains \subseteq e.response.output
         /\ o.absent \intersect e.response.output = {}
         /\ c = "RUNTIME_REPRODUCED" => Kind(e.text) = "RUNTIME"
         /\ c = "STRUCTURAL_VERIFIED" => Kind(e.text) = "STRUCTURAL"
<1> DEFINE b == Observation(e)
           announced == Deterministic(o) /\ o.code # {}
           code == IF e.response.shape = "dict" THEN e.response.code ELSE {}
<1>1. (CHOOSE x \in {b} : TRUE) = b
  <2> HIDE DEF b
  <2>1. \E x \in {b} : TRUE
    OBVIOUS
  <2> QED
    BY <2>1
<1>2. /\ b.result /\ ~b.failed /\ (announced \/ b.code \in {{}, {0}}) /\ Deterministic(o) /\ Met(o, b)
      /\ Classify(e.text, allowed, {b}, o) = IF Kind(e.text) = "RUNTIME" THEN "RUNTIME_REPRODUCED"
                                             ELSE "STRUCTURAL_VERIFIED"
  <2> HIDE DEF b
  <2>1. \A y \in {b} : y.result => b.result
    OBVIOUS
  <2>2. Classify(e.text, allowed, {b}, o) \in {"RUNTIME_REPRODUCED", "STRUCTURAL_VERIFIED"}
    BY DEF b
  <2>3. allowed /\ b.result
    BY <2>2 DEF Classify
  <2>4. Classify(e.text, allowed, {b}, o) =
          IF b.failed \/ (~announced /\ b.code \notin {{}, {0}}) THEN "COMMAND_ERRORED"
          ELSE IF ~Deterministic(o) THEN "REVIEWER_INSPECTED"
          ELSE IF ~Met(o, b) THEN "EXPECTATION_FAILED"
          ELSE IF Kind(e.text) = "RUNTIME" THEN "RUNTIME_REPRODUCED"
          ELSE "STRUCTURAL_VERIFIED"
    BY <1>1, <2>3, Zenon DEF Classify
  <2> QED
    BY <2>2, <2>3, <2>4
<1>3. Kind(e.text) \in {"RUNTIME", "STRUCTURAL"}
  BY DEF Kind
<1>4. /\ ~e.failed
      /\ e.response.shape # "unreadable"
      /\ ~(e.response.shape = "dict" /\ e.response.interrupted)
      /\ ~(e.response.shape = "dict" /\ e.response.isError /\ code = {})
      /\ b.code = (IF code = {} THEN {0} ELSE code)
      /\ b.output = e.response.output
  BY <1>2 DEF Observation
<1>5. e.response.completed /\ (IF code = {} THEN e.response.exit = 0 ELSE code = {e.response.exit})
  BY <1>4 DEF Truthful
<1>6. {e.response.exit} = (IF o.code = {} THEN {0} ELSE o.code)
  <2> HIDE DEF b, code
  <2>1. CASE o.code # {}
    <3>1. b.code = o.code
      BY <1>2, <2>1 DEF Met
    <3> QED
      BY <1>4, <1>5, <2>1, <3>1
  <2>2. CASE o.code = {}
    BY <1>2, <1>4, <1>5, <2>2
  <2> QED
    BY <2>1, <2>2
<1> QED
  BY <1>2, <1>3, <1>4, <1>5, <1>6 DEF Met

\* What is bound to a reviewer's answer was measured in its session.
LEMMA BoundIsMeasured ==
  ASSUME NEW r \in Reviews
  PROVE  /\ r.basis \in Kinds => r.basis \in r.measured
         /\ r.reproduced => "RUNTIME" \in r.measured
<1>1. PICK reply \in Replies, t \in Transcripts : RunsOnlyAdmitted(t) /\ r = Bind(reply, t)
  BY DEF Reviews
<1> DEFINE said == Collected(reply)
           x == Executions(t)
           statuses == Evidence(x, said)
<1>2. Transcript(t)
  BY SessionAssumption
<1>3. /\ r.basis = Basis(statuses)
      /\ r.measured = Measured(t, said)
      /\ r.reproduced => "RUNTIME_REPRODUCED" \in statuses
  BY <1>1 DEF Bind
<1> HIDE DEF said, x
<1>4. ASSUME NEW s \in statuses, s \in {"RUNTIME_REPRODUCED", "STRUCTURAL_VERIFIED"}
      PROVE  (IF s = "RUNTIME_REPRODUCED" THEN "RUNTIME" ELSE "STRUCTURAL") \in Measured(t, said)
  <2>1. PICK i \in DOMAIN x :
          s = Classify(x[i].text, x[i].allowed, x[i].observed, OracleFor(x[i].text, said))
    BY DEF Evidence
  <2>2. Joined(t, x[i])
    BY <1>1, <1>2, SessionJoins DEF x
  <2>3. x[i].observed # {}
    BY <1>4, <2>1 DEF Classify
  <2>4. PICK j \in DOMAIN t : /\ t[j].what = "answers" /\ t[j].tool = "Bash" /\ t[j].text = x[i].text
                              /\ x[i].observed = {Observation(t[j])}
    BY <2>2, <2>3 DEF Joined
  <2> DEFINE e == t[j]
             o == OracleFor(e.text, said)
  <2>5. s = Classify(e.text, x[i].allowed, {Observation(e)}, o)
    BY <2>1, <2>4
  <2>6. Truthful(e.response, e.failed)
    BY <1>2, <2>4 DEF Transcript
  <2>7. /\ Deterministic(o) /\ ~e.failed /\ e.response.completed
        /\ {e.response.exit} = (IF o.code = {} THEN {0} ELSE o.code)
        /\ o.contains \subseteq e.response.output
        /\ o.absent \intersect e.response.output = {}
        /\ s = "RUNTIME_REPRODUCED" => Kind(e.text) = "RUNTIME"
        /\ s = "STRUCTURAL_VERIFIED" => Kind(e.text) = "STRUCTURAL"
    <3> DEFINE obs == x[i].observed
               allowed == x[i].allowed
               c == Classify(e.text, allowed, obs, o)
    <3> HIDE DEF e, o
    <3>1. e.what = "answers"
      BY <2>4 DEF e
    <3>0. obs = {Observation(e)}
      BY <2>4 DEF e
    <3>2. c \in {"RUNTIME_REPRODUCED", "STRUCTURAL_VERIFIED"}
      BY <1>4, <2>5, <3>0
    <3>3. Truthful(e.response, e.failed)
      BY <2>6
    <3>5. s = c
      BY <2>5, <3>0
    <3>6. c = Classify(e.text, allowed, obs, o)
      OBVIOUS
    <3> HIDE DEF obs, allowed, c
    <3>4. /\ Deterministic(o) /\ ~e.failed /\ e.response.completed
          /\ {e.response.exit} = (IF o.code = {} THEN {0} ELSE o.code)
          /\ o.contains \subseteq e.response.output
          /\ o.absent \intersect e.response.output = {}
          /\ c = "RUNTIME_REPRODUCED" => Kind(e.text) = "RUNTIME"
          /\ c = "STRUCTURAL_VERIFIED" => Kind(e.text) = "STRUCTURAL"
      BY <3>0, <3>1, <3>2, <3>3, <3>6, ClaimedIsMeasured
    <3> QED
      BY <3>4, <3>5
  <2>8. e.what = "answers" /\ e.tool = "Bash"
    BY <2>4
  <2>9. Kind(e.text) \in Kinds
    BY DEF Kind, Kinds
  <2>10. Kind(e.text) \in Measured(t, said)
    BY <2>7, <2>8, <2>9 DEF Measured
  <2> QED
    BY <1>4, <2>7, <2>10
<1> HIDE DEF statuses
<1>5. Basis(statuses) = "RUNTIME" => "RUNTIME_REPRODUCED" \in statuses
  BY DEF Basis
<1>6. Basis(statuses) = "STRUCTURAL" => "STRUCTURAL_VERIFIED" \in statuses
  BY DEF Basis
<1>7. "RUNTIME_REPRODUCED" \in statuses => "RUNTIME" \in Measured(t, said)
  BY <1>4
<1>8. "STRUCTURAL_VERIFIED" \in statuses => "STRUCTURAL" \in Measured(t, said)
  BY <1>4
<1> QED
  BY <1>3, <1>5, <1>6, <1>7, <1>8 DEF Kinds

\* A record of a review is only ever replaced by nothing or by another session's.
LEMMA MeasuredStep ==
  EvidenceIsMeasured /\ [Next]_vars => EvidenceIsMeasured'
<1> SUFFICES ASSUME EvidenceIsMeasured, [Next]_vars PROVE EvidenceIsMeasured'
  OBVIOUS
<1>1. NoEvidence.basis \notin Kinds /\ ~NoEvidence.reproduced
  BY DEF NoEvidence, Kinds
<1>2. CASE evidence' = evidence \/ evidence' = NoEvidence
  BY <1>1, <1>2 DEF EvidenceIsMeasured
<1>3. CASE ReviewReturns
  <2>1. PICK r \in Reviews : evidence' = EvidenceOf(r)
    BY <1>3 DEF ReviewReturns, ReviewNotIndependent, ReviewSatisfies, ReviewRetried,
                ReviewCorrects, ReviewEscalates, Recorded
  <2> QED
    BY <2>1, BoundIsMeasured DEF EvidenceOf, EvidenceIsMeasured
<1>4. evidence' = evidence \/ evidence' = NoEvidence \/ ReviewReturns
  BY DEF vars, Next, Step, BuilderTurn, StopBeforeIteration, JudgeAccepts, JudgeCorrects, JudgeEnds,
         BeginReviewStep, ReviewerFails, RepositoryRefuses, RepositoryAgrees, RouteAccept,
         RouteCorrection, TreeMoves, Crash, Resume
<1> QED
  BY <1>2, <1>3, <1>4

\* Whatever a reviewer asks for, in whatever order the answers come, and whatever it claims, the
\* record of a review rests on commands that were admitted and met the oracle in force
\* (reviewer_evidence.classify_evidence, IndependentReviewerSession.bind).
THEOREM EvidenceMeasured == Spec => []EvidenceIsMeasured
<1>1. Init => EvidenceIsMeasured
  BY DEF Init, NoEvidence, EvidenceIsMeasured, Kinds
<1> QED
  BY <1>1, MeasuredStep, PTL DEF Spec
=============================================================================
