-------------------------- MODULE ControlLoopProofs --------------------------
(***************************************************************************)
(* What is proved of ControlLoop for every set of trees, every bound and   *)
(* every setting: type correctness, that an accepted run is unrefuted,     *)
(* that the founder's question and a measured refusal keep their meaning   *)
(* through every layer, that the guards' record is of the judged tree, and *)
(* that no wave is handed back.                                            *)
(***************************************************************************)
EXTENDS ControlLoop, TLAPS

USE DEF records, judged, process

\* A budget stays a budget.
LEMMA AfterWaveBounded ==
  ASSUME NEW b \in 0..MaxWaves, MaxWaves \in Nat, NEW c \in AfterWave(b)
  PROVE  c \in 0..MaxWaves /\ c <= b
BY SMT DEF AfterWave

\* Every judgement is one of the four decisions.
LEMMA PrecedenceDecides ==
  ASSUME NEW s, NEW h, NEW d \in Decisions
  PROVE  SuitePrecedence(s, d) \in Decisions /\ ChangedPrecedence(h, d) \in Decisions
BY DEF SuitePrecedence, ChangedPrecedence, Decisions

-----------------------------------------------------------------------------
(* Type correctness.                                                       *)

\* The types, in the parts a step is checked against.
RecordTypes ==
  /\ tree \in Trees
  /\ held \in Obligation \cup {None}
  /\ saved \in Obligation \cup {None}
  /\ answered \in BOOLEAN
  /\ repo \in RepoAnswer \cup {None}

JudgedTypes ==
  /\ suite \in [failing : BOOLEAN, unverified : BOOLEAN, gaps : 0..MaxGaps,
                clash : BOOLEAN, full : BOOLEAN]
  /\ audit \in Audits
  /\ evaluator \in Decisions
  /\ decision \in Decisions
  /\ closure \in Closures

ControlTypes ==
  /\ pc \in Working \cup {"down", "ended"}
  /\ status \in Statuses

NumericTypes ==
  /\ budget \in 0..MaxWaves
  /\ idle \in 0..1
  /\ attempt \in 1..MaxIterations
  /\ processes \in 1..MaxProcesses

Types == RecordTypes /\ JudgedTypes /\ ControlTypes /\ NumericTypes

LEMMA TypesAreTypeOK == Types => TypeOK
BY DEF Types, RecordTypes, JudgedTypes, ControlTypes, NumericTypes, TypeOK

LEMMA TypesInit == Init => Types
<1> SUFFICES ASSUME Init PROVE Types
  OBVIOUS
<1>1. RecordTypes
  BY LoopAssumption DEF Init, RecordTypes
<1>2. JudgedTypes
  <2>1. 0 \in 0..MaxGaps
    BY LoopAssumption
  <2> QED
    BY <2>1 DEF Init, JudgedTypes, NoSuite, Audits, Decisions, Closures
<1>3. ControlTypes
  BY DEF Init, ControlTypes, Working, Statuses
<1>4. NumericTypes
  <2>1. budget \in 0..MaxWaves
    <3>1. MaxWaves \in Nat /\ MaxWaves \in 0..MaxWaves /\ 0 \in 0..MaxWaves
      BY LoopAssumption
    <3> QED
      BY <3>1, AfterWaveBounded DEF Init
  <2>2. idle = 0 /\ attempt = 1 /\ processes = 1
    BY DEF Init
  <2> QED
    BY <2>1, <2>2, LoopAssumption DEF NumericTypes
<1> QED
  BY <1>1, <1>2, <1>3, <1>4 DEF Types

\* What a process starts an iteration with is well typed.
LEMMA BeginTypes ==
  ASSUME Begin PROVE JudgedTypes' /\ pc' \in Working
<1>1. 0 \in 0..MaxGaps
  BY LoopAssumption
<1> QED
  BY <1>1 DEF Begin, JudgedTypes, NoSuite, Audits, Decisions, Closures, Working

\* The next turn, or the end of the process when no iteration is left.
LEMMA NextTurnTypes ==
  ASSUME Types, NextTurn, decision' = "FIX"
  PROVE  JudgedTypes' /\ ControlTypes' /\ idle' = idle /\ processes' = processes
         /\ attempt' \in 1..MaxIterations
<1>1. CASE attempt >= MaxIterations
  BY <1>1 DEF NextTurn, End, Types, JudgedTypes, ControlTypes, NumericTypes,
     Decisions, Statuses
<1>2. CASE ~(attempt >= MaxIterations)
  <2>1. JudgedTypes' /\ pc' \in Working
    BY <1>2, BeginTypes DEF NextTurn
  <2>2. attempt' = attempt + 1 /\ status' = status /\ idle' = idle /\ processes' = processes
    BY <1>2 DEF NextTurn
  <2>3. attempt' \in 1..MaxIterations
    BY <1>2, <2>2, LoopAssumption DEF Types, NumericTypes
  <2> QED
    BY <2>1, <2>2, <2>3 DEF Types, ControlTypes
<1> QED
  BY <1>1, <1>2

\* The measurement of the changed guards keeps a record of one tree.
LEMMA MeasureTypes ==
  ASSUME RecordTypes, Measure
  PROVE  RecordTypes'
<1>1. tree' = tree /\ repo' = repo
  BY DEF Measure
<1>2. held' \in Obligation \cup {None} /\ saved' \in Obligation \cup {None}
      /\ answered' \in BOOLEAN
  <2>1. CASE ~ChangedChecked
    BY <2>1 DEF Measure, RecordTypes
  <2>2. CASE ChangedChecked /\ MeasureNothing
    BY <2>2 DEF MeasureNothing, RecordTypes
  <2>3. CASE ChangedChecked /\ MeasureKept
    BY <2>3 DEF MeasureKept, RecordTypes
  <2>4. CASE ChangedChecked /\ MeasureUnguarded
    BY <2>4 DEF MeasureUnguarded, RecordTypes
  <2>5. CASE ChangedChecked /\ MeasureGuards
    <3>1. \A r \in Answers(held, tree) : [tree |-> tree, result |-> r] \in Obligation
      BY DEF Answers, Results, Obligation, RecordTypes
    <3> QED
      BY <2>5, <3>1 DEF MeasureGuards, RecordTypes
  <2> QED
    BY <2>1, <2>2, <2>3, <2>4, <2>5 DEF Measure
<1> QED
  BY <1>1, <1>2 DEF RecordTypes

\* Closing a gap decides, spends and records within the types.
LEMMA CloseTypes ==
  ASSUME Types, Close
  PROVE  Types'
<1> USE DEF Types
<1>1. \A routed \in BOOLEAN : Closed(routed) => decision' \in Decisions
  <2>1. SuitePrecedence(suite, evaluator) \in Decisions
    BY PrecedenceDecides DEF JudgedTypes
  <2> QED
    BY <2>1 DEF Closed, JudgedTypes, Decisions
<1>2. UNCHANGED <<tree, records, audit, evaluator, process>>
  BY DEF Close
<1>3. ASSUME NEW b \in {budget} \cup AfterWave(budget) PROVE b \in 0..MaxWaves
  BY AfterWaveBounded, LoopAssumption DEF NumericTypes
<1>4. Routable(evaluator) \in BOOLEAN /\ FALSE \in BOOLEAN
  BY DEF Routable
<1>5. CASE ClosureSettled
  BY <1>1, <1>2, <1>5 DEF ClosureSettled, RecordTypes, JudgedTypes, ControlTypes,
     NumericTypes, Working
<1>6. CASE ClosureBudgetSpent
  BY <1>1, <1>2, <1>4, <1>6 DEF ClosureBudgetSpent, RecordTypes, JudgedTypes,
     ControlTypes, NumericTypes, Working
<1>7. CASE ClosureWaveEmpty
  <2>1. PICK i \in BOOLEAN : /\ Closed(i /\ Routable(evaluator))
                             /\ closure' = IF i THEN closure ELSE "stuck"
    BY <1>7 DEF ClosureWaveEmpty
  <2>2. decision' \in Decisions /\ closure' \in Closures
    BY <1>1, <1>4, <2>1 DEF Closures, JudgedTypes
  <2>3. budget' \in 0..MaxWaves
    BY <1>3, <1>7 DEF ClosureWaveEmpty
  <2>4. pc' = "combine" /\ suite' = suite
    BY <1>7 DEF ClosureWaveEmpty
  <2> QED
    BY <1>2, <2>2, <2>3, <2>4 DEF RecordTypes, JudgedTypes, ControlTypes, NumericTypes,
       Working
<1>8. CASE ClosureWaveRuns
  <2>1. budget' \in 0..MaxWaves
    BY <1>3, <1>8 DEF ClosureWaveRuns
  <2>2. suite' \in Suites /\ closure' = "ran" /\ decision' = decision /\ pc' = pc
    BY <1>8 DEF ClosureWaveRuns
  <2> QED
    BY <1>2, <2>1, <2>2 DEF RecordTypes, JudgedTypes, ControlTypes, NumericTypes,
       Suites, Closures
<1> QED
  BY <1>5, <1>6, <1>7, <1>8 DEF Close

\* Every step keeps the types; one case per action.
LEMMA TypesStep ==
  ASSUME Types, [Next]_vars
  PROVE  Types'
<1> USE DEF Types
<1>1. CASE StopRequested
  BY <1>1 DEF StopRequested, End, RecordTypes, JudgedTypes, ControlTypes, NumericTypes,
     Statuses
<1>2. CASE Build
  <2>1. PICK t \in Trees, erred \in BOOLEAN :
          LET turns == IF erred /\ t = tree THEN idle + 1 ELSE 0 IN
          /\ turns < 2
          /\ tree' = t
          /\ idle' = turns
          /\ budget' \in IF Planned /\ Changed(t) THEN AfterWave(budget) ELSE {budget}
    BY <1>2 DEF Build
  <2>2. idle' \in 0..1
    BY <2>1 DEF NumericTypes
  <2>3. budget' \in 0..MaxWaves
    BY <2>1, AfterWaveBounded, LoopAssumption DEF NumericTypes
  <2>4. UNCHANGED <<records, judged, status, attempt, processes>> /\ pc' = "operate"
    BY <1>2 DEF Build
  <2> QED
    BY <2>1, <2>2, <2>3, <2>4 DEF RecordTypes, JudgedTypes, ControlTypes, NumericTypes,
       Working
<1>3. CASE BuilderUnavailable
  BY <1>3 DEF BuilderUnavailable, End, RecordTypes, JudgedTypes, ControlTypes,
     NumericTypes, Statuses, Decisions
<1>4. CASE Operate
  BY <1>4 DEF Operate, RecordTypes, JudgedTypes, ControlTypes, NumericTypes, Suites,
     Working
<1>5. CASE Measure
  <2>1. RecordTypes'
    BY <1>5, MeasureTypes
  <2>2. UNCHANGED <<budget, judged, process>> /\ pc' = "evaluate"
    BY <1>5 DEF Measure
  <2> QED
    BY <2>1, <2>2 DEF JudgedTypes, ControlTypes, NumericTypes, Working
<1>6. CASE Evaluate
  <2>1. evaluator' \in Decisions /\ decision' = evaluator'
    BY <1>6 DEF Evaluate, Decisions
  <2>2. UNCHANGED <<tree, records, budget, suite, audit, closure, process>> /\ pc' = "gate"
    BY <1>6 DEF Evaluate
  <2> QED
    BY <2>1, <2>2 DEF RecordTypes, JudgedTypes, ControlTypes, NumericTypes, Working
<1>7. CASE ProtocolStops
  BY <1>7 DEF ProtocolStops, End, RecordTypes, JudgedTypes, ControlTypes, NumericTypes,
     Statuses, Decisions
<1>8. CASE Gate
  <2>1. decision' \in Decisions
    BY <1>8, PrecedenceDecides DEF Gate, JudgedTypes
  <2> QED
    BY <1>8, <2>1 DEF Gate, RecordTypes, JudgedTypes, ControlTypes, NumericTypes,
       Working, Closures
<1>9. CASE Close
  BY <1>9, CloseTypes
<1>10. CASE Combine
  <2>1. decision' \in Decisions
    BY <1>10, PrecedenceDecides DEF Combine, JudgedTypes, Decisions
  <2> QED
    BY <1>10, <2>1 DEF Combine, RecordTypes, JudgedTypes, ControlTypes, NumericTypes,
       Working
<1>11. CASE Review
  <2>1. decision' \in Decisions /\ audit' \in Audits /\ pc' \in Working \cup {"ended"}
        /\ status' \in Statuses /\ UNCHANGED <<idle, attempt, processes>>
    BY <1>11 DEF Review, ReviewPasses, ReviewEnds, End, JudgedTypes, ControlTypes,
       Decisions, Audits, Statuses, Working
  <2> QED
    BY <1>11, <2>1 DEF Review, RecordTypes, JudgedTypes, ControlTypes, NumericTypes
<1>12. CASE Verify
  <2>1. repo' \in RepoAnswer \cup {None}
    <3>1. \A answer : BlocksAcceptance(answer) \in BOOLEAN
      BY DEF BlocksAcceptance
    <3>2. QED  BY <1>12, <3>1 DEF Verify, Ask, RecordTypes, RepoAnswer
  <2>2. UNCHANGED <<tree, held, saved, answered, budget>>
    BY <1>12 DEF Verify
  <2>3. CASE Refutes(repo', tree)
    BY <1>12, <2>1, <2>2, <2>3, NextTurnTypes DEF Verify, RecordTypes, NumericTypes
  <2>4. CASE ~Refutes(repo', tree)
    BY <1>12, <2>1, <2>2, <2>4 DEF Verify, RecordTypes, JudgedTypes, ControlTypes,
       NumericTypes, Working
  <2> QED
    BY <2>3, <2>4
<1>13. CASE Route
  <2>1. UNCHANGED <<tree, records>>
    BY <1>13 DEF Route
  <2>2. CASE UNCHANGED <<budget, judged>> /\ \E st \in Statuses : End(st)
    BY <2>1, <2>2 DEF End, RecordTypes, JudgedTypes, ControlTypes, NumericTypes
  <2>3. CASE /\ decision' = "FIX" /\ NextTurn
             /\ budget' \in IF Planned /\ attempt < MaxIterations
                              THEN {budget} \cup AfterWave(budget) ELSE {budget}
    <3>1. budget' \in 0..MaxWaves
      BY <2>3, AfterWaveBounded, LoopAssumption DEF NumericTypes
    <3> QED
      BY <2>1, <2>3, <3>1, NextTurnTypes DEF RecordTypes, NumericTypes
  <2> QED
    BY <1>13, <2>2, <2>3 DEF Route, Statuses
<1>14. CASE Crash
  BY <1>14 DEF Crash, RecordTypes, JudgedTypes, ControlTypes, NumericTypes, Statuses
<1>15. CASE Resume
  <2>1. JudgedTypes' /\ pc' \in Working
    BY <1>15, BeginTypes DEF Resume
  <2>2. RecordTypes'
    BY <1>15 DEF Resume, RecordTypes
  <2>3. budget' \in 0..MaxWaves
    <3>1. 0 \in 0..MaxWaves /\ RestoredBudget(budget) = budget
      BY LoopAssumption DEF RestoredBudget
    <3> QED
      BY <1>15, <3>1, AfterWaveBounded, LoopAssumption DEF Resume, NumericTypes
  <2>4. idle' = 0 /\ attempt' = 1 /\ processes' = processes + 1
        /\ processes < MaxProcesses /\ status' = "RUNNING"
    BY <1>15 DEF Resume
  <2>5. NumericTypes'
    BY <2>3, <2>4, LoopAssumption DEF NumericTypes
  <2> QED
    BY <2>1, <2>2, <2>4, <2>5 DEF ControlTypes, Statuses
<1>16. CASE UNCHANGED vars
  BY <1>16 DEF vars, RecordTypes, JudgedTypes, ControlTypes, NumericTypes
<1> QED
  BY <1>1, <1>2, <1>3, <1>4, <1>5, <1>6, <1>7, <1>8, <1>9, <1>10, <1>11, <1>12, <1>13,
     <1>14, <1>15, <1>16 DEF Next, Step

LEMMA TypesAlways == Spec => []Types
BY TypesInit, TypesStep, PTL DEF Spec

\* Every variable keeps its type, whatever the trees, the bounds and settings.
THEOREM TypeCorrect == Spec => []TypeOK
BY TypesAlways, TypesAreTypeOK, PTL

-----------------------------------------------------------------------------
(* How the layers combine.                                                 *)

(***************************************************************************)
(* The promises of the properties hold at the route and at the end; what   *)
(* carries them there is what every earlier stage of the iteration already *)
(* guarantees to the next.                                                 *)
(***************************************************************************)
Measured == ~GateBlocks(suite) /\ suite.full /\ ~BlocksClaim(held)
            /\ audit \notin {"CONTRADICTED", "UNPROVEN"}

\* A question is the founder's exactly when the evaluator asked it.
QuestionKept == decision = "ASK_USER" <=> evaluator = "ASK_USER"

GapAnswered ==
  Planned /\ Routable(evaluator) /\ CoverageGapOnly(suite)
    => decision = "FIX" \/ closure = "stuck"

AtGate == pc = "gate" => decision = evaluator

AtClose ==
  pc = "close" =>
    /\ QuestionKept
    /\ decision # "ACCEPT"
    /\ closure \in {"open", "ran"}
    /\ closure = "open" => ~suite.failing

AtCombine ==
  pc = "combine" =>
    /\ QuestionKept
    /\ decision = "ACCEPT" => ~GateBlocks(suite) /\ suite.full
    /\ suite.failing /\ evaluator = "ACCEPT" => decision = "FIX"
    /\ GapAnswered

AtReview == pc \in {"review", "verify"} => Measured /\ evaluator # "ASK_USER"

AtRoute ==
  pc = "route" =>
    /\ FounderQuestionKept
    /\ RefusalsAreWork
    /\ decision = "ACCEPT" => Measured /\ ~Refutes(repo, tree)
    /\ GapAnswered

AtEnd ==
  /\ pc \in Working => status = "RUNNING"
  /\ pc = "down" => status \in {"RUNNING", "STOPPED", "ERROR"}
  /\ AcceptedUnrefuted
  /\ NoDeadEndOnCoverage

Layered == AtGate /\ AtClose /\ AtCombine /\ AtReview /\ AtRoute /\ AtEnd

LEMMA LayeredInit == Init => Layered
BY DEF Init, Layered, AtGate, AtClose, AtCombine, AtReview, AtRoute, AtEnd, Working,
   AcceptedUnrefuted, NoDeadEndOnCoverage

\* The stages an action leaves to, with everything the promises read.
LEMMA QuietStep ==
  ASSUME Layered, pc' \in {"build", "operate", "measure", "evaluate"},
         status' = "RUNNING"
  PROVE  Layered'
BY DEF Layered, AtGate, AtClose, AtCombine, AtReview, AtRoute, AtEnd, Working,
   AcceptedUnrefuted, NoDeadEndOnCoverage

\* An end that is neither an acceptance nor BLOCKED promises nothing.
LEMMA QuietEnd ==
  ASSUME Layered, NEW st, End(st), st \notin {"ACCEPTED", "BLOCKED"}
  PROVE  Layered'
BY DEF End, Layered, AtGate, AtClose, AtCombine, AtReview, AtRoute, AtEnd, Working,
   AcceptedUnrefuted, NoDeadEndOnCoverage

LEMMA QuietNextTurn ==
  ASSUME Layered, NextTurn, pc \in Working
  PROVE  Layered'
<1>1. CASE attempt >= MaxIterations
  BY <1>1, QuietEnd DEF NextTurn
<1>2. CASE ~(attempt >= MaxIterations)
  BY <1>2, QuietStep DEF NextTurn, Begin, Layered, AtEnd
<1> QED
  BY <1>1, <1>2

LEMMA LayeredGate ==
  ASSUME Types, Layered, Gate
  PROVE  Layered'
<1>1. pc = "gate" /\ decision = evaluator /\ status' = "RUNNING"
      /\ UNCHANGED <<tree, records, suite, audit, evaluator, status>>
      /\ decision' = SuitePrecedence(suite, evaluator)
  BY DEF Gate, Layered, AtGate, AtEnd, Working
<1>2. evaluator \in Decisions
  BY DEF Types, JudgedTypes
<1>3. CASE Planned /\ CoverageGapOnly(suite)
  <2>1. pc' = "close" /\ closure' = "open"
    BY <1>3 DEF Gate
  <2>2. AtClose'
    BY <1>1, <1>2, <1>3, <2>1 DEF AtClose, QuestionKept, SuitePrecedence, GateBlocks,
       CoverageGapOnly, Decisions
  <2> QED
    BY <1>1, <2>1, <2>2 DEF Layered, AtGate, AtCombine, AtReview, AtRoute, AtEnd,
       Working, AcceptedUnrefuted, NoDeadEndOnCoverage
<1>4. CASE ~(Planned /\ CoverageGapOnly(suite))
  <2>1. pc' = "combine" /\ closure' = closure
    BY <1>4 DEF Gate
  <2>2. AtCombine'
    BY <1>1, <1>2, <1>4, <2>1 DEF AtCombine, QuestionKept, SuitePrecedence, GateBlocks,
       GapAnswered, CoverageGapOnly, Decisions
  <2> QED
    BY <1>1, <2>1, <2>2 DEF Layered, AtGate, AtClose, AtReview, AtRoute, AtEnd,
       Working, AcceptedUnrefuted, NoDeadEndOnCoverage
<1> QED
  BY <1>3, <1>4

LEMMA LayeredClose ==
  ASSUME Types, Layered, Close
  PROVE  Layered'
<1>1. /\ pc = "close" /\ status' = "RUNNING"
      /\ UNCHANGED <<tree, records, audit, evaluator, status>>
  BY DEF Close, Layered, AtEnd, Working
<1>2. evaluator \in Decisions
  BY DEF Types, JudgedTypes
<1>3. /\ QuestionKept /\ decision # "ACCEPT" /\ closure \in {"open", "ran"}
      /\ closure = "open" => ~suite.failing
  BY <1>1 DEF Layered, AtClose
<1>4. ASSUME suite' = suite, pc' = "combine", AtCombine'
      PROVE  Layered'
  BY <1>1, <1>4 DEF Layered, AtGate, AtClose, AtReview, AtRoute, AtEnd, Working,
     AcceptedUnrefuted, NoDeadEndOnCoverage
<1>5. CASE ClosureSettled
  <2>1. /\ closure = "ran" /\ (suite.gaps = 0 \/ suite.failing)
        /\ pc' = "combine" /\ suite' = suite /\ closure' = closure
        /\ decision' = SuitePrecedence(suite, evaluator)
    BY <1>5 DEF ClosureSettled, Closed
  <2>2. ~CoverageGapOnly(suite)
    BY <2>1 DEF CoverageGapOnly
  <2>3. AtCombine'
    BY <1>1, <1>2, <2>1, <2>2 DEF AtCombine, QuestionKept, SuitePrecedence, GateBlocks,
       GapAnswered, CoverageGapOnly, Decisions
  <2> QED
    BY <1>4, <2>1, <2>3
<1>6. ASSUME NEW routed \in BOOLEAN, Closed(routed), ClosureOpen,
             suite' = suite, pc' = "combine",
             routed => Routable(evaluator),
             Routable(evaluator) => routed \/ closure' = "stuck"
      PROVE  AtCombine'
  <2>1. suite.gaps > 0 /\ ~suite.failing
    BY <1>3, <1>6 DEF ClosureOpen
  <2>2. CASE closure = "ran"
    BY <1>1, <1>2, <1>6, <2>1, <2>2 DEF Closed, AtCombine, QuestionKept,
       SuitePrecedence, GateBlocks, GapAnswered, CoverageGapOnly, Routable, Decisions
  <2>3. CASE closure = "open"
    BY <1>1, <1>2, <1>3, <1>6, <2>1, <2>3 DEF Closed, AtCombine, QuestionKept,
       GapAnswered, Routable, Decisions
  <2> QED
    BY <1>3, <2>2, <2>3
<1>7. CASE ClosureBudgetSpent
  <2>1. ClosureOpen /\ Closed(Routable(evaluator)) /\ pc' = "combine" /\ suite' = suite
    BY <1>7 DEF ClosureBudgetSpent
  <2>2. Routable(evaluator) \in BOOLEAN
    BY DEF Routable
  <2>3. AtCombine'
    BY <1>6, <2>1, <2>2
  <2> QED
    BY <1>4, <2>1, <2>3
<1>8. CASE ClosureWaveEmpty
  <2>1. PICK i \in BOOLEAN : /\ Closed(i /\ Routable(evaluator))
                             /\ closure' = IF i THEN closure ELSE "stuck"
    BY <1>8 DEF ClosureWaveEmpty
  <2>2. ClosureOpen /\ pc' = "combine" /\ suite' = suite
    BY <1>8 DEF ClosureWaveEmpty
  <2> QED
    BY <1>4, <1>6, <2>1, <2>2 DEF Routable
<1>9. CASE ClosureWaveRuns
  <2>1. closure' = "ran" /\ decision' = decision /\ pc' = pc
    BY <1>9 DEF ClosureWaveRuns
  <2> QED
    BY <1>1, <1>3, <2>1 DEF Layered, AtGate, AtClose, AtCombine, AtReview, AtRoute, AtEnd,
       Working, QuestionKept, AcceptedUnrefuted, NoDeadEndOnCoverage
<1> QED
  BY <1>5, <1>7, <1>8, <1>9 DEF Close

LEMMA LayeredCombine ==
  ASSUME Types, Layered, Combine
  PROVE  Layered'
<1> DEFINE measured == ChangedPrecedence(held, decision)
<1>1. /\ pc = "combine" /\ status' = "RUNNING"
      /\ UNCHANGED <<tree, records, suite, audit, evaluator, closure, status>>
      /\ decision' = IF AuditOverrides(audit, measured) THEN "FIX" ELSE measured
      /\ pc' = IF decision' = "ACCEPT" THEN "review" ELSE "route"
  BY DEF Combine, Layered, AtEnd, Working
<1>2. /\ QuestionKept /\ GapAnswered
      /\ decision = "ACCEPT" => ~GateBlocks(suite) /\ suite.full
      /\ suite.failing /\ evaluator = "ACCEPT" => decision = "FIX"
  BY <1>1 DEF Layered, AtCombine
<1>3. CASE decision' = "ACCEPT"
  <2>1. decision = "ACCEPT" /\ ~BlocksClaim(held) /\ audit \notin {"CONTRADICTED", "UNPROVEN"}
    BY <1>1, <1>3 DEF ChangedPrecedence, AuditOverrides
  <2>2. AtReview'
    BY <1>1, <1>2, <2>1 DEF AtReview, Measured, QuestionKept
  <2> QED
    BY <1>1, <1>3, <2>2 DEF Layered, AtGate, AtClose, AtCombine, AtRoute, AtEnd, Working,
       AcceptedUnrefuted, NoDeadEndOnCoverage
<1>4. CASE decision' # "ACCEPT"
  <2>1. FounderQuestionKept'
    BY <1>1, <1>2 DEF FounderQuestionKept, QuestionKept, ChangedPrecedence, AuditOverrides
  <2>2. RefusalsAreWork'
    BY <1>1, <1>2 DEF RefusalsAreWork, QuestionKept, ChangedPrecedence, AuditOverrides
  <2>3. GapAnswered'
    BY <1>1, <1>2 DEF GapAnswered, Routable, CoverageGapOnly, ChangedPrecedence,
       AuditOverrides
  <2> QED
    BY <1>1, <1>4, <2>1, <2>2, <2>3 DEF Layered, AtGate, AtClose, AtCombine, AtReview,
       AtRoute, AtEnd, Working, AcceptedUnrefuted, NoDeadEndOnCoverage
<1> QED
  BY <1>3, <1>4

LEMMA LayeredReview ==
  ASSUME Types, Layered, Review
  PROVE  Layered'
<1>1. /\ pc = "review" /\ status = "RUNNING" /\ Measured /\ evaluator # "ASK_USER"
      /\ UNCHANGED <<tree, records, suite, evaluator, closure>>
  BY DEF Review, Layered, AtReview, AtEnd, Working
<1>2. CASE ReviewPasses
  <2>1. pc' = "verify" /\ status' = status /\ audit' \notin {"CONTRADICTED", "UNPROVEN"}
    BY <1>1, <1>2 DEF ReviewPasses, Measured
  <2> QED
    BY <1>1, <2>1 DEF Layered, AtGate, AtClose, AtCombine, AtReview, AtRoute, AtEnd,
       Working, Measured, AcceptedUnrefuted, NoDeadEndOnCoverage
<1>3. CASE ReviewEnds
  <2>1. PICK st \in {"NEEDS_INDEPENDENT_REVIEW", "NEEDS_USER", "BLOCKED"} : End(st)
    BY <1>3 DEF ReviewEnds
  <2>2. CASE st = "BLOCKED"
    BY <1>1, <2>1, <2>2 DEF End, Layered, AtGate, AtClose, AtCombine, AtReview, AtRoute,
       AtEnd, Working, Measured, GateBlocks, CoverageGapOnly, AcceptedUnrefuted,
       NoDeadEndOnCoverage
  <2>3. CASE st # "BLOCKED"
    BY <2>1, <2>3, QuietEnd
  <2> QED
    BY <2>2, <2>3
<1> QED
  BY <1>2, <1>3 DEF Review

LEMMA LayeredVerify ==
  ASSUME Types, Layered, Verify
  PROVE  Layered'
<1>1. /\ pc = "verify" /\ status = "RUNNING" /\ Measured /\ evaluator # "ASK_USER"
      /\ UNCHANGED <<tree, held, saved, answered, budget>>
  BY DEF Verify, Layered, AtReview, AtEnd, Working
<1>2. CASE Refutes(repo', tree)
  BY <1>1, <1>2, QuietNextTurn DEF Verify, Working
<1>3. CASE ~Refutes(repo', tree)
  <2>1. pc' = "route" /\ UNCHANGED <<judged, process>>
    BY <1>3 DEF Verify
  <2>2. Measured' /\ ~Refutes(repo, tree)'
    BY <1>1, <1>3, <2>1 DEF Measured
  <2>3. FounderQuestionKept' /\ RefusalsAreWork' /\ GapAnswered'
    BY <1>1, <2>1 DEF Measured, FounderQuestionKept, RefusalsAreWork, GapAnswered,
       GateBlocks, CoverageGapOnly
  <2> QED
    BY <1>1, <2>1, <2>2, <2>3 DEF Layered, AtGate, AtClose, AtCombine, AtReview, AtRoute,
       AtEnd, Working, AcceptedUnrefuted, NoDeadEndOnCoverage
<1> QED
  BY <1>2, <1>3

LEMMA LayeredRoute ==
  ASSUME Types, Layered, Route
  PROVE  Layered'
<1>1. /\ pc = "route" /\ UNCHANGED <<tree, records>>
      /\ decision = "ACCEPT" => Measured /\ ~Refutes(repo, tree)
      /\ GapAnswered
  BY DEF Route, Layered, AtRoute
<1>2. CASE decision = "ACCEPT" /\ End("ACCEPTED") /\ UNCHANGED <<budget, judged>>
  BY <1>1, <1>2 DEF End, Layered, AtGate, AtClose, AtCombine, AtReview, AtRoute, AtEnd,
     Working, Measured, AcceptedUnrefuted, NoDeadEndOnCoverage
<1>3. CASE decision = "BLOCKED" /\ End("BLOCKED") /\ UNCHANGED <<budget, judged>>
  BY <1>1, <1>3 DEF End, Layered, AtGate, AtClose, AtCombine, AtReview, AtRoute, AtEnd,
     Working, GapAnswered, Routable, AcceptedUnrefuted, NoDeadEndOnCoverage
<1>4. CASE End("NEEDS_USER")
  BY <1>4, QuietEnd
<1>5. CASE NextTurn
  BY <1>1, <1>5, QuietNextTurn DEF Working
<1> QED
  BY <1>2, <1>3, <1>4, <1>5 DEF Route

LEMMA LayeredStep ==
  ASSUME Types, Layered, [Next]_vars
  PROVE  Layered'
<1>1. CASE StopRequested
  BY <1>1, QuietEnd DEF StopRequested
<1>2. CASE Build
  BY <1>2, QuietStep DEF Build, Layered, AtEnd, Working
<1>3. CASE BuilderUnavailable
  BY <1>3, QuietEnd DEF BuilderUnavailable
<1>4. CASE Operate
  BY <1>4, QuietStep DEF Operate, Layered, AtEnd, Working
<1>5. CASE Measure
  BY <1>5, QuietStep DEF Measure, Layered, AtEnd, Working
<1>6. CASE Evaluate
  BY <1>6 DEF Evaluate, Layered, AtGate, AtClose, AtCombine, AtReview, AtRoute, AtEnd,
     Working, AcceptedUnrefuted, NoDeadEndOnCoverage
<1>7. CASE ProtocolStops
  BY <1>7, QuietEnd DEF ProtocolStops
<1>8. CASE Crash
  BY <1>8 DEF Crash, Layered, AtGate, AtClose, AtCombine, AtReview, AtRoute, AtEnd,
     Working, AcceptedUnrefuted, NoDeadEndOnCoverage
<1>9. CASE Resume
  BY <1>9, QuietStep DEF Resume, Begin
<1>10. CASE UNCHANGED vars
  BY <1>10 DEF vars, Layered, AtGate, AtClose, AtCombine, AtReview, AtRoute, AtEnd,
     Working, Measured, QuestionKept, GapAnswered, FounderQuestionKept, RefusalsAreWork,
     AcceptedUnrefuted, NoDeadEndOnCoverage
<1> QED
  BY <1>1, <1>2, <1>3, <1>4, <1>5, <1>6, <1>7, <1>8, <1>9, <1>10, LayeredGate,
     LayeredClose, LayeredCombine, LayeredReview, LayeredVerify, LayeredRoute
     DEF Next, Step

LEMMA LayeredAlways == Spec => []Layered
BY LayeredInit, LayeredStep, TypesAlways, PTL DEF Spec

\* An accepted run is refuted by nothing the run measured.
THEOREM AcceptanceUnrefuted == Spec => []AcceptedUnrefuted
<1>1. Layered => AcceptedUnrefuted
  BY DEF Layered, AtEnd
<1> QED
  BY <1>1, LayeredAlways, PTL

\* The founder is asked exactly what the evaluator asked.
THEOREM FounderIsAsked == Spec => []FounderQuestionKept
<1>1. Layered => FounderQuestionKept
  BY DEF Layered, AtRoute, FounderQuestionKept
<1> QED
  BY <1>1, LayeredAlways, PTL

\* What was measured against the product is sent to the builder.
THEOREM RefusalsReachTheBuilder == Spec => []RefusalsAreWork
<1>1. Layered => RefusalsAreWork
  BY DEF Layered, AtRoute, RefusalsAreWork
<1> QED
  BY <1>1, LayeredAlways, PTL

\* A run with coverage left to ask for does not end over it.
THEOREM CoverageIsAskedFor == Spec => []NoDeadEndOnCoverage
<1>1. Layered => NoDeadEndOnCoverage
  BY DEF Layered, AtEnd
<1> QED
  BY <1>1, LayeredAlways, PTL

-----------------------------------------------------------------------------
(* What the records are about.                                             *)

\* The record in memory is the one a restart would restore.
HeldIsSaved == held # None => saved = held

\* Records are told from the absence of one.
LEMMA RecordsExist ==
  ASSUME NEW t \in Trees, NEW r \in Results PROVE [tree |-> t, result |-> r] # None
BY LoopAssumption DEF Results

GuardsCurrent == GuardsMeasuredOnThisTree /\ HeldIsSaved

LEMMA GuardsCurrentStep ==
  ASSUME Types, GuardsCurrent, [Next]_vars
  PROVE  GuardsCurrent'
<1> DEFINE after == {"evaluate", "gate", "close", "combine", "review", "verify", "route"}
<1>1. CASE Measure
  <2>1. tree' = tree /\ tree \in Trees
    BY <1>1 DEF Measure, Types, RecordTypes
  <2>2. CASE ~ChangedChecked
    BY <1>1, <2>2 DEF Measure, GuardsCurrent, GuardsMeasuredOnThisTree, HeldIsSaved
  <2>3. CASE ChangedChecked /\ MeasureNothing
    BY <2>1, <2>3 DEF MeasureNothing, GuardsCurrent, GuardsMeasuredOnThisTree,
       HeldIsSaved, Changed, Guarded
  <2>4. CASE ChangedChecked /\ MeasureKept
    BY <2>1, <2>4 DEF MeasureKept, SameTree, GuardsCurrent, GuardsMeasuredOnThisTree,
       HeldIsSaved
  <2>5. CASE ChangedChecked /\ MeasureUnguarded
    BY <2>1, <2>5 DEF MeasureUnguarded, GuardsCurrent, GuardsMeasuredOnThisTree,
       HeldIsSaved, Guarded
  <2>6. CASE ChangedChecked /\ MeasureGuards
    <3>1. CASE answered' = FALSE /\ held' = held
               /\ saved' = IF held = None THEN saved ELSE held
      BY <3>1 DEF GuardsCurrent, GuardsMeasuredOnThisTree, HeldIsSaved
    <3>2. CASE /\ answered' = TRUE /\ saved' = held'
               /\ \E r \in Answers(held, tree) : held' = [tree |-> tree, result |-> r]
      <4>1. PICK r \in Results : held' = [tree |-> tree, result |-> r]
        BY <3>2 DEF Answers, Results
      <4> QED
        BY <2>1, <3>2, <4>1, RecordsExist DEF GuardsCurrent, GuardsMeasuredOnThisTree,
           HeldIsSaved
    <3> QED
      BY <2>6, <3>1, <3>2 DEF MeasureGuards
  <2> QED
    BY <1>1, <2>2, <2>3, <2>4, <2>5, <2>6 DEF Measure
<1>2. ASSUME UNCHANGED <<tree, held, saved, answered>>, pc' \in after => pc \in after
      PROVE  GuardsCurrent'
  BY <1>2 DEF GuardsCurrent, GuardsMeasuredOnThisTree, HeldIsSaved, Guarded
<1>3. ASSUME UNCHANGED <<held, saved, answered>>, pc' \notin after
      PROVE  GuardsCurrent'
  BY <1>3 DEF GuardsCurrent, GuardsMeasuredOnThisTree, HeldIsSaved
<1>4. CASE Resume
  BY <1>4 DEF Resume, Begin, GuardsCurrent, GuardsMeasuredOnThisTree, HeldIsSaved
<1>5. CASE StopRequested \/ Build \/ BuilderUnavailable \/ Operate \/ ProtocolStops \/ Crash
  BY <1>3, <1>5 DEF StopRequested, Build, BuilderUnavailable, Operate, ProtocolStops,
     Crash, End
<1>6. CASE Evaluate \/ Gate \/ Combine \/ Review \/ UNCHANGED vars
  BY <1>2, <1>6 DEF Evaluate, Gate, Combine, Review, ReviewPasses, ReviewEnds, End, vars
<1>7. CASE Close
  BY <1>2, <1>7 DEF Close, ClosureSettled, ClosureBudgetSpent, ClosureWaveEmpty,
     ClosureWaveRuns
<1>8. CASE Verify
  BY <1>2, <1>8 DEF Verify, NextTurn, Begin, End
<1>9. CASE Route
  BY <1>2, <1>9 DEF Route, NextTurn, Begin, End
<1> QED
  BY <1>1, <1>4, <1>5, <1>6, <1>7, <1>8, <1>9 DEF Next, Step

LEMMA GuardsCurrentAlways == Spec => []GuardsCurrent
<1>1. Init => GuardsCurrent
  BY DEF Init, GuardsCurrent, GuardsMeasuredOnThisTree, HeldIsSaved
<1> QED
  BY <1>1, GuardsCurrentStep, TypesAlways, PTL DEF Spec

\* What the layers read of a changed guard was measured on the judged tree.
THEOREM GuardsAreOfThisTree == Spec => []GuardsMeasuredOnThisTree
<1>1. GuardsCurrent => GuardsMeasuredOnThisTree
  BY DEF GuardsCurrent
<1> QED
  BY <1>1, GuardsCurrentAlways, PTL

\* No step and no restart turns a tree's refusal into a pass.
THEOREM RefusedStaysRefused == Spec => RefusalStands
<1> DEFINE Stands == Refused(held) /\ held' # None /\ held'.tree = held.tree
                       => Refused(held')
<1>1. ASSUME Types, GuardsCurrent, [Next]_vars PROVE Stands
  <2>1. CASE held' = held
    BY <2>1
  <2>2. CASE Measure
    <3>1. CASE ~ChangedChecked \/ MeasureNothing \/ MeasureKept \/ MeasureUnguarded
      BY <2>2, <3>1 DEF Measure, MeasureNothing, MeasureKept, MeasureUnguarded
    <3>2. CASE ChangedChecked /\ MeasureGuards
      <4>1. CASE held' = held
        BY <4>1
      <4>2. CASE \E r \in Answers(held, tree) : held' = [tree |-> tree, result |-> r]
        <5>1. SUFFICES ASSUME Refused(held), held' # None, held'.tree = held.tree
                       PROVE  Refused(held')
          OBVIOUS
        <5>2. held # None /\ held'.tree = tree
          BY <4>2, <5>1 DEF Refused
        <5>3. Answers(held, tree) = {"refused"}
          BY <5>1, <5>2 DEF Answers, SameTree
        <5> QED
          BY <4>2, <5>1, <5>3 DEF Refused
      <4> QED
        BY <3>2, <4>1, <4>2 DEF MeasureGuards
    <3> QED
      BY <2>2, <3>1, <3>2 DEF Measure
  <2>3. CASE Resume
    BY <1>1, <2>3 DEF Resume, GuardsCurrent, HeldIsSaved, Refused
  <2>4. CASE Step /\ ~Measure
    BY <2>1, <2>4 DEF Step, StopRequested, Build, BuilderUnavailable, Operate, Evaluate,
       ProtocolStops, Gate, Close, Combine, Review, Verify, Route
  <2>5. CASE Crash \/ UNCHANGED vars
    BY <2>1, <2>5 DEF Crash, vars
  <2> QED
    BY <1>1, <2>2, <2>3, <2>4, <2>5 DEF Next
<1> QED
  BY <1>1, TypesAlways, GuardsCurrentAlways, PTL DEF Spec, RefusalStands

\* What generation has cost is never handed back.
THEOREM BudgetIsSpent == Spec => BudgetNeverRefunded
<1>1. ASSUME Types, [Next]_vars PROVE budget' <= budget
  <2>1. budget \in 0..MaxWaves /\ MaxWaves \in Nat
    BY <1>1, LoopAssumption DEF Types, NumericTypes
  <2>2. ASSUME NEW b \in {budget} \cup AfterWave(budget) \cup {0} PROVE b <= budget
    BY <2>1, <2>2, AfterWaveBounded
  <2>3. budget' \in {budget} \cup AfterWave(budget) \cup {0}
    <3>1. CASE Build
      BY <3>1 DEF Build
    <3>2. CASE Close
      BY <3>2 DEF Close, ClosureSettled, ClosureBudgetSpent, ClosureWaveEmpty,
         ClosureWaveRuns
    <3>3. CASE Route
      BY <3>3 DEF Route
    <3>4. CASE Resume
      BY <3>4 DEF Resume, RestoredBudget
    <3>5. CASE UNCHANGED budget
      BY <3>5
    <3> QED
      BY <1>1, <3>1, <3>2, <3>3, <3>4, <3>5 DEF Next, Step, StopRequested,
         BuilderUnavailable, Operate, Measure, Evaluate, ProtocolStops, Gate, Combine,
         Review, Verify, Crash, vars
  <2> QED
    BY <2>2, <2>3
<1> QED
  BY <1>1, TypesAlways, PTL DEF Spec, BudgetNeverRefunded

=============================================================================
