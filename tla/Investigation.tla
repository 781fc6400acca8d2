--------------------------- MODULE Investigation ---------------------------
(***************************************************************************)
(* The diagnostic investigator: a bounded loop that holds competing        *)
(* hypotheses against observations and probe results until one of them     *)
(* carries the evidence alone, the budget is spent, or only a founder can  *)
(* go on.  A model proposes the hypotheses and designs the probes, so both *)
(* are open choices here; what the engine believes afterwards is not.      *)
(*                                                                         *)
(* A signal is a record [key, value].  A hypothesis predicts signals, a    *)
(* probe produces them, an observation carries them with the weight of its *)
(* source.  Confidence is counted in thousandths.  The repository moves    *)
(* under the loop whenever it likes (`Move`).                              *)
(***************************************************************************)
EXTENDS Integers, FiniteSets, Sequences, Functions

CONSTANTS
    Hypotheses,     \* a sequence of records [prior, predicts]
    Probes,         \* the probes the reasoner and the challenger may design
    Trees,          \* repository states
    Facts,          \* [Trees -> sequences of observations the collector reads]
    Claims,         \* what the builder's and the reviewer's reports assert
    Answers,        \* [Probes -> [Trees -> the signal sets a run may produce]]
    Triggers,       \* what the loop may know when it asks for a diagnosis
    SoftBudget,     \* of turns; the hard cap is twice it
    MaxMoves        \* bound on the moves of the repository

\* All that is ever read.
Readings == (UNION {Range(Facts[t]) : t \in Trees}) \cup Range(Claims)

ASSUME InvestigationAssumption ==
    /\ DOMAIN Hypotheses = 1..Len(Hypotheses) /\ Len(Hypotheses) \in Nat
    /\ \A t \in Trees : Facts[t] \in Seq(Readings)
    /\ Claims \in Seq(Readings)
    /\ SoftBudget \in Nat \ {0}
    /\ MaxMoves \in Nat
    /\ \A t \in Triggers :
          t.status \in {"CONSISTENT", "VIOLATION", "DEADLOCK", "REQUIRES_APPROVAL",
                        "BLOCKED_ENVIRONMENT", "BLOCKED_AUTHORITY"}

VARIABLES
    tree,           \* what the repository is
    moves,          \* how often it moved
    known,          \* the fingerprint the investigation last read
    repoChanged,    \* whether a later reading ever differed
    turn,           \* the iteration it is in
    pc,             \* where the loop stands
    trigger,        \* what the loop knew
    belief,         \* per hypothesis: status, confidence, direct support
    observations,   \* everything recorded as observed
    runs,           \* the probes run and what they produced
    transitions,    \* the recorded changes of belief
    flips,          \* how often a probe settled a hypothesis
    challenges,     \* the leaders the challenger says it challenged
    streak,         \* consecutive probes that taught nothing
    seen,           \* the signal keys met so far
    result          \* how the investigation ended

investigationVars == <<tree, moves, known, repoChanged, turn, pc, trigger, belief,
                      observations, runs, transitions, flips, challenges, streak, seen,
                      result>>

Ids == DOMAIN Hypotheses
HardCap == 2 * SoftBudget
Unfinished == [status |-> "NONE", winner |-> 0, confidence |-> 0]

(***************************************************************************)
(* Whether the loop asks for a diagnosis at all.                           *)
(***************************************************************************)
ShouldInvestigate(t) ==
    \/ t.explicit
    \/ t.contradictions                          \* the audit refuted the report
    \/ t.status = "BLOCKED_ENVIRONMENT"
    \/ t.unprovenBlocker                         \* an environmental story without evidence
    \/ t.scenarioPassed /\ t.canonicalRed        \* a targeted pass over a red suite
    \/ t.sameFailureTwice
    \/ t.lowConfidence
    \/ t.claimsEnvironment
    \/ t.suiteFailed /\ t.claimsSuccess

\* What the protocol resolver no longer stops on is the investigator's to explain.
WarrantsInvestigation(t) ==
    \/ t.status \in {"BLOCKED_ENVIRONMENT", "BLOCKED_AUTHORITY"}
    \/ t.environmentBlocked \/ t.deadlocked \/ t.conflicting

-----------------------------------------------------------------------------
(***************************************************************************)
(* Belief: what one set of signals does to the hypotheses.                 *)
(***************************************************************************)
IsAlive(b, i) == b[i].status \in {"ACTIVE", "SUPPORTED", "WEAKENED"}
Alive(b) == {i \in Ids : IsAlive(b, i)}
Proposed(b) == {i \in Ids : b[i].status # "UNPROPOSED"}

Weight(reliability) ==
    CASE reliability = "DIRECT" -> 100 [] reliability = "DERIVED" -> 60 [] OTHER -> 25

Speaks(p, s) == p.key = s.key
MatchesPrediction(p, s) == Speaks(p, s) /\ (p.value = s.value) = p.equal
Supports(i, signals) ==
    {p \in Hypotheses[i].predicts : \E s \in signals : MatchesPrediction(p, s)}
Contradicts(i, signals) ==
    {p \in Hypotheses[i].predicts : \E s \in signals : Speaks(p, s) /\ ~MatchesPrediction(p, s)}

Raise(confidence, reliability, count) ==
    confidence + (350 * Weight(reliability) * count * (1000 - confidence)) \div 100000

Refuted(h, reliability) ==
    IF reliability = "DIRECT"
    THEN [h EXCEPT !.status = "DISPROVEN", !.confidence = IF @ < 150 THEN @ ELSE 150]
    ELSE [h EXCEPT !.status = "WEAKENED", !.confidence = (@ * 6) \div 10]

Backed(h, reliability, count) ==
    LET raised == Raise(h.confidence, reliability, count)
        direct == reliability = "DIRECT"
    IN  [status |-> IF direct /\ raised >= 700 THEN "SUPPORTED" ELSE h.status,
         confidence |-> raised,
         direct |-> h.direct \/ direct]

\* Faulty: an update that reaches the disproven too.
IncorporateAgain(b, signals, reliability) ==
    [i \in Ids |->
        IF b[i].status = "UNPROPOSED" THEN b[i]
        ELSE IF Contradicts(i, signals) # {} THEN Refuted(b[i], reliability)
        ELSE IF Supports(i, signals) # {}
             THEN Backed(b[i], reliability, Cardinality(Supports(i, signals)))
        ELSE b[i]]

Incorporate(b, signals, reliability) ==
    [i \in Ids |->
        IF ~IsAlive(b, i) THEN b[i]
        ELSE IF Contradicts(i, signals) # {} THEN Refuted(b[i], reliability)
        ELSE IF Supports(i, signals) # {}
             THEN Backed(b[i], reliability, Cardinality(Supports(i, signals)))
        ELSE b[i]]

\* The hypotheses an update supported or contradicted, whether or not a number moved.
Spoken(b, signals) ==
    {i \in Alive(b) : Supports(i, signals) \cup Contradicts(i, signals) # {}}

\* The changes of belief one update is recorded with.
TransitionsOf(b, c, at) ==
    {[turn |-> at, id |-> i, from |-> b[i].status, to |-> c[i].status,
      rising |-> c[i].confidence > b[i].confidence] :
        i \in {j \in Ids : <<b[j].status, b[j].confidence>> # <<c[j].status, c[j].confidence>>}}

\* The beliefs after each of a sequence of observations, the last of them, and
\* what the way there is recorded with.
Beliefs(b, obs) ==
    LET after[k \in 0..Len(obs)] ==
          IF k = 0 THEN b ELSE Incorporate(after[k - 1], obs[k].signals, obs[k].reliability)
    IN  after

IncorporateAll(b, obs) == Beliefs(b, obs)[Len(obs)]

Replayed(b, obs, at) ==
    UNION {TransitionsOf(Beliefs(b, obs)[k - 1], Beliefs(b, obs)[k], at) : k \in 1..Len(obs)}

-----------------------------------------------------------------------------
(***************************************************************************)
(* Convergence, leadership and repetition.                                 *)
(***************************************************************************)
Standing(status) ==
    CASE status = "SUPPORTED" -> 4 [] status = "ACTIVE" -> 3 [] status = "WEAKENED" -> 2 [] OTHER -> 0

Outranks(b, i, j) ==
    \/ Standing(b[i].status) > Standing(b[j].status)
    \/ /\ Standing(b[i].status) = Standing(b[j].status)
       /\ \/ b[i].confidence > b[j].confidence
          \/ b[i].confidence = b[j].confidence /\ i < j

\* The leading hypothesis, 0 when none is alive.
Leading(b) ==
    IF Alive(b) = {} THEN 0
    ELSE CHOOSE i \in Alive(b) : \A j \in Alive(b) \ {i} : Outranks(b, i, j)

Carried(b) == {i \in Ids : b[i].status = "SUPPORTED"}

CarriesTheLoad(b, i) ==
    /\ Carried(b) = {i}
    /\ b[i].confidence >= 700
    /\ Alive(b) = {i}

\* Faulty: an elimination that asks for no measured support.
LastWithoutSupport(b, i) ==
    /\ Alive(b) = {i}
    /\ Proposed(b) # {i}
    /\ \A j \in Proposed(b) \ {i} : b[j].status = "DISPROVEN"
    /\ b[i].confidence >= 500

LastStanding(b, i) ==
    /\ Alive(b) = {i}
    /\ Proposed(b) # {i}
    /\ \A j \in Proposed(b) \ {i} : b[j].status = "DISPROVEN"
    /\ b[i].direct
    /\ b[i].confidence >= 500

Winners(b) == {i \in Ids : CarriesTheLoad(b, i) \/ LastStanding(b, i)}
Promoted(b, i) == [b EXCEPT ![i].status = "SUPPORTED"]

Tried == {r.probe : r \in runs}
Repeats(p, signals, ran) == \E r \in runs : r.probe = p /\ r.signals = signals /\ r.ran = ran

\* One probe answered differently, and no reading ever saw the repository move.
EnvironmentInconsistent(rs) ==
    /\ ~repoChanged
    /\ \E q, r \in rs :
          /\ q.probe = r.probe /\ q.ran /\ r.ran
          /\ \E s \in q.signals, t \in r.signals : s.key = t.key /\ s.value # t.value

\* Past the soft budget only recent recorded movement buys another turn.
ShouldExtend ==
    /\ ~repoChanged
    /\ \E t \in transitions : t.turn >= turn - 1 /\ t.rising
    /\ turn < HardCap

\* What no investigation carries out, whatever its kind and whoever proposes it.
IsConsequential(p) == p.consequential
Refuses(p) == ~p.readOnly \/ IsConsequential(p)

\* What the handler of each kind demands before it runs.
Permitted(p) ==
    CASE p.kind \in {"COMMAND", "SHELL"} -> "readonly tool" \in p.has /\ "shell" \notin p.has
      [] p.kind \in {"GREP", "CHECK_RECEIPT", "FILE_STAT"} -> "inside" \in p.has
      [] p.kind = "SQL_READONLY" -> "select" \in p.has
      [] p.kind = "HTTP_GET" -> "local" \in p.has
      [] OTHER -> TRUE

\* Interpretation rules: a pattern that does not match makes its signal absent,
\* and the output of a probe that failed matches nothing.
ApplyRules(p, signals) ==
    signals \cup {s \in p.absent : \A t \in signals : t.key # s.key}

-----------------------------------------------------------------------------
(***************************************************************************)
(* How an investigation ends.                                              *)
(***************************************************************************)
Conclude(status, i, b) ==
    /\ result' = [status |-> status, winner |-> i,
                  confidence |-> IF i # 0 THEN b[i].confidence
                                 ELSE IF Leading(b) # 0 THEN b[Leading(b)].confidence ELSE 0]
    /\ pc' = "done"

ConcludeRootCause ==
    \E w \in Winners(belief) :
        /\ belief' = Promoted(belief, w)
        /\ Conclude("ROOT_CAUSE_FOUND", w, belief)

BudgetStatus(b) ==
    IF Leading(b) # 0 /\ b[Leading(b)].confidence >= 500
    THEN "PARTIAL_DIAGNOSIS" ELSE "BUDGET_EXHAUSTED"

\* The correction the builder is handed: the cause named, or nothing (0).
Correction ==
    IF /\ result.status = "ROOT_CAUSE_FOUND"
       /\ result.confidence >= 700
       /\ Carried(belief) # {}
    THEN CHOOSE i \in Carried(belief) : \A j \in Carried(belief) : i <= j
    ELSE 0

-----------------------------------------------------------------------------
(***************************************************************************)
(* The loop.                                                               *)
(***************************************************************************)
Unproposed(i) == [status |-> "UNPROPOSED", confidence |-> Hypotheses[i].prior, direct |-> FALSE]

InvestigationInit ==
    /\ tree \in Trees /\ moves = 0
    /\ known = tree /\ repoChanged = FALSE
    /\ turn = 0 /\ pc = "idle"
    /\ trigger \in Triggers
    /\ belief = [i \in Ids |-> Unproposed(i)]
    /\ observations = {} /\ runs = {} /\ transitions = {}
    /\ flips = 0 /\ challenges = {} /\ streak = 0 /\ seen = {}
    /\ result = Unfinished

\* What the collector reads: the facts of the tree, and at first the reports too.
Collect(t) == Facts[t]
CollectAll(t) == Collect(t) \o Claims

\* The reasoner proposes any set of explanations and designs any probe.
GenerateHypotheses == SUBSET Ids
DesignProbe == Probes

Entry(o, t) == [reliability |-> o.reliability, signals |-> o.signals, tree |-> t]
Keys(signals) == {s.key : s \in signals}

\* Observe, propose competing explanations, and let them meet the evidence.
Begin ==
    /\ pc = "idle"
    /\ ShouldInvestigate(trigger) \/ WarrantsInvestigation(trigger)
    /\ \E hyps \in GenerateHypotheses :
          LET fresh == [i \in Ids |-> IF i \in hyps THEN [Unproposed(i) EXCEPT !.status = "ACTIVE"]
                                                   ELSE Unproposed(i)]
          IN  /\ belief' = IncorporateAll(fresh, CollectAll(tree))
              /\ transitions' = Replayed(fresh, CollectAll(tree), 0)
    /\ known' = tree
    /\ observations' = {Entry(o, tree) : o \in Range(CollectAll(tree))}
    /\ seen' = UNION {Keys(o.signals) : o \in Range(CollectAll(tree))}
    /\ pc' = "consider"
    /\ UNCHANGED <<tree, moves, repoChanged, turn, trigger, runs, flips,
                   challenges, streak, result>>

\* Nothing warrants a diagnosis.
Pass ==
    /\ pc = "idle"
    /\ ~ShouldInvestigate(trigger) /\ ~WarrantsInvestigation(trigger)
    /\ pc' = "done"
    /\ UNCHANGED <<tree, moves, known, repoChanged, turn, trigger, belief, observations,
                   runs, transitions, flips, challenges, streak, seen, result>>

\* Stop before a step, or read the repository again and go on.
StopConverged ==
    /\ pc = "consider"
    /\ ConcludeRootCause
    /\ UNCHANGED <<tree, moves, known, repoChanged, turn, trigger, observations, runs,
                   transitions, flips, challenges, streak, seen>>

Spent == (turn >= SoftBudget /\ ~ShouldExtend) \/ turn >= HardCap

StopSpent ==
    /\ pc = "consider"
    /\ Winners(belief) = {} /\ Spent
    /\ Conclude(BudgetStatus(belief), 0, belief)
    /\ UNCHANGED <<tree, moves, known, repoChanged, turn, trigger, belief, observations,
                   runs, transitions, flips, challenges, streak, seen>>

Reobserve ==
    /\ pc = "consider"
    /\ Winners(belief) = {} /\ ~Spent
    /\ turn' = turn + 1
    /\ repoChanged' = (repoChanged \/ tree # known)
    /\ known' = tree
    /\ observations' = observations \cup {Entry(o, tree) : o \in Range(Collect(tree))}
    /\ belief' = IncorporateAll(belief, Collect(tree))
    /\ pc' = "probe"
    /\ UNCHANGED <<tree, moves, trigger, runs, transitions, flips, challenges, streak, seen, result>>

\* No probe, or one already tried while an explanation is still alive.
NoProbe ==
    /\ pc = "probe"
    /\ Conclude("NEEDS_MORE_EVIDENCE", 0, belief)
    /\ UNCHANGED <<tree, moves, known, repoChanged, turn, trigger, belief, observations,
                   runs, transitions, flips, challenges, streak, seen>>

Chosen(p) == Alive(belief) # {} => p \notin Tried

\* A consequential probe is the founder's decision; it is never carried out.
AskFounder ==
    /\ pc = "probe"
    /\ \E p \in DesignProbe : Chosen(p) /\ Refuses(p)
    /\ Conclude("ASK_USER", 0, belief)
    /\ UNCHANGED <<tree, moves, known, repoChanged, turn, trigger, belief, observations,
                   runs, transitions, flips, challenges, streak, seen>>

Ran(p, signals) == [probe |-> p, signals |-> signals, ran |-> TRUE, tree |-> tree]

\* The runner refuses a command outside its read-only tools.
RunnerRefuses ==
    /\ pc = "probe"
    /\ \E p \in DesignProbe :
          /\ Chosen(p) /\ ~Refuses(p) /\ ~Permitted(p)
          /\ runs' = runs \cup {[Ran(p, {}) EXCEPT !.ran = FALSE]}
    /\ Conclude("ASK_USER", 0, belief)
    /\ UNCHANGED <<tree, moves, known, repoChanged, turn, trigger, belief, observations,
                   transitions, flips, challenges, streak, seen>>

\* A probe that fails still reports every pattern it looked for as absent.
Produced(p) ==
    {[ran |-> TRUE, signals |-> ApplyRules(p, a)] : a \in Answers[p][tree]}
    \cup {[ran |-> FALSE, signals |-> ApplyRules(p, {})]}

\* What a probe's outcome does to the record and to the beliefs.
Learn(p, outcome) ==
    LET c == Incorporate(belief, outcome.signals, "DIRECT")
    IN  /\ runs' = runs \cup {[Ran(p, outcome.signals) EXCEPT !.ran = outcome.ran]}
        /\ observations' = observations \cup
              {[reliability |-> "DIRECT", signals |-> outcome.signals, tree |-> tree]}
        /\ belief' = c
        /\ transitions' = transitions \cup TransitionsOf(belief, c, turn)

Probe ==
    /\ pc = "probe"
    /\ \E p \in DesignProbe : \E outcome \in Produced(p) :
          /\ Chosen(p) /\ ~Refuses(p) /\ Permitted(p)
          /\ Learn(p, outcome)
          /\ LET settled == \E i \in Ids : /\ belief'[i] # belief[i]
                                           /\ belief'[i].status \in {"DISPROVEN", "SUPPORTED"}
                 learned == /\ \/ Spoken(belief, outcome.signals) # {}
                               \/ ~(Keys(outcome.signals) \subseteq seen)
                            /\ ~Repeats(p, outcome.signals, outcome.ran)
             IN  /\ flips' = IF settled /\ flips < 2 THEN flips + 1 ELSE flips
                 /\ streak' = IF learned THEN 0 ELSE streak + 1
          /\ seen' = seen \cup Keys(outcome.signals)
    /\ pc' = "challenge"
    /\ UNCHANGED <<tree, moves, known, repoChanged, turn, trigger, challenges, result>>

Ambiguous ==
    Leading(belief) = 0 \/ Cardinality({i \in Alive(belief) : belief[i].confidence >= 400}) > 1

Contestable ==
    /\ flips >= 2 \/ Ambiguous \/ trigger.safety
    /\ Leading(belief) \notin challenges

\* A fresh perspective attacks the leader: it names whom it challenges, and may
\* have a probe run, which the runner refuses by the same rule.
Challenge ==
    /\ pc = "challenge" /\ Contestable
    /\ \E named \in Ids \cup {0} : challenges' = challenges \cup {named}
    /\ \/ UNCHANGED <<runs, observations, belief, transitions>>
       \/ \E p \in DesignProbe : \E outcome \in Produced(p) :
             /\ ~Refuses(p) /\ Permitted(p) /\ outcome.ran
             /\ Learn(p, outcome)
    /\ pc' = "settle"
    /\ UNCHANGED <<tree, moves, known, repoChanged, turn, trigger, flips, streak, seen, result>>

Unchallenged ==
    /\ pc = "challenge"             \* nothing to contest, or the challenger gave no answer
    /\ pc' = "settle"
    /\ UNCHANGED <<tree, moves, known, repoChanged, turn, trigger, belief, observations,
                   runs, transitions, flips, challenges, streak, seen, result>>

\* Stop after a step, in the order the code asks.
Settle ==
    /\ pc = "settle"
    /\ IF Winners(belief) # {} THEN ConcludeRootCause
       ELSE /\ belief' = belief
            /\ IF EnvironmentInconsistent(runs) THEN Conclude("NEEDS_MORE_EVIDENCE", 0, belief)
               ELSE IF streak >= 2 THEN Conclude("PARTIAL_DIAGNOSIS", 0, belief)
               ELSE pc' = "consider" /\ result' = result
    /\ UNCHANGED <<tree, moves, known, repoChanged, turn, trigger, observations, runs,
                   transitions, flips, challenges, streak, seen>>

\* The repository moves under the investigation.
Move ==
    /\ pc \notin {"idle", "done"} /\ moves < MaxMoves
    /\ tree' \in Trees \ {tree}
    /\ moves' = moves + 1
    /\ UNCHANGED <<known, repoChanged, turn, pc, trigger, belief, observations, runs,
                   transitions, flips, challenges, streak, seen, result>>

InvestigationNext == \/ Begin \/ Pass \/ StopConverged \/ StopSpent \/ Reobserve
        \/ NoProbe \/ AskFounder \/ RunnerRefuses \/ Probe
        \/ Challenge \/ Unchallenged \/ Settle \/ Move

InvestigationSpec == InvestigationInit /\ [][InvestigationNext]_investigationVars

-----------------------------------------------------------------------------
(***************************************************************************)
(* Properties.                                                             *)
(***************************************************************************)
Measured(i, verdict(_, _)) ==
    \E o \in observations : o.reliability = "DIRECT" /\ verdict(i, o.signals) # {}

\* A root cause was measured (HypothesisEngine.converged, incorporate): it stands
\* alone, a direct observation on record supports it, a direct observation on
\* record contradicts every explanation it displaced, and the correction handed
\* to the builder names it and no other.  A claim in prose is never enough.
RootCauseIsMeasured ==
    result.status = "ROOT_CAUSE_FOUND" =>
        /\ Alive(belief) = {result.winner}
        /\ Measured(result.winner, Supports)
        /\ \A i \in Proposed(belief) \ {result.winner} : Measured(i, Contradicts)
        /\ Correction \in {0, result.winner}

\* An explanation a measured fact refuted is never believed again, whatever is
\* read or probed later (the liveness test at the head of incorporate).
RefutationStands ==
    [][\A i \in Ids : belief[i].status = "DISPROVEN" => belief'[i] = belief[i]]_investigationVars
=============================================================================
