---------------------------- MODULE CoverageGaps ----------------------------
(***************************************************************************)
(* How a run closes the gaps in its coverage, iteration by iteration       *)
(* (_operate_gap_obligations, _close_coverage_gaps,                        *)
(* _verification_gap_decision and _record_gap_routing in                   *)
(* neyma_product_driver/cli.py, over the executions of ScenarioExecution   *)
(* and the rules of ScenarioGate).                                         *)
(*                                                                         *)
(* The builder works; the obligations of the run are adopted, answered and *)
(* executed on the judged tree; the gate judges; a gap alone asks for a    *)
(* wave of scenarios, and a gap no wave can express is routed to the       *)
(* builder as one obligation.  The obligations are in state.json and       *)
(* survive a restart; the correction on its way to the builder does not.   *)
(***************************************************************************)
EXTENDS ScenarioExecution

CONSTANTS
  Register,      \* the risks, in the order the waves of a run identify them
  FirstRisks,    \* how many of them the plan starts with
  Trees,         \* the trees the builder can leave
  FirstTree,
  Permanent,     \* the scenarios a human reviewed
  Plan,          \* the generated scenarios of the run
  Wave,          \* the one a wave generates for a category
  Base,          \* the services and readiness checks they may use
  Approved,      \* the commands they may run
  Browsers,      \* config.run.browser_enabled
  Measurements,  \* what an iteration can meet: a world, the guards of its diff
  WaveWorlds,    \* what a wave can meet
  Covers,        \* the risk categories a wave can express a scenario for
  MaxWaves,      \* config.scenario_generation.max_waves
  IterationBudget

VARIABLES
  tree,          \* the judged tree
  known,         \* how many risks the register holds
  obligations,   \* state.verification_gap_obligations
  observed,      \* what this iteration measured, waves included
  evaluator,     \* the decision closure may replace
  waves,         \* scenario-generation waves left
  asked,         \* the obligation the builder's next prompt names
  named,         \* the risk keys each obligation's corrections have named
  iteration, stage
gapsVars == <<tree, known, obligations, observed, evaluator, waves, asked, named,
          iteration, stage>>

Listed(q) == Len(q) \in Nat /\ q = [i \in 1..Len(q) |-> q[i]]

ASSUME GapsAssumption ==
  /\ None \notin Int
  /\ FirstTree \in Trees
  /\ Listed(Register)
  /\ \A i \in DOMAIN Register :
       /\ IsRisk(Register[i])
       /\ None \notin {Register[i].key, Register[i].category,
                      <<Register[i].category, Register[i].names>>}
  /\ FirstRisks \in 0..Len(Register)
  /\ MaxWaves \in Nat
  /\ IterationBudget \in Nat \ {0}
  /\ \A i, j \in DOMAIN Register : Register[i].key = Register[j].key => i = j
  /\ Listed(Permanent) /\ Listed(Plan)
  /\ \A i \in DOMAIN Permanent :
       /\ Loadable(Permanent[i].scenario)
       /\ Listed(Operations(Permanent[i].scenario))
  /\ \A g \in {Plan[i] : i \in DOMAIN Plan} \union {Wave[c] : c \in Covers} :
       /\ Observable(g) /\ g.rank \in Nat
       /\ Listed(Operations(Compiled(g, Base)))
  /\ \A c \in Covers : Wave[c].category = c
  /\ Browsers \in BOOLEAN

Suite == BuildSuite(Permanent, Plan, Base, Approved)

(* What the gate is given of a measurement: the suite is executed, and the *)
(* diff's guards and modules are what they are.                            *)
Observed ==
  [m \in Measurements |->
     LET run == RunSuite(Suite, {Suite.entries[i].id : i \in DOMAIN Suite.entries},
                         m.world, Browsers)
     IN [outcomes |-> run.outcomes, required |-> RequiredIds(Suite),
         problems |-> run.problems, guards |-> m.guards, modules |-> m.modules,
         scan |-> m.scan, passedScripts |-> m.passedScripts]]

(* A wave's scenario joins the suite and is the only one executed.         *)
WaveRuns ==
  [category \in Covers |->
     {RunSuite(BuildSuite(Permanent, Append(Plan, Wave[category]), Base, Approved),
               {Wave[category].id}, w, Browsers) : w \in WaveWorlds}]

(* The register as the waves built it, and what of it is known now.        *)
RegisterOf[n \in 0..Len(Register)] ==
  IF n = 0 THEN <<>> ELSE Merged(RegisterOf[n - 1], Register[n])
Registered == RegisterOf[Len(Register)]
Risks == SubSeq(Registered, 1, known)
Gate == Coverage(Risks, observed, obligations, tree)

-----------------------------------------------------------------------------
(* An iteration begins with nothing measured and nothing decided.          *)
Nothing == [outcomes |-> {}, required |-> {}, problems |-> FALSE,
            guards |-> <<>>, modules |-> {}, scan |-> {}, passedScripts |-> {}]

(* The builder, sent whatever the last iteration decided, leaves a tree.   *)
BuilderTurn ==
  /\ stage = "build"
  /\ iteration < IterationBudget
  /\ tree' \in Trees
  /\ iteration' = iteration + 1
  /\ observed' = Nothing
  /\ evaluator' = None
  /\ stage' = "operate"
  /\ UNCHANGED <<known, obligations, waves, asked, named>>

(* _operate_gap_obligations: what is bound is executed here, and saved.    *)
Operate ==
  /\ stage = "operate"
  /\ \E readable, runner \in BOOLEAN :
       LET answered == [i \in DOMAIN obligations |->
                          Answered(Adopt(obligations[i], Risks), tree, readable)]
       IN /\ obligations' \in
               {os \in [DOMAIN obligations ->
                          UNION {Executions(answered[i], tree, runner) :
                                   i \in DOMAIN obligations}] :
                  \A i \in DOMAIN os : os[i] \in Executions(answered[i], tree, runner)}
  /\ stage' = "judge"
  /\ UNCHANGED <<tree, known, observed, evaluator, waves, asked, named, iteration>>

(* The suite, the changed guards and the evaluator of this iteration.      *)
Judge ==
  /\ stage = "judge"
  /\ \E m \in Measurements : observed' = Observed[m]
  /\ evaluator' \in {"ACCEPT", "FIX", "ASK_USER", "BLOCKED"}
  /\ stage' = "gate"
  /\ UNCHANGED <<tree, known, obligations, waves, asked, named, iteration>>

(* Only a gap that is nothing else is closed by more coverage.             *)
LeaveGate ==
  /\ stage = "gate"
  /\ stage' = IF CoverageGapOnly(observed, Gate) THEN "close" ELSE "decide"
  /\ asked' = 0
  /\ UNCHANGED <<tree, known, obligations, observed, evaluator, waves, named,
                 iteration>>

FirstGap == Gate[CHOOSE i \in Uncovered(Gate) :
                   \A j \in Uncovered(Gate) : i <= j].lead

(* A wave may identify one more risk.                                      *)
Identified == known' \in {n \in {known, known + 1} : n <= Len(Registered)}

(* A wave that runs something: a scenario of a category it can express,    *)
(* whatever it meets, merged into the record of the iteration.             *)
RunWave ==
  /\ stage = "close"
  /\ waves > 0
  /\ Uncovered(Gate) # {}
  /\ waves' = waves - 1
  /\ \E category \in Covers : \E run \in WaveRuns[category] :
       LET id == <<"wave", waves, category>>
           added == {[x EXCEPT !.id = id] : x \in run.outcomes}
       IN observed' = [observed EXCEPT
                         !.outcomes = @ \union added,
                         !.problems = @ \/ run.problems,
                         !.required = IF Wave[category].rank < 2 THEN @ \union {id} ELSE @]
  /\ Identified
  /\ stage' = IF Failing(observed') # {} THEN "decide" ELSE "close"
  /\ UNCHANGED <<tree, obligations, evaluator, asked, named, iteration>>

(* A wave of which nothing can run, refused for its candidates' choice or  *)
(* its generator's failure: the ordinary refusal stands.                   *)
EmptyWave ==
  /\ stage = "close"
  /\ waves > 0
  /\ Uncovered(Gate) # {}
  /\ waves' = waves - 1
  /\ Identified
  /\ stage' = "decide"
  /\ UNCHANGED <<tree, obligations, observed, evaluator, asked, named, iteration>>

Routable == evaluator \in {"ACCEPT", "BLOCKED"}

(* _verification_gap_decision and _record_gap_routing: the budget is       *)
(* spent, or the wave was refused throughout as unsupported invocations.   *)
RouteGap ==
  /\ stage = "close"
  /\ Uncovered(Gate) # {}
  /\ Routable
  /\ IF waves = 0 THEN UNCHANGED <<waves, known>>
     ELSE waves' = waves - 1 /\ Identified
  /\ \E risk \in {FirstGap} :
       LET routed == Route(obligations, risk, Risks', tree)
           id == FindObligation(routed, risk.key)
       IN /\ obligations' = routed
          /\ asked' = id
          /\ named' = [i \in DOMAIN routed |->
                         (IF i \in DOMAIN named THEN named[i] ELSE {})
                         \union (IF i = id THEN KeysOf(Group(risk, Risks')) ELSE {})]
  /\ stage' = "build"
  /\ UNCHANGED <<tree, observed, evaluator, iteration>>

CloseEnds ==
  /\ stage = "close"
  /\ \/ Uncovered(Gate) = {}
     \/ waves = 0 /\ ~Routable
  /\ stage' = "decide"
  /\ UNCHANGED <<tree, known, obligations, observed, evaluator, waves, asked,
                 named, iteration>>

(* The decision otherwise: an acceptance the gate supports ends the run, a *)
(* correction begins another turn, anything else stops it.                 *)
Decide ==
  /\ stage = "decide"
  /\ stage' = IF evaluator = "ACCEPT" /\ Verified(observed, Gate) THEN "accepted"
           ELSE IF evaluator = "FIX" \/ (evaluator = "ACCEPT" /\ Failing(observed) # {})
           THEN "build" ELSE "stopped"
  /\ UNCHANGED <<tree, known, obligations, observed, evaluator, waves, asked,
                 named, iteration>>

(* The process dies or stopped, and the run is resumed: the next turn      *)
(* begins with the task, not with the correction, and nothing measured.    *)
ResumeRun ==
  /\ stage # "accepted"
  /\ stage' = "build"
  /\ asked' = 0
  /\ observed' = Nothing
  /\ evaluator' = None
  /\ UNCHANGED <<tree, known, obligations, waves, named, iteration>>

-----------------------------------------------------------------------------
GapsInit ==
  /\ tree = FirstTree
  /\ known = FirstRisks
  /\ obligations = <<>>
  /\ observed = Nothing
  /\ evaluator = None
  /\ waves = MaxWaves
  /\ asked = 0
  /\ named = <<>>
  /\ iteration = 0
  /\ stage = "build"

GapsNext == \/ BuilderTurn \/ Operate \/ Judge \/ LeaveGate
        \/ RunWave \/ EmptyWave \/ RouteGap \/ CloseEnds \/ Decide \/ ResumeRun

GapsSpec == GapsInit /\ [][GapsNext]_gapsVars

-----------------------------------------------------------------------------
Weighed == stage \in {"gate", "close", "decide", "accepted"}

(* A bound guard that failed on the judged tree refutes the risk the       *)
(* ledger judges by it: whatever else passed, an entry whose wording an    *)
(* obligation answers for is not covered while that obligation is red.     *)
RedGuardRefuses ==
  Weighed => LET gate == Gate IN \A e \in DOMAIN gate :
    LET i == FindObligation(obligations, gate[e].lead.key)
    IN i # 0 /\ BoundVerdict(obligations[i], tree, observed.passedScripts).refuted =>
         ~gate[e].covered

(* What was bound and executed is provenance: a later iteration, wave,     *)
(* routing or restart never measures a closed window again, never drops a  *)
(* wording, an execution or an obligation.                                 *)
EvidenceStands ==
  [][\A i \in DOMAIN obligations :
       /\ i \in DOMAIN obligations'
       /\ obligations[i].keys \subseteq obligations'[i].keys
       /\ \A x \in DOMAIN obligations[i].executions :
            /\ x \in DOMAIN obligations'[i].executions
            /\ obligations'[i].executions[x] = obligations[i].executions[x]
       /\ \A w \in DOMAIN obligations[i].windows :
            /\ w \in DOMAIN obligations'[i].windows
            /\ obligations[i].windows[w].answered # None =>
                 obligations'[i].windows[w] = obligations[i].windows[w]]_gapsVars

(* A risk a scenario covers was measured: the product, as it was executed, *)
(* bore out a claim on that risk by every check the claim names, or        *)
(* answered everything asked of it for that risk.  Nothing that ran beside *)
(* it, nothing that was only run, and no record of another can stand in.   *)
CoverageIsMeasured ==
  Weighed => LET gate == Gate IN \A e \in DOMAIN gate :
    gate[e].covered /\ gate[e].basis = "scenario" =>
      \E x \in observed.outcomes : /\ x.result = "PASSED"
                                   /\ gate[e].lead.category \in x.measures

(* Risk r speaks for n: it is n, shares its lineage or its subjects, or    *)
(* restates one that does.                                                 *)
SpeaksFor(r, n) ==
  \/ SameObligation(r, n)
  \/ \E i \in DOMAIN Risks :
        LineageKey(Risks[i]) = LineageKey(r) /\ SameObligation(Risks[i], n)

(* A risk covered by a bound guard was named to the builder, itself or by  *)
(* a wording it speaks for, or is one grounded hypothesis with one that    *)
(* was: routing one gap never closes another.                              *)
AnsweredAsNamed ==
  Weighed => LET gate == Gate IN \A e \in DOMAIN gate :
    gate[e].covered /\ gate[e].basis = "bound" =>
      \A k \in gate[e].keys : \E i \in DOMAIN Risks :
        /\ Risks[i].key = k
        /\ \/ \E n \in named[gate[e].obligation] : \E j \in DOMAIN Risks :
                Risks[j].key = n /\ SpeaksFor(Risks[i], Risks[j])
           \/ /\ gate[e].ground # None
              /\ GroundKey(Risks[i], observed.modules) = gate[e].ground
=============================================================================
