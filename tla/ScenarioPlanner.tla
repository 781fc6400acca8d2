--------------------------- MODULE ScenarioPlanner ---------------------------
(***************************************************************************)
(* The scenario plan of a run, from the waves that generate it through the *)
(* processes that resume it (neyma_product_driver/scenario_planner.py and  *)
(* scenario_plan.py, called from run_control_loop in cli.py).              *)
(*                                                                         *)
(* The planner keeps the plan, the scenarios it has an executable for and  *)
(* a wave counter in memory; scenario-plan.json is replaced as a whole and *)
(* the record of each wave is a file of its own, written after it.  Between*)
(* two processes a human may repair the repository's scenario files: a     *)
(* resume reads every scenario again (ScenarioValidation) and finds it     *)
(* fine, rebound to a repaired command, impossible under its program's     *)
(* grammar, contradicted by its own record, or without an executable.      *)
(***************************************************************************)
EXTENDS ScenarioProposal

CONSTANTS
  Ids,             \* what a generated scenario can be called
  Category, Rank, Describes,  \* its risk category, its priority, its risk
  Answers,         \* what the generator can answer a brief with
  Repositories, Original,  \* what the scenario files can come to say, and say
  PermanentCategories,  \* the categories the permanent scenarios establish
  PermanentIds,    \* what the permanent scenarios are called
  MaxWaves, MaxTotal, MaxPerCategory, WaveLimit,  \* config.scenario_generation
  MaxAttempts,     \* MAX_REDERIVE_ATTEMPTS
  MaxProcesses,    \* bound: how often the run is started
  MaxRecords       \* bound: how many waves a plan records

VARIABLES
  plan,            \* self.plan
  compiled,        \* the scenarios with an executable
  unbuildable,     \* those a resume could not build
  wave, offset,    \* self._wave, self._wave_file_offset
  passed,          \* what the suite has seen pass in this process
  observed,        \* self._observed_failure_ids
  file, waveFiles, \* scenario-plan.json and scenario-waves/
  repository,      \* the scenario files, as they are now
  records,         \* the last recorded run that ended in a typed refusal
  at, processes,
  committed,       \* ghost: every scenario a written plan has held
  charged,         \* ghost: attempts of a scenario and of what it replaced
  spent,           \* ghost: the waves the generator was asked for
  torn, lostPlan   \* ghosts: a wave's record, or the plan, was lost
plannerVars == <<plan, compiled, unbuildable, wave, offset, passed, observed, file, waveFiles,
                 repository, records, at, processes, committed, charged, spent, torn, lostPlan>>

memory == <<plan, compiled, unbuildable, wave, offset, passed, observed>>
stored == <<file, waveFiles, records>>
ghosts == <<committed, charged, spent, torn, lostPlan>>

(* What kind of values the bounds and the generator's answers are.         *)
ASSUME PlannerAssumption ==
  /\ Rank \in [Ids -> 0..3]
  /\ {MaxWaves, MaxTotal, MaxAttempts, MaxProcesses, MaxRecords} \subseteq Nat
  /\ \A answer \in Answers :
       /\ Len(answer.candidates) \in Nat
       /\ DOMAIN answer.candidates = 1..Len(answer.candidates)
       /\ \A i \in DOMAIN answer.candidates :
            answer.candidates[i].id \in Ids /\ IsProposal(answer.candidates[i].body)
       /\ \A risk \in answer.risks : risk.severity \in 0..3

Empty == [scenarios |-> <<>>, risks |-> {}, waves |-> <<>>]

-----------------------------------------------------------------------------
(***************************************************************************)
(* The plan.                                                               *)
(***************************************************************************)
Scenario(id, replaces, body) ==
  [id |-> id, held |-> FALSE, retired |-> "no", by |-> {}, attempts |-> 0,
   replaces |-> replaces, body |-> body]

Listed(p) == {p.scenarios[i].id : i \in DOMAIN p.scenarios}
IsHeld(s) == s.held /\ s.retired = "no"
IsActive(s) == ~s.held /\ s.retired = "no"
HeldIds(p) == {s.id : s \in {x \in {p.scenarios[i] : i \in DOMAIN p.scenarios} : IsHeld(x)}}
ActiveIds(p) ==
  {s.id : s \in {x \in {p.scenarios[i] : i \in DOMAIN p.scenarios} : IsActive(x)}}
ById(p, id) == p.scenarios[CHOOSE i \in DOMAIN p.scenarios : p.scenarios[i].id = id]
CountFor(p, category) == Cardinality({id \in ActiveIds(p) : Category[id] = category})

(* A risk is what it says under a category; its severity is not part of    *)
(* its key.                                                                *)
Risk(category, says, severity) ==
  [category |-> category, says |-> says, severity |-> severity]
Key(risk) == <<risk.category, risk.says>>
Blocks(risk) == risk.severity <= 1

(* _merge_risks *)
MergeRisks(risks, incoming) ==
  risks \union {r \in incoming : \A k \in risks : Key(k) # Key(r)}

(* A faulty variant: any risk of the category will do, however mild.       *)
CarryUnlessNamed(risks, id) ==
  IF \E r \in risks : r.category = Category[id]
  THEN risks
  ELSE risks \union {Risk(Category[id], Describes[id], Rank[id])}

(* _carry_obligation: unless the register already names an acceptance      *)
(* obligation at least as severe, or the very same risk.                   *)
Carry(risks, id) ==
  IF \E r \in risks : /\ r.category = Category[id]
                      /\ \/ r.severity <= Rank[id]
                         \/ r.says = Describes[id]
  THEN risks
  ELSE risks \union {Risk(Category[id], Describes[id], Rank[id])}

(* A wave's number, and whether it leaves generation_problems something to *)
(* report forever.                                                         *)
WaveRecord(n, problem) == [wave |-> n, problem |-> problem]

Recorded(p, record) == [p EXCEPT !.waves = Append(p.waves, record)]

-----------------------------------------------------------------------------
(***************************************************************************)
(* persist: the plan in one move, then every wave's file.  A process may   *)
(* die after the first k of them.                                          *)
(***************************************************************************)
WaveFilesAfter(p, k) ==
  [i \in 1..(IF offset' + k > Len(waveFiles) THEN offset' + k ELSE Len(waveFiles)) |->
     IF i > offset' /\ i <= offset' + k THEN p.waves[i - offset'] ELSE waveFiles[i]]

Persist(p, next) ==
  \E k \in {Len(p.waves), Len(p.waves) - 1} :
    /\ k >= 0
    /\ file' = [state |-> "readable", plan |-> p]
    /\ waveFiles' = WaveFilesAfter(p, k)
    /\ committed' = committed \union Listed(p)
    /\ torn' = (torn \/ k < Len(p.waves))
    /\ at' = IF k = Len(p.waves) THEN next ELSE "down"

-----------------------------------------------------------------------------
(***************************************************************************)
(* A wave.  A candidate of the generator's answer could not be read, asks  *)
(* for what no correct product does, is filtered, or is valid; one that    *)
(* replaces must replace what is held, for the same category and at no     *)
(* lower priority.                                                         *)
(***************************************************************************)
Lawful(p, c, stage) ==
  /\ stage = "rederivation" => c.replaces # {}
  /\ \A h \in c.replaces : /\ h \in HeldIds(p)
                           /\ Category[h] = Category[c.id]
                           /\ Rank[c.id] <= Rank[h]

(* _validation_context: the failures a wave answers are recorded before it *)
(* is asked for.                                                           *)
Context(p, stage) ==
  [repo |-> repository, stage |-> stage,
   risks |-> {Key(r) : r \in p.risks}, failures |-> observed', held |-> HeldIds(p),
   signatures |-> {Signature(ById(p, id).body) : id \in ActiveIds(p)}
                    \union PermanentSignatures(repository),
   ids |-> Listed(p) \union PermanentIds]

Admissible(p, answer, stage) ==
  LET candidates == {answer.candidates[i] : i \in DOMAIN answer.candidates}
  IN Accepted(Context(p, stage), answer.candidates,
              {c \in candidates : c.readable /\ Lawful(p, c, stage)}, Category)

(* What a replacement replaces, and the most any of it was attempted.      *)
Replaced(p, s) ==
  {i \in DOMAIN p.scenarios : p.scenarios[i].id \in s.replaces /\ IsHeld(p.scenarios[i])}
MostAttempts(p, s) ==
  LET attempts == {p.scenarios[i].attempts : i \in Replaced(p, s)} \union {s.attempts}
  IN CHOOSE n \in attempts : \A x \in attempts : x <= n

(* A faulty variant: a replacement begins its attempts anew.               *)
ReleaseAfresh(p, s) ==
  [p EXCEPT !.scenarios =
     [i \in DOMAIN p.scenarios |->
        IF i \in Replaced(p, s)
        THEN [p.scenarios[i] EXCEPT !.retired = "replaced", !.by = {s.id}]
        ELSE p.scenarios[i]]]

(* _release_holds: what an admitted replacement replaces is retired, and   *)
(* its attempts are the replacement's.                                     *)
Release(p, s) ==
  [p EXCEPT !.scenarios =
     [i \in DOMAIN p.scenarios |->
        IF i \in Replaced(p, s)
        THEN [p.scenarios[i] EXCEPT !.retired = "replaced", !.by = {s.id}]
        ELSE IF p.scenarios[i].id = s.id
        THEN [p.scenarios[i] EXCEPT !.attempts = MostAttempts(p, s)]
        ELSE p.scenarios[i]]]

(* _admit: the budgets, from which a replacement is exempt.                *)
Admits(p, c) ==
  \/ c.replaces # {}
  \/ /\ Len(p.scenarios) < MaxTotal
     /\ CountFor(p, Category[c.id]) < MaxPerCategory

Admitted(p, c) ==
  LET s == Scenario(c.id, c.replaces, Bind(repository, c.body))
  IN IF Admits(p, c)
     THEN Release([p EXCEPT !.scenarios = Append(p.scenarios, s)], s) ELSE p

(* The plan after the valid candidates, the first `allowed' of them.       *)
Admitting(p, valid, allowed) ==
  LET upTo[n \in 0..Len(valid)] ==
        IF n = 0 THEN p
        ELSE IF n > allowed THEN upTo[n - 1] ELSE Admitted(upTo[n - 1], valid[n])
  IN upTo

AfterCandidates(p, valid, allowed) == Admitting(p, valid, allowed)[Len(valid)]

(* The candidates refused as harness-generation defects.                   *)
Refused(answer) ==
  {c.id : c \in {x \in {answer.candidates[i] : i \in DOMAIN answer.candidates} :
                   x.readable /\ Misjudged(repository, x.body, Category[x.id])}}

(* The risks of those among the ids, in the order they are listed.         *)
Carrying(risks, list, ids) ==
  LET upTo[n \in 0..Len(list)] ==
        IF n = 0 THEN risks
        ELSE IF list[n].id \in ids THEN Carry(upTo[n - 1], list[n].id) ELSE upTo[n - 1]
  IN upTo

CarryAll(risks, list, ids) == Carrying(risks, list, ids)[Len(list)]

(* The plan and the record a wave with an answer leaves.                   *)
AfterWave(p, n, stage, answer, allowed) ==
  LET q == AfterCandidates(p, Admissible(p, answer, stage), allowed)
  IN Recorded([q EXCEPT !.risks = CarryAll(MergeRisks(q.risks, answer.risks),
                                           answer.candidates, Refused(answer))],
              WaveRecord(n, \E i \in DOMAIN answer.candidates :
                              ~answer.candidates[i].readable))

(* What a scenario that replaces inherits of the charge.                   *)
Inherited(q, id) ==
  LET holds == {h \in Listed(q) : ById(q, h).by = {id}}
  IN {charged[h] : h \in holds} \union {charged[id]}

(* _generate *)
Generate(stage, limit, budgeted, next) ==
  LET room == IF Len(plan.scenarios) < MaxTotal THEN MaxTotal - Len(plan.scenarios) ELSE 0
      allowed == IF budgeted /\ room < limit THEN room ELSE limit
      refused == budgeted /\ (wave >= MaxWaves \/ room = 0)
  IN /\ Len(plan.waves) < MaxRecords
     /\ IF refused
        THEN /\ plan' = Recorded(plan, WaveRecord(wave + 1, FALSE))
             /\ UNCHANGED <<wave, spent>>
        ELSE /\ wave' = wave + 1
             /\ spent' = IF budgeted THEN spent + 1 ELSE spent
             /\ \/ plan' = Recorded(plan, WaveRecord(wave', TRUE))
                \/ \E answer \in Answers :
                     plan' = AfterWave(plan, wave', stage, answer, allowed)
     /\ compiled' = compiled \union (Listed(plan') \ Listed(plan))
     /\ charged' = [id \in Ids |->
                      CHOOSE n \in Inherited(plan', id) :
                        \A x \in Inherited(plan', id) : x <= n]
     /\ UNCHANGED <<unbuildable, offset, passed, repository, records, processes, lostPlan>>
     /\ Persist(plan', next)

(* What must pass before the run is accepted.                              *)
Required == {id \in compiled : Rank[id] <= 1 \/ ById(plan, id).replaces # {}}

PlanInitial ==
  /\ at = "plan"
  /\ observed' = observed
  /\ Generate("initial", WaveLimit, TRUE, "turn")

(* refine_for_diff: nothing without changed files.                         *)
Refine ==
  /\ at = "turn"
  /\ observed' = observed
  /\ Generate("diff_refinement", WaveLimit, TRUE, "rederive")

NothingToRefine ==
  /\ at = "turn"
  /\ at' = "rederive"
  /\ UNCHANGED <<memory, stored, repository, processes, ghosts>>

(* expand_after_failures: what failed asks for more, or, with no failure,  *)
(* a gap or the evaluator does; the gate's own gaps are widened in the same*)
(* turn.                                                                   *)
Expand ==
  /\ at = "judge"
  /\ wave < MaxWaves /\ Len(plan.scenarios) < MaxTotal
  /\ \/ \E failed \in SUBSET ((compiled \ passed) \union PermanentIds) :
          /\ observed' = observed \union failed
          /\ Generate(IF failed = {} THEN "coverage_gap" ELSE "adaptive",
                      WaveLimit, TRUE, "turn")
     \/ /\ Required \subseteq passed
        /\ observed' = observed
        /\ Generate("coverage_gap", WaveLimit, TRUE, "widen")

-----------------------------------------------------------------------------
(* rederive_held: the attempt is charged and written before the generator  *)
(* is asked.                                                               *)
Pending == {id \in HeldIds(plan) : ById(plan, id).attempts < MaxAttempts}

Rederive ==
  /\ at = "rederive"
  /\ Pending # {}
  /\ plan' = [plan EXCEPT !.scenarios =
                [i \in DOMAIN plan.scenarios |->
                   IF plan.scenarios[i].id \in Pending
                   THEN [plan.scenarios[i] EXCEPT !.attempts = plan.scenarios[i].attempts + 1]
                   ELSE plan.scenarios[i]]]
  /\ charged' = [id \in Ids |-> IF id \in Pending THEN charged[id] + 1 ELSE charged[id]]
  /\ UNCHANGED <<compiled, unbuildable, wave, offset, passed, observed, repository, records,
                 processes, spent, lostPlan>>
  /\ Persist(plan', "derive")

DeriveWave ==
  /\ at = "derive"
  /\ observed' = observed
  /\ Generate("rederivation",
              Cardinality({id \in HeldIds(plan) : ById(plan, id).attempts > 0}),
              FALSE, "execute")

NothingToDerive ==
  /\ at = "rederive"
  /\ Pending = {}
  /\ at' = "execute"
  /\ UNCHANGED <<memory, stored, repository, processes, ghosts>>

-----------------------------------------------------------------------------
(* The suite runs what has an executable; a failure that is the harness's  *)
(* own (hold_undeclared_refusals) is withdrawn and its scenario held.      *)
Hold(p, ids) ==
  [p EXCEPT !.scenarios =
     [i \in DOMAIN p.scenarios |->
        IF p.scenarios[i].id \in ids
        THEN [p.scenarios[i] EXCEPT !.held = TRUE] ELSE p.scenarios[i]]]

(* What the suite's own record of a run says: the command whose run met a  *)
(* typed refusal.                                                          *)
RecordedRun(ran, met) ==
  [id \in Ids |-> IF id \in met THEN ById(plan, id).body.run
                 ELSE IF id \in ran THEN Uncited ELSE records[id]]

(* The record is on disk before the hold is.                               *)
Execute ==
  /\ at = "execute"
  /\ \E ok \in SUBSET compiled :
     \E met \in SUBSET {id \in compiled \ ok : Undeclared(ById(plan, id).body)} :
       LET ids == met \union {id \in compiled \ ok :
                               Contradicted(repository, ById(plan, id).body)}
       IN /\ ids = {} \/ Len(plan.waves) < MaxRecords
          /\ passed' = ok
          /\ records' = RecordedRun(compiled, met)
          /\ UNCHANGED <<unbuildable, wave, offset, observed, repository, processes, charged,
                         spent, lostPlan>>
          /\ \/ /\ plan' = IF ids = {} THEN plan
                           ELSE Recorded(Hold(plan, ids), WaveRecord(wave, FALSE))
                /\ compiled' = compiled \ ids
                /\ Persist(plan', "judge")
             \/ /\ ids # {}
                /\ at' = "down"
                /\ UNCHANGED <<plan, compiled, file, waveFiles, committed, torn>>

(* The scenarios a gap's wave added, in the same turn: a refusal they meet *)
(* is recorded and none of them is held.                                   *)
Widen ==
  /\ at = "widen"
  /\ \E ok \in SUBSET compiled :
     \E met \in SUBSET {id \in compiled \ (ok \union passed) :
                        Undeclared(ById(plan, id).body)} :
       /\ passed' = passed \union ok
       /\ records' = RecordedRun(compiled \ passed, met)
  /\ UNCHANGED <<plan, compiled, unbuildable, wave, offset, observed, repository, processes,
                 charged, spent, lostPlan>>
  /\ Persist(plan, "judge")

(* generation_problems and unbuildable_scenarios: what the gate refuses.   *)
Problems ==
  \/ unbuildable # {}
  \/ HeldIds(plan) # {}
  \/ \E i \in DOMAIN plan.waves : plan.waves[i].problem

(* A blocking risk is covered by a scenario of its category that passed.   *)
Covered(category) ==
  category \in {Category[id] : id \in passed} \union PermanentCategories

AcceptRun ==
  /\ at = "judge"
  /\ ~Problems
  /\ Required \subseteq passed
  /\ \A r \in plan.risks : Blocks(r) => Covered(r.category)
  /\ at' = "accepted"
  /\ UNCHANGED <<memory, stored, repository, processes, ghosts>>

NextTurn ==
  /\ at = "judge"
  /\ at' = "turn"
  /\ UNCHANGED <<memory, stored, repository, processes, ghosts>>

-----------------------------------------------------------------------------
(***************************************************************************)
(* Processes.                                                              *)
(***************************************************************************)
Stop ==
  /\ at \notin {"down", "accepted"}
  /\ at' = "down"
  /\ UNCHANGED <<memory, stored, repository, processes, ghosts>>

(* The written plan stops being readable.                                  *)
Corrupt ==
  /\ at = "down"
  /\ file.state = "readable"
  /\ file' = [file EXCEPT !.state = "corrupt"]
  /\ UNCHANGED <<memory, waveFiles, records, repository, at, processes, ghosts>>

(* A human repairs the scenario files.                                     *)
Repair ==
  /\ at = "down"
  /\ processes < MaxProcesses
  /\ repository' \in Repositories \ {repository}
  /\ UNCHANGED <<memory, stored, at, processes, ghosts>>

(* A faulty variant: a process counts its waves from the start.            *)
NoWave(waves) == 0

(* _waves_recorded_on_disk and _adopt_wave_file_offset                     *)
HighestWave(waves) ==
  LET numbers == {waves[i].wave : i \in DOMAIN waves} \union {0}
  IN CHOOSE n \in numbers : \A x \in numbers : x <= n

OffsetFor(p) ==
  IF Len(waveFiles) > Len(p.waves) THEN Len(waveFiles) - Len(p.waves) ELSE 0

Begin ==
  /\ at = "down"
  /\ processes < MaxProcesses
  /\ processes' = processes + 1
  /\ passed' = {} /\ observed' = {}

Afresh ==
  /\ plan' = Empty
  /\ compiled' = {}
  /\ unbuildable' = {}
  /\ wave' = HighestWave(waveFiles)
  /\ offset' = OffsetFor(Empty)

(* restore_from_store without a plan: the spent waves still bind.          *)
StartAbsent ==
  /\ Begin
  /\ file.state = "absent"
  /\ Afresh
  /\ at' = "plan"
  /\ UNCHANGED <<stored, repository, ghosts>>

(* _plan_is_unreadable: the file is moved aside and the run is BLOCKED     *)
(* before it does anything.                                                *)
StartUnreadable ==
  /\ Begin
  /\ file.state = "corrupt"
  /\ Afresh
  /\ file' = [state |-> "absent", plan |-> Empty]
  /\ lostPlan' = TRUE
  /\ charged' = [id \in Ids |-> 0]
  /\ UNCHANGED <<waveFiles, records, repository, at, committed, spent, torn>>

(* _recorded_undeclared_refusal: only a record of the body as it is.       *)
Met(s) == Undeclared(s.body) /\ records[s.id] = s.body.run

Readings(p) ==
  [id \in ActiveIds(p) |->
     Reading(repository, ById(p, id).body, Category[id], Met(ById(p, id)))]

(* The scenarios a resume reads as one of the kinds.                       *)
Read(readings, kinds) == {id \in DOMAIN readings : readings[id].kind \in kinds}

(* A faulty variant: what no longer compiles is left out.                  *)
LostDropped(readings) == {}

(* What a resume cannot build and still owes.                              *)
Lost(readings) == Read(readings, {"lost"})

AsRead(s, readings) ==
  LET r == readings[s.id]
  IN IF s.id \notin DOMAIN readings THEN s
     ELSE IF r.kind = "impossible" THEN [s EXCEPT !.retired = "impossible"]
     ELSE IF r.kind = "held" THEN [s EXCEPT !.held = TRUE]
     ELSE [s EXCEPT !.body = r.body]

Reread(p, readings) ==
  IF Read(readings, {"fine"}) = DOMAIN readings THEN p
  ELSE Recorded(
    [p EXCEPT
       !.scenarios = [i \in DOMAIN p.scenarios |-> AsRead(p.scenarios[i], readings)],
       !.risks = CarryAll(p.risks, p.scenarios, Read(readings, {"impossible"}))],
    WaveRecord(wave', Lost(readings) # {}))

Restore(p, readings) ==
  /\ plan' = Reread(p, readings)
  /\ compiled' = Read(readings, {"fine", "rebound"})
  /\ unbuildable' = Lost(readings)

(* restore_from_store *)
StartRestored ==
  /\ Begin
  /\ file.state = "readable"
  /\ wave' = IF HighestWave(file.plan.waves) > HighestWave(waveFiles)
             THEN HighestWave(file.plan.waves) ELSE HighestWave(waveFiles)
  /\ offset' = OffsetFor(file.plan)
  /\ Restore(file.plan, Readings(file.plan))
  /\ UNCHANGED <<repository, records, charged, spent, lostPlan>>
  /\ IF plan' = file.plan
     THEN at' = "plan" /\ UNCHANGED <<file, waveFiles, committed, torn>>
     ELSE Persist(plan', "plan")

-----------------------------------------------------------------------------
PlannerInit ==
  /\ plan = Empty
  /\ compiled = {} /\ unbuildable = {}
  /\ wave = 0 /\ offset = 0
  /\ passed = {} /\ observed = {}
  /\ file = [state |-> "absent", plan |-> Empty]
  /\ waveFiles = <<>>
  /\ repository = Original
  /\ records = [id \in Ids |-> Uncited]
  /\ at = "down" /\ processes = 0
  /\ committed = {}
  /\ charged = [id \in Ids |-> 0]
  /\ spent = 0
  /\ torn = FALSE /\ lostPlan = FALSE

PlannerNext == \/ PlanInitial \/ Refine \/ NothingToRefine \/ Expand
        \/ Rederive \/ DeriveWave \/ NothingToDerive
        \/ Execute \/ Widen \/ AcceptRun \/ NextTurn
        \/ Stop \/ Corrupt \/ Repair \/ StartAbsent \/ StartUnreadable \/ StartRestored

PlannerSpec == PlannerInit /\ [][PlannerNext]_plannerVars

-----------------------------------------------------------------------------
(***************************************************************************)
(* Properties.                                                             *)
(***************************************************************************)
(* Every scenario the plan still owes is, in a running process, exactly    *)
(* one of what can be run and what could not be built: none is dropped on  *)
(* a resume, and what is held or retired is never run again.               *)
Accounted ==
  at # "down" => /\ compiled \union unbuildable = ActiveIds(plan)
                 /\ compiled \intersect unbuildable = {}

(* As long as the plan could be read, a run is accepted only with every    *)
(* blocking scenario it ever committed to still in the plan, and with one  *)
(* of its category passing now, whichever processes held it, replaced it,  *)
(* or retired it as impossible.  Excepted is a risk that it, or what came  *)
(* to replace it, stands for and that the generator restated word for word *)
(* at a severity that does not block.                                      *)
Restated(id) ==
  \E r \in plan.risks : Key(r) = <<Category[id], Describes[id]>> /\ ~Blocks(r)

NothingLeavesQuietly ==
  at = "accepted" /\ ~lostPlan =>
    \A id \in committed :
      /\ id \in Listed(plan)
      /\ Rank[id] <= 1 =>
           \/ Covered(Category[id])
           \/ \A heirs \in SUBSET Listed(plan) :
                id \in heirs /\ (\A h \in heirs : ById(plan, h).by \subseteq heirs) =>
                  \E h \in heirs : Restated(h)

(* However often the run is stopped and resumed, the generator is asked    *)
(* for no more waves than the budget, unless the plan became unreadable    *)
(* after the record of a wave was lost with the process that wrote it.     *)
BudgetBinds == spent <= MaxWaves \/ (torn /\ lostPlan)

(* One obligation, one budget: a scenario and everything it replaced, in a *)
(* chain of whatever length, are re-derived no more than MaxAttempts times *)
(* by one plan.                                                            *)
OneObligationOneBudget == \A id \in Ids : charged[id] <= MaxAttempts

(* Generation and resume ask the same question of the same plan: what a    *)
(* process may execute, a resume of the plan as it is now would neither    *)
(* rebind, retire nor lose.  So one resume after a repair settles every    *)
(* scenario, and what a wave admits is never undone by a resume under an   *)
(* unchanged repository.                                                   *)
OneResumeSettles ==
  at # "down" =>
    \A id \in compiled :
      Reading(repository, ById(plan, id).body, Category[id], FALSE).kind \in {"fine", "held"}
=============================================================================
