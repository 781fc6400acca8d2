---------------------------- MODULE ScenarioGate ----------------------------
(***************************************************************************)
(* What a run's own measurements say of the risks it identified            *)
(* (neyma_product_driver/scenario_gate.py, guard_coverage.py and           *)
(* risk_grounding.py).                                                     *)
(*                                                                         *)
(* An observation is what one iteration measured: the outcomes of the      *)
(* scenarios, the guards the diff changed and that were run, the modules   *)
(* of the task, the driver's scan of who imports them.  A risk is covered  *)
(* or it is a gap; a gap may be a contradiction between two measurements.  *)
(***************************************************************************)
EXTENDS VerificationObligations

MinSubjects == 2

(* A scenario that passed and can show it.                                 *)
Established(outcome) == outcome.result = "PASSED" /\ outcome.verified

Attached(outcome, category) ==
  outcome.category = category \/ category \in outcome.claims

(* _satisfying_outcome: a claim of the scenario that held, or the category *)
(* it was generated for.                                                   *)
Satisfying(category, o) ==
  {x \in o.outcomes : /\ Established(x)
                      /\ x.category = category \/ category \in x.held}

(* _scenario_refusal: it ran, it failed, and it is attached to the risk.   *)
Refusal(category, o) ==
  {x \in o.outcomes : x.result = "FAILED" /\ Attached(x, category)}

-----------------------------------------------------------------------------
(***************************************************************************)
(* Changed guards that were executed, against what a risk names.           *)
(***************************************************************************)
Hits(risk, m) == Cardinality(risk.names \intersect m.reads)

(* The measurement that reads most of it; the diff's own order breaks ties. *)
BestGuard(risk, ms) ==
  CHOOSE i \in DOMAIN ms :
    /\ \A j \in DOMAIN ms : Hits(risk, ms[j]) <= Hits(risk, ms[i])
    /\ \A j \in 1..(i - 1) : Hits(risk, ms[j]) < Hits(risk, ms[i])

(* guard_evidence: the whole risk is read by one guard, which was run.     *)
MeasuresAll(risk, ms) ==
  /\ Cardinality(risk.names) >= MinSubjects
  /\ ms # <<>>
  /\ risk.names \subseteq ms[BestGuard(risk, ms)].reads
  /\ ms[BestGuard(risk, ms)].executable

GuardRefuted(risk, ms) ==
  MeasuresAll(risk, ms) /\ ~ms[BestGuard(risk, ms)].passed

GuardDischarges(risk, ms) ==
  /\ MeasuresAll(risk, ms)
  /\ ms[BestGuard(risk, ms)].passed
  /\ ms[BestGuard(risk, ms)].negative => ms[BestGuard(risk, ms)].control

-----------------------------------------------------------------------------
(***************************************************************************)
(* Grounded risks: of the modules the task changed, those a risk refers    *)
(* to, when it hypothesises that something is wired into the live path.    *)
(***************************************************************************)
Capability(risk, modules) == risk.refers \intersect modules

Subjects(risk, modules) == risk.names \union Capability(risk, modules)

(* Grounding.key: what makes two grounded wordings one obligation.         *)
GroundKey(risk, modules) ==
  IF risk.structural /\ Capability(risk, modules) # {}
  THEN <<risk.category, Capability(risk, modules)>> ELSE None

(* guard_structural_evidence: the first guard with a test that names every *)
(* subject, measures the hypothesis and carries its own positive control.  *)
Structural(risk, modules, ms) ==
  {i \in DOMAIN ms : /\ risk.structural
                     /\ Subjects(risk, modules) # {}
                     /\ ms[i].executable
                     /\ ms[i].test # None
                     /\ Subjects(risk, modules) \subseteq ms[i].test.names
                     /\ ms[i].test.positive}

StructuralPass(risk, o) ==
  \E i \in Structural(risk, o.modules, o.guards) : o.guards[i].passed

(* The first that refused, if it is the measuring test that failed in it.  *)
StructuralRefusal(risk, o) ==
  LET refused == {i \in Structural(risk, o.modules, o.guards) : ~o.guards[i].passed}
  IN /\ refused # {}
     /\ o.guards[CHOOSE i \in refused : \A j \in refused : i <= j].test.failing

(* The driver's own scan of the modules, taken on the judged tree.         *)
Reached(risk, o) ==
  risk.structural /\ \E s \in o.scan : /\ s.path \in Capability(risk, o.modules)
                                       /\ s.status = "IMPORT_REACHABLE"

(* reachability_evidence *)
ScannedDark(risk, o) ==
  /\ risk.structural
  /\ Capability(risk, o.modules) # {}
  /\ \A p \in Capability(risk, o.modules) :
       \E s \in o.scan : s.path = p /\ s.status = "DARK" /\ s.control

-----------------------------------------------------------------------------
Entry(covered, basis, clash) ==
  [covered |-> covered, basis |-> basis, clash |-> clash]

(* _contradiction, and its structural counterparts.                        *)
Contradicted(risk, o) ==
  LET passing == Satisfying(risk.category, o) # {}
      failing == Refusal(risk.category, o) # {}
  IN \/ failing /\ GuardDischarges(risk, o.guards)
     \/ failing /\ StructuralPass(risk, o)
     \/ passing /\ GuardRefuted(risk, o.guards)
     \/ passing /\ StructuralRefusal(risk, o)

(* _judge_risk: one risk, one verdict, in the order evidence is trusted.   *)
JudgeRisk(risk, o) ==
  IF Contradicted(risk, o) THEN Entry(FALSE, "clash", TRUE)
  ELSE IF Satisfying(risk.category, o) # {}
  THEN Entry(TRUE, "scenario", FALSE)
  ELSE IF Reached(risk, o) /\ (GuardDischarges(risk, o.guards) \/ StructuralPass(risk, o))
  THEN Entry(FALSE, "reached", TRUE)
  ELSE IF GuardDischarges(risk, o.guards) THEN Entry(TRUE, "guard", FALSE)
  ELSE IF StructuralRefusal(risk, o) THEN Entry(FALSE, "refused", FALSE)
  ELSE IF StructuralPass(risk, o) THEN Entry(TRUE, "structural", FALSE)
  ELSE IF ScannedDark(risk, o) /\ Refusal(risk.category, o) = {}
  THEN Entry(TRUE, "scan", FALSE)
  ELSE Entry(FALSE, "gap", FALSE)

(* A faulty variant: a refusing bound guard is one more gap and no         *)
(* contradiction.                                                          *)
AddGreenOnly(entry, risk, verdict, o) ==
  IF Discharges(verdict) /\ Refusal(risk.category, o) = {} /\ ~entry.covered
  THEN [entry EXCEPT !.covered = TRUE, !.basis = "bound", !.clash = FALSE]
  ELSE entry

(* _apply_bound_obligation *)
ApplyBound(entry, risk, verdict, o) ==
  IF verdict.refuted
  THEN IF entry.covered
       THEN [entry EXCEPT !.covered = FALSE, !.basis = "clash", !.clash = TRUE]
       ELSE entry
  ELSE IF Discharges(verdict) /\ Refusal(risk.category, o) # {}
  THEN [entry EXCEPT !.covered = FALSE, !.basis = "clash", !.clash = TRUE]
  ELSE IF Discharges(verdict) /\ ~entry.covered
  THEN [entry EXCEPT !.covered = TRUE, !.basis = "bound", !.clash = FALSE]
  ELSE entry

(* The entry of a risk that joins no other.                                *)
Judged(risk, o, obligations, obligation, tree) ==
  LET alone == JudgeRisk(risk, o)
      entry == IF obligation = 0 THEN alone
               ELSE ApplyBound(alone, risk,
                      BoundVerdict(obligations[obligation], tree, o.passedScripts), o)
  IN [keys |-> {risk.key}, covered |-> entry.covered, basis |-> entry.basis,
      clash |-> entry.clash, obligation |-> obligation,
      ground |-> GroundKey(risk, o.modules), lead |-> risk]

Joined(entry, risk) == [entry EXCEPT !.keys = @ \union {risk.key}]

(* risk_coverage: one entry for the wordings of an obligation, and one for *)
(* the wordings of a grounded hypothesis; a later wording joins the entry. *)
JoinOrJudge(entries, risk, o, obligations, tree) ==
  LET obligation == FindObligation(obligations, risk.key)
      byObligation == {i \in DOMAIN entries :
                         obligation # 0 /\ entries[i].obligation = obligation}
      byGround == {i \in DOMAIN entries :
                     /\ GroundKey(risk, o.modules) # None
                     /\ entries[i].ground = GroundKey(risk, o.modules)}
      into == IF byObligation # {} THEN byObligation ELSE byGround
  IN IF into = {} THEN Append(entries, Judged(risk, o, obligations, obligation, tree))
     ELSE [entries EXCEPT ![CHOOSE i \in into : TRUE] = Joined(@, risk)]

(* The entries after each risk of a register, and after the last.          *)
CoverageOf(register, o, obligations, tree) ==
  LET upTo[n \in 0..Len(register)] ==
        IF n = 0 THEN <<>>
        ELSE IF ~register[n].blocks THEN upTo[n - 1]
        ELSE JoinOrJudge(upTo[n - 1], register[n], o, obligations, tree)
  IN upTo

Coverage(register, o, obligations, tree) ==
  CoverageOf(register, o, obligations, tree)[Len(register)]

Uncovered(coverage) == {i \in DOMAIN coverage : ~coverage[i].covered}
Contradictions(coverage) == {i \in Uncovered(coverage) : coverage[i].clash}

-----------------------------------------------------------------------------
(* evaluate_gate: every required scenario established, nothing that was    *)
(* planned left unbuilt, no blocking risk uncovered.                       *)
Unverified(o) ==
  {id \in o.required : ~\E x \in o.outcomes : x.id = id /\ Established(x)}

(* blocking_failures *)
Failing(o) == {x \in o.outcomes : /\ x.id \in o.required
                                  /\ x.result \in {"FAILED", "BLOCKED"}}

Verified(o, coverage) ==
  Unverified(o) = {} /\ ~o.problems /\ Uncovered(coverage) = {}

(* _coverage_gap_only *)
CoverageGapOnly(o, coverage) ==
  /\ Contradictions(coverage) = {}
  /\ Uncovered(coverage) # {}
  /\ Unverified(o) = {}
  /\ ~o.problems
  /\ Failing(o) = {}
=============================================================================
