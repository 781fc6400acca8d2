------------------------------- MODULE TaskScope -------------------------------
(***************************************************************************)
(* What a run was asked for (task_scope.py), read off the task's words and *)
(* the repository's criteria: one unit of the phase, a bounded repair, the *)
(* phase built, the phase accepted, or nothing the words settle.           *)
(*                                                                         *)
(* A task is the phrases that matter in it.  `accept', `complete' and      *)
(* `build' say whether the text asks for that of the phase, denies it or   *)
(* is silent; `tokens' lists the unit-like identifiers it names, in order. *)
(***************************************************************************)
EXTENDS Sequences, FiniteSets

CONSTANTS
    Criteria,     \* the acceptance criteria the registry declares for the phase
    Independent,  \* those only a session other than the implementing one may award
    Built,        \* those the implementation itself owes
    Optional,     \* those the registry marks as not required
    Family        \* the identifier family of a token or criterion, "" for none

ASSUME CriteriaAssumption ==
    /\ Independent \cup Built \cup Optional \subseteq Criteria
    /\ Independent \cap Built = {}

Required == Criteria \ Optional

\* The criterion vocabulary: declared identifiers, and the families they come from.
Families == {Family[c] : c \in Criteria} \ {""}
DeclaredCriterion(token) == token \in Criteria \/ Family[token] \in Families

\* A token the repository or the sentence around it reads as a criterion is no unit.
ReadsAsCriterion(task, token) == DeclaredCriterion(token) \/ token \in task.asCriterion
NestedUnits(task) == SelectSeq(task.tokens, LAMBDA t : ~ReadsAsCriterion(task, t))

AcceptanceAsked(task) == task.accept = "asked"
ImplementationAsked(task) == task.complete = "asked"
BuildAsked(task) == task.build = "asked"
AcceptanceDenied(task) == "denied" \in {task.accept, task.complete}

\* A unit named beside the phase itself is part of the phase's task; without either,
\* asking for the phase to be built asks for the phase.
AsksForPhase(task) ==
    \/ AcceptanceAsked(task) \/ ImplementationAsked(task)
    \/ NestedUnits(task) = <<>> /\ BuildAsked(task)

RemediationAsked(task) == task.remediate /\ AcceptanceDenied(task)

Intent(task) ==
    CASE AsksForPhase(task) /\ AcceptanceAsked(task) -> "PHASE_ACCEPTANCE"
      [] AsksForPhase(task) /\ ~AcceptanceAsked(task) -> "PHASE_IMPLEMENTATION"
      [] ~AsksForPhase(task) /\ NestedUnits(task) # <<>> -> "UNIT_IMPLEMENTATION"
      [] ~AsksForPhase(task) /\ NestedUnits(task) = <<>> /\ RemediationAsked(task) -> "SCOPED_REMEDIATION"
      [] OTHER -> "UNSPECIFIED"

IsNested(intent) == intent \in {"UNIT_IMPLEMENTATION", "SCOPED_REMEDIATION"}
RequiresPhaseAcceptance(intent) == ~IsNested(intent)

\* The scope a run is held to: the unit it names, else the phase.
ResolveTaskScope(task) ==
    [intent |-> Intent(task),
     unit |-> IF Intent(task) = "UNIT_IMPLEMENTATION" THEN NestedUnits(task)[1] ELSE "phase"]
=============================================================================
