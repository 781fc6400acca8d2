--------------------------- MODULE MCCompletionAudit ---------------------------
(***************************************************************************)
(* A small instance: a phase with two criteria the build owes, one only an *)
(* independent session may award and one optional; a unit token beside a   *)
(* criterion token; two artifacts; two iterations.                         *)
(***************************************************************************)
EXTENDS CompletionAudit

CONSTANTS impl, rev, opt, unit, guard

MCCriteria == {impl, rev, opt}
MCFamily == [t \in {impl, rev, opt, unit} |-> IF t \in {impl, rev} THEN "CP" ELSE ""]

Asks(accept, complete, build) ==
    [accept |-> accept, complete |-> complete, build |-> build, tokens |-> <<>>, asCriterion |-> {},
     remediate |-> FALSE]

MCTasks ==
    {Asks("asked", "silent", "silent"), Asks("silent", "asked", "silent"),
     [Asks("denied", "silent", "silent") EXCEPT !.tokens = <<rev, unit>>],
     [Asks("silent", "silent", "asked") EXCEPT !.tokens = <<rev>>],
     [Asks("denied", "silent", "silent") EXCEPT !.remediate = TRUE],
     [Asks("silent", "silent", "silent") EXCEPT !.tokens = <<unit>>, !.asCriterion = {unit}]}

Unreceipted == [k \in ReceiptKinds |-> [state |-> "absent", commit |-> 0]]

Early ==
    [status |-> "READY", passed |-> {}, passedAtStart |-> {}, recorded |-> [c \in {impl} |-> {}],
     files |-> {}, landed |-> 0, receipts |-> Unreceipted, rules |-> {"INDEPENDENT_REVIEW"},
     documents |-> {}, faults |-> {}, percent |-> 0, head |-> 1, tree |-> 1, dirty |-> FALSE]

\* All but the review is recorded; the repository still states its gates, and an old suite failed.
Late ==
    [Early EXCEPT !.passed = {impl, opt}, !.passedAtStart = {impl, opt}, !.recorded[impl] = {guard},
                  !.files = {guard}, !.landed = 1, !.percent = 2,
                  !.rules = {"INDEPENDENT_REVIEW", "CANONICAL_SUITE_GATE"},
                  !.documents = {"implementer"},
                  !.receipts["suite"] = [state |-> "passed", commit |-> 0]]

\* Status documents that run ahead of the registry, in a repository that asks for no review.
Ahead ==
    [Early EXCEPT !.passed = {impl}, !.passedAtStart = {impl}, !.files = {guard}, !.landed = 1,
                  !.percent = 2, !.rules = {}, !.faults = {"prose says COMPLETE", "limitation erased"}]

MCRepositories == {Early, Late, Ahead}

Says(claim) == [claim |-> claim, mood |-> "asserted"]
Silent == [sentences |-> {}, cites |-> {}, paths |-> {}, unbuilt |-> {}, targeted |-> FALSE]
MCReports ==
    {Silent,
     [Silent EXCEPT !.cites = {[criterion |-> impl, locator |-> guard]}],
     [Silent EXCEPT !.unbuilt = {impl}, !.cites = {[criterion |-> impl, locator |-> guard]}],
     [Silent EXCEPT !.sentences = {Says("PHASE_COMPLETE")}, !.paths = {guard}],
     [Silent EXCEPT !.sentences = {Says("FULL_SUITE_PASSED")}],
     [Silent EXCEPT !.sentences = {Says("FULL_SUITE_PASSED"), Says("INDEPENDENT_REVIEW")}, !.targeted = TRUE],
     [Silent EXCEPT !.sentences = {Says("CRITERION_PASS"), [claim |-> "PHASE_COMPLETE", mood |-> "conditional"],
                                   [claim |-> "PROGRESS_PERCENT", mood |-> "conditional"]}]}
=============================================================================
