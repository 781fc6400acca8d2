------------------------- MODULE ScenarioExecution -------------------------
(***************************************************************************)
(* How a scenario is built, executed and judged, and how the suite turns   *)
(* the execution into outcomes the gate may rely on                        *)
(* (neyma_product_driver/scenario_plan.py, scenarios.py, runner.py,        *)
(* outcome_contract.py, scenario_suite.py).                                *)
(*                                                                         *)
(* A world says how the product answers one execution.  It has one answer  *)
(* for each operation of a scenario, by position; texts are what is        *)
(* printed, shown or served, and an expectation is a set of texts.  What   *)
(* the operators compute is what the code concludes; Measures, at the end, *)
(* says of the same world what was there to conclude.                      *)
(***************************************************************************)
EXTENDS ScenarioGate, Integers

NeverRan == {126, 127}       \* _SHELL_NEVER_RAN

AllPassed(assertions) == FALSE \notin assertions
(* What a set of expectations asserts of what was printed.                 *)
Occurs(t, printed) == t \in printed
Printed(texts, printed) == {Occurs(t, printed) : t \in texts}
Absent(texts, printed) == {~Occurs(t, printed) : t \in texts}

-----------------------------------------------------------------------------
(***************************************************************************)
(* Processes, services and requests.                                       *)
(***************************************************************************)

(* ProcessRunner.run: a command exits, is killed at its deadline with what *)
(* it had printed, or cannot be launched.                                  *)
RunCommand(answer) ==
  [exit |-> IF answer.end = "exits" THEN answer.code ELSE None,
   timedOut |-> answer.end = "times_out",
   prints |-> IF answer.end = "not_launched" THEN {} ELSE answer.prints,
   signature |-> answer.end # "not_launched" /\ answer.signature]

Ok(r) == r.exit = 0 /\ ~r.timedOut

(* run_all: nothing runs after a command that did not succeed.             *)
RunAll(answers) ==
  LET bad == {i \in DOMAIN answers : ~Ok(RunCommand(answers[i]))}
      last == IF bad = {} THEN Len(answers)
              ELSE CHOOSE i \in bad : \A j \in bad : i <= j
  IN [ok |-> bad = {}, prints |-> UNION {RunCommand(answers[i]).prints : i \in 1..last}]

(* http_request: a status the server chose, an error status included, or   *)
(* none.                                                                   *)
HttpRequest(answer) ==
  IF answer.answered THEN [status |-> answer.status, body |-> answer.prints]
  ELSE [status |-> None, body |-> {}]

(* wait_for_readiness: every check holds in one poll before the deadline;  *)
(* a poll is the set of the checks that hold in it.                        *)
Ready(checks, polls) == checks = {} \/ \E i \in DOMAIN polls : checks \subseteq polls[i]

-----------------------------------------------------------------------------
(***************************************************************************)
(* The outcome contract of a command.                                      *)
(***************************************************************************)
InfrastructureProblem(r) ==
  \/ r.timedOut
  \/ r.exit = None
  \/ r.exit \in NeverRan
  \/ r.exit # 0 /\ r.signature

(* classify: the product's own refusal text outranks a signature.          *)
Classify(r, evidence) ==
  IF Ok(r) THEN "permitted"
  ELSE IF r.exit # None /\ evidence # {} /\ evidence \subseteq r.prints THEN "refused"
  ELSE IF InfrastructureProblem(r) THEN "infrastructure_failure"
  ELSE "unexpected_failure"

JudgeCommand(op, r) ==
  LET actual == Classify(r, op.refusal)
  IN /\ actual = op.outcome
     /\ op.outcome = "refused" => op.exit \in {None, 0, r.exit}

-----------------------------------------------------------------------------
(***************************************************************************)
(* A scenario.  The phase form is the ordered form with its phases in      *)
(* their fixed order, except for a browser that is disabled.               *)
(***************************************************************************)
Operations(s) ==
  IF s.steps # <<>> THEN s.steps
  ELSE s.commands \o s.requests
       \o (IF s.mode = "browser" THEN <<s.browser>> ELSE <<>>) \o s.states

IsCheck(op) == op.kind \in {"command", "state_check"}

CheckNames(s) ==
  LET ops == Operations(s)
  IN {ops[i].name : i \in {j \in DOMAIN ops : IsCheck(ops[j]) /\ ops[j].name # None}}

(* What loading a scenario refuses: two execution shapes, a claim without  *)
(* an oracle, one that names no check of the scenario, one whose text is   *)
(* declared by other checks only.                                          *)
Declares(s, text) ==
  LET ops == Operations(s)
  IN {ops[i].name : i \in {j \in DOMAIN ops : /\ IsCheck(ops[j])
                                              /\ ops[j].name # None
                                              /\ text \in ops[j].contains}}

Loadable(s) ==
  /\ s.steps # <<>> =>
       s.commands = <<>> /\ s.requests = <<>> /\ s.browser = None /\ s.states = <<>>
  /\ \A c \in s.verifies :
       /\ c.checks # {} \/ c.observations # {}
       /\ c.checks \subseteq CheckNames(s)
       /\ c.checks # {} =>
            \A t \in c.observations :
              Declares(s, t) = {} \/ Declares(s, t) \intersect c.checks # {}

(* ScenarioResult, before anything has been observed.  checks and outputs  *)
(* are what _record_check remembers by name.                               *)
Unobserved ==
  [error |-> FALSE, ready |-> TRUE, asserts |-> {}, seen |-> {}, browser |-> None,
   infrastructure |-> FALSE, fixtures |-> {}, checks |-> <<>>, outputs |-> <<>>,
   claims |-> {}]

Asserted(result, found) == [result EXCEPT !.asserts = @ \union found]
Seeing(result, shown) == [result EXCEPT !.seen = @ \union shown]

(* A faulty variant: a check of which nothing was asserted has passed.     *)
RecordVacuous(result, name, produced, printed) ==
  LET before == name \notin DOMAIN result.checks \/ result.checks[name]
      names == DOMAIN result.checks \union {name}
  IN IF name = None THEN result
     ELSE [result EXCEPT
             !.checks = [n \in names |-> IF n = name THEN before /\ AllPassed(produced)
                                         ELSE result.checks[n]],
             !.outputs = [n \in names |->
                            (IF n = name THEN printed ELSE {}) \union
                            (IF n \in DOMAIN result.outputs THEN result.outputs[n] ELSE {})]]

(* _record_check: something was asserted and all of it passed, in every    *)
(* check of that name.                                                     *)
RecordCheck(result, name, produced, printed) ==
  LET before == name \notin DOMAIN result.checks \/ result.checks[name]
      names == DOMAIN result.checks \union {name}
  IN IF name = None THEN result
     ELSE [result EXCEPT
             !.checks = [n \in names |->
                           IF n = name
                           THEN before /\ produced # {} /\ AllPassed(produced)
                           ELSE result.checks[n]],
             !.outputs = [n \in names |->
                            (IF n = name THEN printed ELSE {}) \union
                            (IF n \in DOMAIN result.outputs THEN result.outputs[n] ELSE {})]]

(* _substitution_problem: a fixture that was written changes the command,  *)
(* and what it became is not approved.                                     *)
Refused(result, op) ==
  op.placeholders \intersect result.fixtures # {} /\ ~op.expandsApproved

(* _do_command *)
DoCommand(result, op, answer) ==
  LET r == RunCommand(answer)
      contract == op.outcome # None
      produced == (IF contract THEN {JudgeCommand(op, r)}
                   ELSE IF op.exit # None THEN {r.exit = op.exit} ELSE {})
                  \union Printed(op.contains, r.prints)
      judged == Seeing(Asserted(result, produced), r.prints)
      broken == contract /\ Classify(r, op.refusal) = "infrastructure_failure"
  IN IF Refused(result, op) THEN Asserted(result, {FALSE})
     ELSE RecordCheck(IF broken THEN [judged EXCEPT !.infrastructure = TRUE] ELSE judged,
                      op.name, produced, r.prints)

(* _do_state_check: the texts alone, whatever the exit status.             *)
DoStateCheck(result, op, answer) ==
  LET r == RunCommand(answer)
      produced == Printed(op.contains, r.prints) \union Absent(op.notContains, r.prints)
  IN IF Refused(result, op) THEN Asserted(result, {FALSE})
     ELSE RecordCheck(Seeing(Asserted(result, produced), r.prints),
                      op.name, produced, r.prints)

(* _assert_request, and what a request, or several issued together, do.    *)
AssertRequest(op, http) ==
  (IF op.status # None THEN {http.status = op.status} ELSE {})
  \union Printed(op.contains, http.body)

DoRequest(result, op, answer) ==
  LET http == HttpRequest(answer)
  IN Seeing(Asserted(result, AssertRequest(op, http)), http.body)

DoRequests(result, op, answers) ==
  LET ks == DOMAIN op.requests
      found == UNION {AssertRequest(op.requests[k], HttpRequest(answers[k])) : k \in ks}
  IN Seeing(Asserted(result, found), UNION {HttpRequest(answers[k]).body : k \in ks})

(* _run_browser and _run_step: one session.  A navigation that raises ends *)
(* it before its steps; a step that raises does not.                       *)
RunBrowser(op, url, answer) ==
  LET opened == url # None /\ answer.opens
      steps == IF url # None /\ ~answer.opens THEN {} ELSE DOMAIN op.steps
      done == steps \ answer.raises
      visited == {i \in done : op.steps[i].goto}
  IN IF ~answer.installed
     THEN [loaded |-> FALSE, failed |-> TRUE, found |-> {}, shown |-> {}]
     ELSE [loaded |-> opened \/ visited # {},
           failed |-> (url # None /\ ~answer.opens) \/ steps # done \/ ~answer.closes,
           found |-> {Occurs(op.steps[i].text, answer.pages[i]) :
                        i \in {j \in done : op.steps[j].text # None}},
           shown |-> answer.console \union
                     UNION {answer.pages[i] :
                              i \in visited \union (IF opened THEN {0} ELSE {})
                                    \union (IF steps # {} /\ answer.closes
                                            THEN {Len(op.steps)} ELSE {})}]

(* _assert_browser_text and _merge_browser: below everything a session     *)
(* asserts, that a page was loaded.                                        *)
DoBrowser(result, op, url, answer) ==
  LET session == RunBrowser(op, url, answer)
      found == (IF session.loaded THEN {} ELSE {FALSE})
               \union (IF session.failed THEN {FALSE} ELSE {}) \union session.found
  IN [Seeing(Asserted(result, found), session.shown)
        EXCEPT !.browser = IF @ = "loaded" \/ session.loaded THEN "loaded" ELSE "no page"]

(* _do_service_step: only a service the scenario declares, and one that is *)
(* started again is ready again.                                           *)
DoService(result, s, op, answer) ==
  LET again == op.kind = "stop_service" \/ Ready(s.readiness, answer.polls)
  IN Asserted(result, {op.service \in s.services /\ again})

DoFixture(result, op, answer) ==
  IF answer.written THEN [result EXCEPT !.fixtures = @ \union {op.fixture}]
  ELSE Asserted(result, {FALSE})

(* One operation.                                                          *)
Perform(s, world, browsers, result, i) ==
  LET op == Operations(s)[i]
      answer == world.answers[i]
  IN CASE op.kind = "command" -> DoCommand(result, op, answer)
       [] op.kind = "state_check" -> DoStateCheck(result, op, answer)
       [] op.kind = "request" -> DoRequest(result, op, answer)
       [] op.kind = "parallel_requests" -> DoRequests(result, op, answer)
       [] op.kind = "browser" /\ browsers -> DoBrowser(result, op, s.url, answer)
       [] op.kind = "browser" /\ ~browsers -> Asserted(result, {FALSE})
       [] op.kind = "fixture" -> DoFixture(result, op, answer)
       [] op.kind = "wait" -> result
       [] OTHER -> DoService(result, s, op, answer)

(* The result after each operation; the first is what the setup left.      *)
Performed(s, world, browsers, begun) ==
  LET upTo[n \in 0..Len(Operations(s))] ==
        IF n = 0 THEN begun ELSE Perform(s, world, browsers, upTo[n - 1], n)
  IN upTo

(* _resolve_risk_claims: each named check ran and passed, and the claim's  *)
(* texts are in what those checks printed, or in anything observed when it *)
(* names none.                                                             *)
ClaimEstablished(claim, result) ==
  /\ \A n \in claim.checks : n \in DOMAIN result.checks /\ result.checks[n]
  /\ claim.observations \subseteq
       (IF claim.checks = {} THEN result.seen
        ELSE UNION {result.outputs[n] : n \in claim.checks \intersect DOMAIN result.outputs})

(* The expectations of the whole scenario, then its claims.                *)
Concluded(s, result) ==
  [Asserted(result, Printed(s.visible, result.seen) \union Absent(s.forbidden, result.seen))
     EXCEPT !.claims = {[category |-> c.category,
                         established |-> ClaimEstablished(c, result)] : c \in s.verifies}]

(* Where the operations end early: at one that raises, and in the phase    *)
(* form at a browser that is disabled.                                     *)
Interrupted(s, world, browsers) ==
  {i \in DOMAIN Operations(s) :
     \/ i \in world.raises
     \/ s.steps = <<>> /\ Operations(s)[i].kind = "browser" /\ ~browsers}

(* ScenarioExecutor.execute *)
Execute(s, world, browsers) ==
  LET setup == RunAll(world.setup)
      begun == [Unobserved EXCEPT !.seen = setup.prints,
                                  !.asserts = Printed(s.files, world.files)]
      ready == Ready(s.readiness, world.polls) /\ world.died \intersect s.services = {}
      stops == Interrupted(s, world, browsers)
      last == IF stops = {} THEN Len(Operations(s))
              ELSE (CHOOSE i \in stops : \A j \in stops : i <= j) - 1
      operated == Performed(s, world, browsers, begun)[last]
  IN IF ~setup.ok THEN [Unobserved EXCEPT !.error = TRUE, !.seen = setup.prints]
     ELSE IF (s.services # {} \/ s.readiness # {}) /\ ~ready
     THEN [begun EXCEPT !.error = TRUE, !.ready = FALSE]
     ELSE IF stops # {} THEN [operated EXCEPT !.error = TRUE]
     ELSE Concluded(s, operated)

(* ScenarioResult.passed *)
ScenarioPassed(result) == ~result.error /\ result.ready /\ AllPassed(result.asserts)

NeverObserved(result) ==
  \/ ~result.ready
  \/ result.error /\ result.asserts = {}
  \/ result.browser = "no page"
  \/ result.infrastructure

Verdict(result) ==
  IF NeverObserved(result) THEN "BLOCKED"
  ELSE IF ScenarioPassed(result) THEN "PASSED" ELSE "FAILED"

-----------------------------------------------------------------------------
(***************************************************************************)
(* A generated scenario is compiled against the base scenario, which       *)
(* supplies what it may not invent, and the commands that were approved.   *)
(***************************************************************************)
GeneratedCommands(g) ==
  g.setup \union {g.actions[i].run :
                    i \in {j \in DOMAIN g.actions : IsCheck(g.actions[j])}}
          \union {g.states[i].run : i \in DOMAIN g.states}

AddressesProduct(g) ==
  \/ g.mode = "browser"
  \/ \E i \in DOMAIN g.actions :
       g.actions[i].kind \in {"request", "parallel_requests", "browser"}

(* has_observable_outcome: validation admits nothing that cannot be judged. *)
Observable(g) ==
  \/ g.visible # {} \/ g.forbidden # {} \/ g.states # <<>>
  \/ \E i \in DOMAIN g.actions :
       LET a == g.actions[i]
       IN CASE a.kind = "command" -> a.contains # {} \/ a.exit # None \/ a.outcome # None
            [] a.kind = "state_check" -> a.contains # {} \/ a.notContains # {}
            [] a.kind = "request" -> a.status # None \/ a.contains # {}
            [] a.kind = "parallel_requests" ->
                 \E k \in DOMAIN a.requests : \/ a.requests[k].status # None
                                              \/ a.requests[k].contains # {}
            [] a.kind = "browser" -> \E k \in DOMAIN a.steps : a.steps[k].text # None
            [] OTHER -> FALSE

(* compile_to_scenario refuses, rather than runs, what was not approved.   *)
Compiles(g, base, approved) ==
  /\ GeneratedCommands(g) \subseteq approved
  /\ g.services \subseteq base.services

Compiled(g, base) ==
  LET services == IF g.services = {} /\ AddressesProduct(g) THEN base.services
                  ELSE g.services
  IN [steps |-> g.actions \o g.states, commands |-> <<>>, requests |-> <<>>,
      browser |-> None, states |-> <<>>, mode |-> g.mode, url |-> base.url,
      services |-> services, readiness |-> IF services = {} THEN {} ELSE base.readiness,
      files |-> {}, visible |-> g.visible, forbidden |-> g.forbidden, verifies |-> {}]

-----------------------------------------------------------------------------
(***************************************************************************)
(* The suite.  A key is an identity as the filesystem compares it; a rank  *)
(* is a priority, 0 the highest, and the first two hold the run.           *)
(***************************************************************************)
SuiteEntry(id, key, origin, scenario, rank, category, required) ==
  [id |-> id, key |-> key, permanent |-> origin = "permanent", scenario |-> scenario,
   rank |-> rank, category |-> category, required |-> required]

PermanentEntry(p) == SuiteEntry(p.id, p.key, "permanent", p.scenario, 0, None, TRUE)

GeneratedEntry(g, base) ==
  SuiteEntry(g.id, g.key, "generated", Compiled(g, base), g.rank, g.category,
             g.rank < 2 \/ g.replaces)

(* admit: an identity that is taken is a conflict, never an entry.         *)
Admit(suite, entry) ==
  IF \E i \in DOMAIN suite.entries : suite.entries[i].key = entry.key
  THEN [suite EXCEPT !.conflict = TRUE]
  ELSE [suite EXCEPT !.entries = Append(@, entry)]

(* build_suite: what the plan owes and cannot be built is a conflict too.  *)
Built(permanent, plan, base, approved) ==
  LET p == Len(permanent)
      upTo[n \in 0..(p + Len(plan))] ==
        IF n = 0 THEN [entries |-> <<>>, conflict |-> FALSE]
        ELSE IF n <= p THEN Admit(upTo[n - 1], PermanentEntry(permanent[n]))
        ELSE IF Compiles(plan[n - p], base, approved)
        THEN Admit(upTo[n - 1], GeneratedEntry(plan[n - p], base))
        ELSE [upTo[n - 1] EXCEPT !.conflict = TRUE]
  IN upTo

BuildSuite(permanent, plan, base, approved) ==
  Built(permanent, plan, base, approved)[Len(permanent) + Len(plan)]

(* execution_order; the order of the entries stands for that of their ids. *)
Before(suite, i, j) ==
  LET a == suite.entries[i]
      b == suite.entries[j]
  IN IF a.rank # b.rank THEN a.rank < b.rank
     ELSE IF a.permanent # b.permanent THEN a.permanent ELSE i < j

FirstOf(suite, left) ==
  CHOOSE i \in left : \A j \in left \ {i} : Before(suite, i, j)

(* An outcome as the gate reads it.  measures is what the world showed.    *)
CaseOutcome(entry, result, verified, measures) ==
  [id |-> entry.id,
   result |-> IF Verdict(result) = "PASSED" /\ ~verified THEN "BLOCKED" ELSE Verdict(result),
   verified |-> verified, category |-> entry.category,
   claims |-> IF entry.permanent THEN {c.category : c \in result.claims} ELSE {},
   held |-> IF entry.permanent
            THEN {c.category : c \in {x \in result.claims : x.established}} ELSE {},
   measures |-> measures]

NotRun(entry, what) ==
  [id |-> entry.id, result |-> what, verified |-> FALSE, category |-> entry.category,
   claims |-> {}, held |-> {}, measures |-> {}]

-----------------------------------------------------------------------------
(***************************************************************************)
(* What the world showed, whatever the code made of it.                    *)
(***************************************************************************)

(* The fixtures an execution has when it comes to operation i.             *)
Standing(s, i) ==
  LET ops == Operations(s)
  IN {ops[j].fixture : j \in {k \in 1..(i - 1) : ops[k].kind = "fixture"}}

(* A check asks something of the product.                                  *)
Asks(op) ==
  IF op.kind = "command" THEN op.outcome # None \/ op.exit # None \/ op.contains # {}
  ELSE op.contains \union op.notContains # {}

(* What was run is the command that was approved, and it did what it was   *)
(* asked to.                                                               *)
Approvable(s, i) ==
  LET op == Operations(s)[i]
  IN op.placeholders \intersect Standing(s, i) = {} \/ op.expandsApproved

CommandAnswers(op, answer) ==
  LET exits == answer.end = "exits"
  IN /\ op.outcome # None =>
          /\ op.outcome = "permitted" => exits /\ answer.code = 0
          /\ op.outcome = "refused" => /\ exits /\ answer.code # 0
                                      /\ op.refusal # {} /\ op.refusal \subseteq answer.prints
                                      /\ op.exit \in {None, 0, answer.code}
     /\ op.outcome = None /\ op.exit # None => exits /\ answer.code = op.exit
     /\ op.contains # {} => answer.end # "not_launched"
     /\ op.contains \subseteq answer.prints

StateAnswers(op, answer) ==
  /\ op.contains # {} => answer.end # "not_launched"
  /\ op.contains \subseteq answer.prints
  /\ op.notContains \intersect RunCommand(answer).prints = {}

RequestAnswers(op, answer) ==
  /\ op.status # None => answer.answered /\ answer.status = op.status
  /\ op.contains # {} => answer.answered /\ op.contains \subseteq answer.prints

(* A session shows the page it opens with, those it goes to, and its last. *)
Pages(op, url) ==
  {k \in DOMAIN op.steps : op.steps[k].goto}
  \union (IF url # None THEN {0} ELSE {})
  \union (IF DOMAIN op.steps # {} THEN {Len(op.steps)} ELSE {})

BrowserAnswers(op, url, answer) ==
  /\ answer.installed /\ answer.closes
  /\ url # None => answer.opens
  /\ url # None \/ \E k \in DOMAIN op.steps : op.steps[k].goto
  /\ DOMAIN op.steps \intersect answer.raises = {}
  /\ \A k \in DOMAIN op.steps :
       op.steps[k].text # None => op.steps[k].text \in answer.pages[k]

(* The product answered operation i in everything it asks.                 *)
Answers(s, i, answer) ==
  LET op == Operations(s)[i]
  IN CASE op.kind = "command" -> Approvable(s, i) /\ CommandAnswers(op, answer)
       [] op.kind = "state_check" -> Approvable(s, i) /\ StateAnswers(op, answer)
       [] op.kind = "request" -> RequestAnswers(op, answer)
       [] op.kind = "parallel_requests" ->
            \A k \in DOMAIN op.requests : RequestAnswers(op.requests[k], answer[k])
       [] op.kind = "browser" -> BrowserAnswers(op, s.url, answer)
       [] op.kind = "fixture" -> answer.written
       [] op.kind = "wait" -> TRUE
       [] OTHER -> /\ op.service \in s.services
                   /\ op.kind = "stop_service" \/ Ready(s.readiness, answer.polls)

(* And what it printed, served or showed for it.                           *)
Shown(s, i, answer) ==
  LET op == Operations(s)[i]
  IN CASE op.kind \in {"command", "state_check"} -> RunCommand(answer).prints
       [] op.kind = "request" -> HttpRequest(answer).body
       [] op.kind = "parallel_requests" ->
            UNION {HttpRequest(answer[k]).body : k \in DOMAIN op.requests}
       [] op.kind = "browser" ->
            answer.console \union UNION {answer.pages[k] : k \in Pages(op, s.url)}
       [] OTHER -> {}

ShownBy(s, world, is) == UNION {Shown(s, i, world.answers[i]) : i \in is}

(* The scenario was executed to its end, everything it asks was answered,  *)
(* and nothing it forbids was shown.                                       *)
Met(s, world) ==
  LET shown == RunAll(world.setup).prints \union ShownBy(s, world, DOMAIN Operations(s))
  IN /\ RunAll(world.setup).ok
     /\ Ready(s.readiness, world.polls) /\ world.died \intersect s.services = {}
     /\ world.raises \intersect DOMAIN Operations(s) = {}
     /\ s.files \subseteq world.files
     /\ \A i \in DOMAIN Operations(s) : Answers(s, i, world.answers[i])
     /\ s.visible \subseteq shown /\ s.forbidden \intersect shown = {}

(* The checks of a name, and what bears out a claim: every check it names  *)
(* is there and asks something, and they printed what it says, or anything *)
(* did when it names none.                                                 *)
ChecksNamed(s, n) == {i \in DOMAIN Operations(s) : /\ IsCheck(Operations(s)[i])
                                                  /\ Operations(s)[i].name = n}

BornOut(s, world, c) ==
  /\ \A n \in c.checks : /\ ChecksNamed(s, n) # {}
                         /\ \A i \in ChecksNamed(s, n) : Asks(Operations(s)[i])
  /\ c.observations \subseteq
       IF c.checks = {}
       THEN RunAll(world.setup).prints \union ShownBy(s, world, DOMAIN Operations(s))
       ELSE ShownBy(s, world, UNION {ChecksNamed(s, n) : n \in c.checks})

(* The risks a scenario measured: those whose claims were borne out, and   *)
(* the one it was generated for, when everything it asked was answered.    *)
Measures(entry, world) ==
  LET s == entry.scenario
  IN IF ~Met(s, world) THEN {}
     ELSE {c.category : c \in {x \in s.verifies : BornOut(s, world, x)}}
          \union (IF entry.permanent THEN {} ELSE {entry.category})

-----------------------------------------------------------------------------
(***************************************************************************)
(* SuiteExecutor.run.  A suite's world adds, to the world of each          *)
(* scenario, how many may start before the budget is exhausted, whose      *)
(* evidence cannot be written, and the records this run and iteration has  *)
(* already left, by directory.                                             *)
(***************************************************************************)

(* _directory_occupant: another scenario that holds the directory.         *)
Occupant(entry, claimed, records) ==
  IF entry.key \in DOMAIN claimed /\ claimed[entry.key] # entry.id THEN claimed[entry.key]
  ELSE IF entry.key \in DOMAIN records /\ records[entry.key] # entry.id
  THEN records[entry.key] ELSE None

(* verify_case_evidence: the record there is this scenario's.              *)
EvidenceStandsFor(entry, world) ==
  \/ entry.id \notin world.unwritable
  \/ entry.key \in DOMAIN world.records /\ world.records[entry.key] = entry.id

(* The first of two that share a directory cannot show its evidence either. *)
Disown(outcomes, occupant) ==
  {IF x.id = occupant /\ x.verified
   THEN [x EXCEPT !.verified = FALSE,
                  !.result = IF @ = "PASSED" THEN "BLOCKED" ELSE @]
   ELSE x : x \in outcomes}

RunEntry(entry, world, browsers, run) ==
  LET occupant == Occupant(entry, run.claimed, world.records)
      result == Execute(entry.scenario, world.of[entry.id], browsers)
  IN IF run.started >= world.budget \/ (entry.scenario.mode = "browser" /\ ~browsers)
     THEN [run EXCEPT !.outcomes = @ \union {NotRun(entry, "SKIPPED")}]
     ELSE IF occupant # None
     THEN [run EXCEPT !.outcomes = Disown(@, occupant) \union {NotRun(entry, "BLOCKED")},
                      !.problems = TRUE]
     ELSE [run EXCEPT
             !.outcomes = @ \union
               {CaseOutcome(entry, result, EvidenceStandsFor(entry, world),
                            Measures(entry, world.of[entry.id]))},
             !.claimed = [k \in DOMAIN @ \union {entry.key} |->
                            IF k = entry.key THEN entry.id ELSE run.claimed[k]],
             !.started = @ + 1]

(* The run after each entry executed, in the order of execution.           *)
Ran(suite, only, world, browsers) ==
  LET upTo[n \in 0..Len(suite.entries)] ==
        IF n = 0
        THEN [outcomes |-> {}, problems |-> suite.conflict, claimed |-> <<>>, started |-> 0,
              left |-> {i \in DOMAIN suite.entries : suite.entries[i].id \in only}]
        ELSE IF upTo[n - 1].left = {} THEN upTo[n - 1]
        ELSE LET i == FirstOf(suite, upTo[n - 1].left)
             IN RunEntry(suite.entries[i], world, browsers,
                         [upTo[n - 1] EXCEPT !.left = @ \ {i}])
  IN upTo

RunSuite(suite, only, world, browsers) ==
  Ran(suite, only, world, browsers)[Len(suite.entries)]

(* expected_required_ids: the whole suite's, whatever was selected.        *)
RequiredIds(suite) ==
  {suite.entries[i].id : i \in {j \in DOMAIN suite.entries : suite.entries[j].required}}
=============================================================================
