-------------------------- MODULE ScenarioProposal --------------------------
(***************************************************************************)
(* What a wave asks of a proposal before it is admitted                    *)
(* (neyma_product_driver/scenario_validation.py): that it is safe to run,  *)
(* worth running, and can say why it exists.                               *)
(*                                                                         *)
(* Beside its command a body performs further acts: it asks the product    *)
(* over HTTP, drives a browser, operates a service, writes a fixture or    *)
(* waits.  A target is what its text begins with and the host it names.    *)
(* The context is what the run knows when the wave is judged: the scenario *)
(* files, the risks of its register, the failures it has observed, what it *)
(* holds, and the situations and the identities already taken.             *)
(***************************************************************************)
EXTENDS ScenarioValidation

CONSTANTS
  LocalHosts,      \* config.local_http_hosts
  Requirements,    \* what the active unit and its criteria ground
  Principles       \* the categories of the founder's rubric

(* EFFECT_FAMILY: claims that an effect durably happened, or did not.      *)
EffectFamily ==
  {"idempotency", "partial_failure", "timeout_after_effect",
   "ambiguous_external_effect", "retry_safety", "persistence_failure",
   "restart_recovery", "crash_mid_workflow", "unexpected_state_transition"}

-----------------------------------------------------------------------------
(***************************************************************************)
(* Targets.  Forms: "http" an absolute http(s) url, "scheme" any other, or *)
(* a scheme without an authority, "double" two leading slashes, "path" one,*)
(* "bare" none, and "control" whatever holds a control character.          *)
(***************************************************************************)
Target(form, host) == [form |-> form, host |-> host]
Nowhere == Target("none", "")

(* _local_url_problem *)
IsLocal(target) == target.form = "http" /\ target.host \in LocalHosts

(* resolve_http_target: where a request would go, or nowhere.              *)
HttpTarget(app, url, path) ==
  IF url # Nowhere
  THEN IF path = Nowhere /\ IsLocal(url) THEN url ELSE Nowhere
  ELSE IF path.form \in {"path", "bare"} /\ IsLocal(app) THEN app ELSE Nowhere

(* resolve_browser_target, and the loopback question asked of its answer.  *)
BrowserTarget(app, goto) ==
  IF goto.form = "http" THEN goto
  ELSE IF goto.form = "path" THEN app ELSE Nowhere

-----------------------------------------------------------------------------
(* _check_safety: one requirement for each kind of act.                    *)
SafeAct(repo, services, act) ==
  /\ act.kind = "request" => HttpTarget(repo.app, act.url, act.path) # Nowhere
  /\ act.kind = "browser" => IsLocal(BrowserTarget(repo.app, act.goto))
  /\ act.kind = "service" => act.service \in services
  /\ act.kind = "fixture" => act.file = "data"
  /\ act.kind = "wait" => act.bounded

(* Whatever could hold a path, a host or a credential names neither a      *)
(* secret nor the repository's authority.                                  *)
Harmless(c) == c.mentions = {}

Safe(repo, c) ==
  /\ Approves(repo, c.body.run)
  /\ Harmless(c)
  /\ c.body.services \subseteq repo.services
  /\ \A act \in c.body.acts : SafeAct(repo, c.body.services, act)

-----------------------------------------------------------------------------
(* coverage_signature: what is exercised and what is expected of it, for a *)
(* generated scenario and for one a human wrote.                           *)
Situation(run, acts, observes, inspects) == <<run, acts, observes, inspects>>
Signature(body) == Situation(body.run, body.acts, body.observes, body.inspects)
PermanentSignatures(repo) ==
  {Situation(s.run, {}, s.visible, s.inspects) : s \in repo.scenarios}

(* has_observable_outcome *)
Observable(body) ==
  \/ body.observes # {} \/ body.inspects
  \/ body.expects # {} \/ body.exit # NoExit \/ body.outcome # "none"

(* grounding_tokens_from, principle_tokens_from                            *)
Grounded(c) == c.requirement \in Requirements /\ c.principle \in Principles

(* A regression scenario guards behaviour inside the task: changed, once   *)
(* failed, a registered risk, or the obligation of a scenario it replaces. *)
InScope(context, c) ==
  \/ c.scoped
  \/ context.stage = "diff_refinement"
  \/ context.stage = "coverage_gap" /\ c.cites \intersect context.risks # {}
  \/ /\ context.stage = "rederivation"
     /\ c.replaces # {} /\ c.replaces \subseteq context.held

(* _check_quality.  A command may always leave something behind.           *)
Worthwhile(context, c, category) ==
  /\ Grounded(c)
  /\ Observable(c.body)
  /\ category \in EffectFamily => c.body.inspects
  /\ Coherent(context.repo, c.body)
  /\ c.restores
  /\ Signature(c.body) \notin context.signatures
  /\ c.id \notin context.ids
  /\ category = "regression" => InScope(context, c)

(* _check_provenance: a scenario for a gap names the risk it closes, one   *)
(* for a failure names the failure.  Where no failure is known by name,    *)
(* any name will do.                                                       *)
Cited(cited, known) == cited # {} /\ (known = {} \/ cited \subseteq known)

Explained(context, c) ==
  /\ c.because
  /\ context.stage = "coverage_gap" => Cited(c.cites, context.risks)
  /\ context.stage = "adaptive" => Cited(c.answers, context.failures)

(* validate_scenario *)
Sound(context, c, category) ==
  /\ Safe(context.repo, c)
  /\ ~Misjudged(context.repo, c.body, category)
  /\ Worthwhile(context, c, category)
  /\ Explained(context, c)

(* What has been accepted of the batch is taken for the rest of it.        *)
Taken(context, c) ==
  [context EXCEPT !.signatures = @ \union {Signature(c.body)},
                  !.ids = @ \union {c.id}]

(* validate_plan: the candidates that are eligible, in their order.        *)
WithNext(so, c, eligible, categories) ==
  IF c \in eligible /\ Sound(so.context, c, categories[c.id])
  THEN [context |-> Taken(so.context, c), accepted |-> Append(so.accepted, c)]
  ELSE so

Accepting(context, candidates, eligible, categories) ==
  LET upTo[n \in 0..Len(candidates)] ==
        IF n = 0 THEN [context |-> context, accepted |-> <<>>]
        ELSE WithNext(upTo[n - 1], candidates[n], eligible, categories)
  IN upTo

Accepted(context, candidates, eligible, categories) ==
  Accepting(context, candidates, eligible, categories)[Len(candidates)].accepted
=============================================================================
