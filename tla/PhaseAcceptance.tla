-------------------------- MODULE PhaseAcceptance --------------------------
(***************************************************************************)
(* What phase acceptance decides from a criterion set, an evidence map and *)
(* a finding, without any controller (neyma_product_driver/                *)
(* phase_acceptance.py, criterion_kinds.py).  The criteria are names; what *)
(* a criterion's words make of it (a gate's, or an ordinary one) is given. *)
(*                                                                         *)
(* Module PhaseClosure drives these rules through an attempt.              *)
(***************************************************************************)
EXTENDS Naturals, FiniteSets

CONSTANTS
  Ordinary,       \* criteria an adjudication scores
  ExternalOnes,   \* criteria an external verifier settles
  ReviewOnes,     \* criteria that demand a review by a non-builder
  ResidualOnes,   \* criteria the residual ledger settles
  Required,       \* the criteria that are required
  StaleVerificationBlocks, \* configuration: stale verification may block
  None

Criteria == Ordinary \union ExternalOnes \union ReviewOnes \union ResidualOnes

(* The criteria a structural gate owns.  The kinds are read from the       *)
(* identifiers, the external kind first.                                   *)
GateOwned == Criteria \ Ordinary

ASSUME CriteriaAssumption ==
  /\ Ordinary \intersect (ExternalOnes \union ReviewOnes \union ResidualOnes) = {}
  /\ Required \subseteq Criteria
  /\ StaleVerificationBlocks \in BOOLEAN

Verdicts == {"PASS", "FAIL", "CANNOT_DETERMINE"}

-----------------------------------------------------------------------------
(***************************************************************************)
(* Evidence.  A citation is the repository's own sentence, which nobody    *)
(* can run; every other kind could have come out the other way.            *)
(***************************************************************************)
Falsifiable(ref) == ref.kind # "CITATION"

Counts(ref) == /\ ref.observed
               /\ ref.established
               /\ Falsifiable(ref)
               /\ ~ref.stale

Of(refs, c) == {r \in refs : r.criterion = c}

(* EvidenceMap.status_for *)
StatusFor(refs, c) ==
  LET mine == Of(refs, c)
      live == {r \in mine : ~r.stale}
  IN IF mine = {} THEN "MISSING"
     ELSE IF live = {} THEN "STALE"
     ELSE IF \E r \in live : Counts(r) THEN "ESTABLISHED"
     ELSE IF \E r \in live : r.observed /\ Falsifiable(r) THEN "REFUTED"
     ELSE IF \E r \in live : r.observed THEN "VACUOUS" ELSE "UNOBSERVED"

(* What a reference declares it depends on.  Only an artifact has a path.  *)
DependsOn(ref) == IF ref.kind = "TEST" THEN {"test"} ELSE {}

(* Whether invalidate_for_tree retires a reference: it was observed        *)
(* elsewhere, and it declares nothing or what it declares changed.         *)
Retires(ref, tree, changed) ==
  /\ ~ref.stale
  /\ ref.tree # tree
  /\ DependsOn(ref) # {} => DependsOn(ref) \intersect changed # {}

InvalidateForTree(refs, tree, changed) ==
  {[r EXCEPT !.stale = @ \/ Retires(r, tree, changed)] : r \in refs}

-----------------------------------------------------------------------------
(***************************************************************************)
(* Findings.                                                               *)
(***************************************************************************)
FalsifyingClasses == {"PRODUCT_DEFECT", "RUNTIME_SAFETY_DEFECT"}

RepairLayerFor(class) ==
  CASE class \in FalsifyingClasses -> "PRODUCT_BUILDER"
    [] class = "AUTHORITY_GAP" -> "FOUNDER_DECISION"
    [] class \in {"VERIFICATION_GAP", "STALE_VERIFICATION", "EVIDENCE_GAP"}
         -> "PRODUCT_VERIFICATION"
    [] class = "HARNESS_DEFECT" -> "PRODUCT_DRIVER"
    [] class = "CI_INFRASTRUCTURE_DEFECT" -> "CI_INFRASTRUCTURE"
    [] OTHER -> "RECORD_ONLY"

(* The criteria a finding claims are false: required, named and not        *)
(* exempted by the finding itself, unless the adjudication failed them.    *)
Claimed(f, scores) ==
  {c \in f.criteria \intersect Required :
     c \in f.exempts => (scores # None /\ scores[c] = "FAIL")}

CanFalsify(f) ==
  \/ f.class \in FalsifyingClasses
  \/ f.class = "STALE_VERIFICATION" /\ StaleVerificationBlocks

(* A faulty variant, for the checks of the properties: the score is        *)
(* believed and the finding is discarded.                                  *)
ScoreOutranks(claimed, scores) ==
  IF scores # None /\ \E c \in claimed : scores[c] = "PASS"
  THEN "NONBLOCKING" ELSE "BLOCKING"

AgainstScores(claimed, scores) ==
  IF scores # None /\ \E c \in claimed : scores[c] = "PASS"
  THEN "ADJUDICATION_INCONSISTENT" ELSE "BLOCKING"

(* finding_disposition *)
Disposition(f, scores) ==
  IF f.demonstrated /\ CanFalsify(f) /\ Claimed(f, scores) # {}
  THEN AgainstScores(Claimed(f, scores), scores)
  ELSE "NONBLOCKING"

ClassifyAndRoute(f, scores) ==
  [f EXCEPT !.blocks = Disposition(f, scores) = "BLOCKING",
            !.inconsistent =
               Disposition(f, scores) = "ADJUDICATION_INCONSISTENT"]

(* Who repairs a finding; nobody knows while it contradicts its            *)
(* adjudication (the repair layer classify_and_route leaves behind).       *)
RoutedTo(f) ==
  IF f.inconsistent THEN "INDEPENDENT_ADJUDICATION"
  ELSE RepairLayerFor(f.class)

(* Re-observing a finding that is recorded neither duplicates it nor       *)
(* downgrades it.  A statement made about a later response is live again.  *)
MergeFinding(old, new) ==
  LET remade == new.about # None /\ new.about # old.about
  IN [old EXCEPT !.blocks = @ \/ new.blocks,
                 !.inconsistent = @ \/ new.inconsistent,
                 !.about = IF remade THEN new.about ELSE @,
                 !.live = @ \/ remade]

(* _add_finding, for a set of findings with different identifiers.         *)
AddFindings(recorded, new, scores) ==
  LET classified == {ClassifyAndRoute(f, scores) : f \in new}
      known == {f.id : f \in recorded}
  IN {IF \E n \in classified : n.id = f.id
      THEN MergeFinding(f, CHOOSE n \in classified : n.id = f.id) ELSE f :
        f \in recorded}
     \union {n \in classified : n.id \notin known}

(* _reclassify_findings: a finding may gain a contradiction and may not    *)
(* lose a block.                                                           *)
Reclassify(recorded, scores) ==
  {LET g == ClassifyAndRoute(f, scores)
   IN [g EXCEPT !.blocks = @ \/ (f.blocks /\ ~g.inconsistent)] :
     f \in recorded}

(* _rederive_findings: the whole rule again, without that guard.           *)
Rederive(recorded, scores) == {ClassifyAndRoute(f, scores) : f \in recorded}

-----------------------------------------------------------------------------
(***************************************************************************)
(* Residuals.  One blocks unless it is closed, and an artifact its         *)
(* condition names proposes it for closing without closing it.             *)
(***************************************************************************)
ResidualBlocks(residual) == residual = "BLOCKING"

=============================================================================
