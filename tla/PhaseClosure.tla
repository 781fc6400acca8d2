---------------------------- MODULE PhaseClosure ----------------------------
(***************************************************************************)
(* Closing a phase (neyma_product_driver/phase_closure.py and the `phase`  *)
(* commands of cli.py, with acceptance_record.py, acceptance_commit.py,    *)
(* external_verification.py and phase_authority.py).                       *)
(*                                                                         *)
(* One attempt is one persisted record, phase-closure.json.  `phase close` *)
(* reads the tree and the repository's authority (preflight), asks the     *)
(* external verifier, takes the stop rule (settle), launches an            *)
(* independent adjudication when one is owed, and writes the acceptance    *)
(* record when nothing is.  `phase preflight` and `phase external` load    *)
(* the same record, and so does the loop of a run that built the phase.    *)
(* Every step saves before it returns, so a crash leaves the record as the *)
(* last step left it.                                                      *)
(*                                                                         *)
(* The repository moves under all of it.  A tree is the content of four    *)
(* paths: the product's code, the artifact the ordinary criteria cite, the *)
(* registry, which holds the authority, and a document that restates it;   *)
(* the last two are the acceptance record.                                 *)
(***************************************************************************)
EXTENDS PhaseAcceptance, AcceptanceRecord, RepositoryGuards, Sequences

CONSTANTS
  Registries,     \* what the founder may write in the registry
  FirstRegistry,
  Documents,      \* what the founder may write in the document
  FirstDocument,
  Replies,        \* what an adjudicator may answer
  ProbeConfigured,\* an external verification probe is configured
  MaxMoves,       \* bound: what happens to the repository
  MaxCommits,     \* bound: commits
  MaxSessions,    \* bound: adjudicator sessions
  MaxCommands     \* bound: commands

VARIABLES
  commits,        \* the history: a sequence of trees
  work,           \* the working tree
  moves,          \* how often the repository was moved
  attempt,        \* the persisted phase-closure.json
  close,          \* the running `phase close` command
  commands,       \* commands given so far
  sessions,       \* adjudicator sessions launched so far
  accepted,       \* what the last acceptance record was written over
  unclean         \* a command read a product that was not committed
vars == <<commits, work, moves, attempt, close, commands, sessions, accepted,
          unclean>>

Paths == {"code", "test", "registry", "doc"}

RegistryType ==
  [declared : BOOLEAN,     \* it states acceptance criteria
   bar : Nat,              \* which demands they make
   landed : BOOLEAN,       \* every expected checkpoint landed
   residual : {"NONE", "BLOCKING", "DEBT"},
   plain : BOOLEAN,        \* its fields can be rewritten one by one
   units : [Units -> UnitType]]

ASSUME ClosureAssumption ==
  /\ Registries \subseteq RegistryType
  /\ FirstRegistry \in Registries
  /\ \A d \in Documents \union {FirstDocument} : d \subseteq ClaimType
  /\ None \notin Nat
  /\ \A r \in Replies :
       /\ r.scores \in [Criteria -> Verdicts \union {"UNREAD"}]
       /\ r.shows \subseteq Criteria

HeadCommit == Len(commits)

(* capture_fingerprint: the commit and the working tree's content.         *)
Fingerprint == [head |-> HeadCommit, tree |-> work]

Dirty == {p \in Paths : work[p] # commits[HeadCommit][p]}

(* A faulty variant: what the repository runs is a record surface too.     *)
AnySurface(p) == p # "test"

(* classify_surface *)
AcceptanceSurface(p) == p \in {"registry", "doc"}

(* _changed_between: one commit, what git status reports now; two commits, *)
(* what differs between the commits.                                       *)
ChangedBetween(previous, current) ==
  IF previous.head = current.head THEN Dirty
  ELSE {p \in Paths : commits[previous.head][p] # commits[current.head][p]}

-----------------------------------------------------------------------------
(***************************************************************************)
(* The record of an attempt, and what it reads as.                         *)
(***************************************************************************)
Fresh ==
  [state |-> "NOT_STARTED", candidate |-> None, authority |-> None,
   bar |-> None, score |-> "PENDING", residual |-> "NONE",
   refs |-> {}, expected |-> None, external |-> None,
   adjudication |-> None, history |-> 0, findings |-> {}, rule |-> "now"]

Live(a) == {f \in a.findings : f.live}
BlockingFindings(a) == {f \in Live(a) : f.blocks}
InconsistentFindings(a) == {f \in Live(a) : f.inconsistent}

(* check_adjudication_protocol: every frozen criterion is scored, once and *)
(* readably.                                                               *)
Complete(scores) == \A c \in Criteria : scores[c] \in Verdicts

(* PhaseAdjudication.taken *)
Taken(adj) == adj # None /\ adj.independent /\ Complete(adj.scores)

(* PhaseAdjudication.discharges: it passed everything it owns.             *)
Discharges(adj) ==
  /\ Taken(adj)
  /\ \A c \in Required \ GateOwned : adj.scores[c] = "PASS"

(* PhaseClosureRecord.adjudication_scores *)
Scores(a) == IF Taken(a.adjudication) THEN a.adjudication.scores ELSE None

Identity(adj) == IF adj = None THEN None ELSE <<adj.attempt, adj.session>>

Finding(id, class, criteria, demonstrated, about) ==
  [id |-> id, class |-> class, criteria |-> criteria, exempts |-> {},
   demonstrated |-> demonstrated, about |-> about, live |-> TRUE,
   blocks |-> FALSE, inconsistent |-> FALSE]

Record(a, new) ==
  [a EXCEPT !.findings = AddFindings(@, new, Scores(a))]

ExternalRequired(a) == a.bar # None /\ ExternalOnes # {}

(* ExternalEvidence.satisfies *)
Satisfies(a, evidence) ==
  ExternalRequired(a) =>
     /\ evidence # None
     /\ evidence.head = a.expected
     /\ evidence.status = "SUCCESS"

(* _adjudication_demanded and _adjudication_outstanding *)
AdjudicationDemanded(a) == a.bar # None /\ ReviewOnes # {}
AdjudicationOutstanding(a) ==
  AdjudicationDemanded(a) /\ ~Taken(a.adjudication)

AlreadyAccepted(a) ==
  a.authority # None /\ IsAccepted(a.authority.units, Phase)
CheckpointsShort(a) == a.authority # None /\ ~a.authority.landed

(* A faulty variant: a gate's criterion is satisfied like any other.       *)
ReviewerSettlesGates(a, c) ==
  LET status == StatusFor(a.refs, c)
      counted == a.adjudication # None /\ a.adjudication.independent
  IN /\ \A f \in BlockingFindings(a) \union InconsistentFindings(a) :
          c \notin f.criteria
     /\ ~(counted /\ a.adjudication.scores[c] = "FAIL")
     /\ \/ counted /\ a.adjudication.scores[c] = "PASS"
        \/ status = "ESTABLISHED"

(* _criterion_satisfied *)
CriterionSatisfied(a, c) ==
  LET status == StatusFor(a.refs, c)
      counted == a.adjudication # None /\ a.adjudication.independent
      scored(v) == counted /\ a.adjudication.scores[c] = v
  IN /\ \A f \in BlockingFindings(a) \union InconsistentFindings(a) :
          c \notin f.criteria
     /\ IF c \in GateOwned THEN status = "ESTABLISHED"
        ELSE /\ ~scored("FAIL")
             /\ status # "REFUTED"
             /\ \/ scored("PASS")
                \/ status = "ESTABLISHED"
                \/ a.score = "PASS"

UnsatisfiedRequired(a) == {c \in Required : ~CriterionSatisfied(a, c)}

(* _preflight_blocking_gaps *)
PreflightGaps(a) ==
  {c \in Required \ GateOwned :
     StatusFor(a.refs, c) \in {"MISSING", "VACUOUS", "STALE"}}

-----------------------------------------------------------------------------
(***************************************************************************)
(* Gate evidence and statements about one adjudication.                    *)
(***************************************************************************)
Ref(c, kind, observed, established, tree) ==
  [criterion |-> c, kind |-> kind, observed |-> observed,
   established |-> established, tree |-> tree, stale |-> FALSE]

(* _attach_gate_evidence: replaces what the gates said before.             *)
AttachGateEvidence(a) ==
  LET here == a.candidate
      gates ==
        {Ref(c, "CI_JOB", a.external # None,
             a.external # None /\ Satisfies(a, a.external), here) :
           c \in ExternalOnes}
        \union {Ref(c, "REVIEW", Taken(a.adjudication),
                    Taken(a.adjudication), here) : c \in ReviewOnes}
        \union {Ref(c, "INVARIANT_QUERY", TRUE,
                    ~ResidualBlocks(a.residual), here) : c \in ResidualOnes}
  IN [a EXCEPT !.refs =
        {r \in @ : ~\E g \in gates : /\ g.criterion = r.criterion
                                     /\ g.kind = r.kind}
        \union gates]

(* _refresh_adjudication_evidence, on a resume that read no repository.    *)
RefreshReviewEvidence(a) ==
  [a EXCEPT !.refs =
     {IF r.kind = "REVIEW" /\ ~r.stale
      THEN [r EXCEPT !.observed = Taken(a.adjudication),
                     !.established = Taken(a.adjudication)]
      ELSE r : r \in @}]

(* _retire_superseded_adjudication_statements *)
RetireStatements(a) ==
  [a EXCEPT !.findings =
     {[f EXCEPT !.live =
         @ /\ (f.about # None => f.about = Identity(a.adjudication))] :
        f \in @}]

(* _record_adjudication_protocol_failure *)
RecordProtocolFailure(a) ==
  IF /\ AdjudicationDemanded(a)
     /\ a.adjudication # None
     /\ a.adjudication.independent
     /\ ~Complete(a.adjudication.scores)
  THEN Record(a, {Finding(<<"PROTOCOL", a.adjudication.attempt>>,
                          "HARNESS_DEFECT", {}, FALSE, None)})
  ELSE a

(* _record_adjudication_gap and _withdraw_settled_adjudication_gap *)
RecordGap(a) ==
  IF ~AdjudicationDemanded(a) \/ ~Taken(a.adjudication) THEN a
  ELSE IF Discharges(a.adjudication)
  THEN [a EXCEPT !.findings =
          {[f EXCEPT !.live =
              @ /\ ~(/\ f.id[1] = "INCOMPLETE"
                     /\ f.about = Identity(a.adjudication))] : f \in @}]
  ELSE Record(a, {Finding(<<"INCOMPLETE">>, "VERIFICATION_GAP", {}, FALSE,
                          Identity(a.adjudication))})

(* decide: the stop rule, in the pipeline's order.                         *)
Decide(a) ==
  LET at(s, b) == [b EXCEPT !.state = s]
      asked == RecordProtocolFailure(a)
      answered == RecordGap(asked)
  IN CASE a.state = "AUTHORITY_GAP" -> a
       [] OTHER ->
    IF AlreadyAccepted(a) /\ BlockingFindings(a) = {}
                          /\ InconsistentFindings(a) = {}
    THEN at("ALREADY_ACCEPTED", a)
    ELSE IF BlockingFindings(a) # {} \/ ResidualBlocks(a.residual)
    THEN at("BLOCKED", a)
    ELSE IF InconsistentFindings(a) # {}
    THEN at("ADJUDICATION_INCONSISTENT", a)
    ELSE IF CheckpointsShort(a) THEN at("PREFLIGHT_BLOCKED", a)
    ELSE IF ExternalRequired(a) /\ ~Satisfies(a, a.external)
    THEN at("WAITING_FOR_EXTERNAL_VERIFICATION", a)
    ELSE IF AdjudicationOutstanding(a)
    THEN at("READY_FOR_ADJUDICATION", asked)
    ELSE IF UnsatisfiedRequired(answered) # {} THEN at("BLOCKED", answered)
    ELSE at("READY_FOR_ACCEPTANCE_COMMIT", answered)

-----------------------------------------------------------------------------
(***************************************************************************)
(* The preflight.                                                          *)
(***************************************************************************)
(* What the registry records for the ordinary criteria.                    *)
Recorded(registry) == registry.units[Phase].result

(* _freeze: the first set declared is frozen.  The same demands re-read    *)
(* the scores; other demands are recorded and not adopted.                 *)
Freeze(a, registry) ==
  CASE a.bar = None ->
         [a EXCEPT !.bar = registry.bar, !.score = Recorded(registry)]
    [] a.bar = registry.bar -> [a EXCEPT !.score = Recorded(registry)]
    [] OTHER ->
         Record(a, {Finding(<<"CRITERIA-MOVED">>, "AUTHORITY_GAP", {},
                            FALSE, None)})

RecordOnly(changed) ==
  changed # {} /\ \A p \in changed : AcceptanceSurface(p)

(* _tree_moved: a change of the acceptance record alone re-points the      *)
(* evidence; any other change retires what it touches, the external record *)
(* and the adjudication.                                                   *)
TreeMoved(a, previous, current) ==
  LET changed == ChangedBetween(previous, current)
      retired == {r \in a.refs : Retires(r, current, changed)}
      after == [a EXCEPT !.refs = InvalidateForTree(@, current, changed)]
  IN IF RecordOnly(changed)
     THEN [a EXCEPT !.refs =
             {IF ~r.stale /\ r.tree = previous
              THEN [r EXCEPT !.tree = current] ELSE r : r \in @}]
     ELSE [Record(after,
             {Finding(<<"STALE", r.criterion>>, "STALE_VERIFICATION",
                      {r.criterion}, FALSE, None) : r \in retired})
           EXCEPT !.external = None, !.adjudication = None]

(* RepoIndex: the artifact a criterion names is in the working tree.       *)
Resolves == work.test # "none"

(* _assemble_evidence: the artifact a criterion cites if it is there, the  *)
(* repository's sentence and a gap if it is not.  What is recorded under   *)
(* the same criterion, kind and locator is left as it is, stale or not.    *)
AssembleEvidence(a) ==
  LET kind == IF Resolves THEN "TEST" ELSE "CITATION"
      cited == {Ref(c, kind, a.score # "PENDING", a.score = "PASS",
                    a.candidate) :
                  c \in {d \in Ordinary : ~\E r \in a.refs :
                           r.criterion = d /\ r.kind = kind}}
      gaps == {Finding(<<"MISSING", c>>, "EVIDENCE_GAP", {c}, FALSE, None) :
                 c \in IF Resolves THEN {} ELSE Ordinary}
  IN Record([a EXCEPT !.refs = @ \union cited], gaps)

(* _attach_implementation_evidence: what the run that built the phase      *)
(* points at is recorded unobserved, unless a live reference is there.     *)
AttachImplementationEvidence(a, pointed) ==
  [a EXCEPT !.refs = @ \union
     {Ref(c, "TEST", FALSE, FALSE, a.candidate) :
        c \in {d \in pointed : /\ Resolves
                              /\ ~\E r \in a.refs : /\ r.criterion = d
                                                     /\ r.kind = "TEST"
                                                     /\ ~r.stale}}]

(* _resolve_external_requirement *)
ResolveExternal(a) ==
  LET b == [a EXCEPT !.expected = a.candidate.head]
  IN IF ExternalRequired(b) /\ b.external # None /\ ~Satisfies(b, b.external)
     THEN [b EXCEPT !.external = None] ELSE b

(* _preflight_state *)
PreflightState(a) ==
  IF AlreadyAccepted(a) /\ BlockingFindings(a) = {}
                        /\ InconsistentFindings(a) = {}
  THEN "ALREADY_ACCEPTED"
  ELSE IF BlockingFindings(a) # {} \/ ResidualBlocks(a.residual)
  THEN "BLOCKED"
  ELSE IF InconsistentFindings(a) # {} THEN "ADJUDICATION_INCONSISTENT"
  ELSE IF CheckpointsShort(a) \/ PreflightGaps(a) # {}
  THEN "PREFLIGHT_BLOCKED"
  ELSE IF ExternalRequired(a) /\ a.external = None
  THEN "WAITING_FOR_EXTERNAL_VERIFICATION"
  ELSE "READY_FOR_ADJUDICATION"

(* resolve_phase_authority: the unit's entry in the registry as it stands  *)
(* in the working tree; undeclared without a readable entry or criteria.   *)
Authority == work.registry

(* preflight *)
Preflight(a, pointed) ==
  LET registry == Authority
      read == [a EXCEPT !.candidate = Fingerprint, !.authority = registry]
      frozen == Freeze(read, registry)
      moved == IF a.candidate # None /\ a.candidate # Fingerprint
               THEN TreeMoved(frozen, a.candidate, Fingerprint) ELSE frozen
      evidenced == AttachImplementationEvidence(AssembleEvidence(moved),
                                                pointed)
      gated == AttachGateEvidence(
                 ResolveExternal(
                   [evidenced EXCEPT !.residual = registry.residual]))
  IN IF ~registry.declared
     THEN Record([read EXCEPT !.state = "AUTHORITY_GAP", !.bar = None],
                 {Finding(<<"AUTHORITY-GAP">>, "AUTHORITY_GAP", {}, FALSE,
                          None)})
     ELSE [gated EXCEPT !.state = PreflightState(gated)]

(* load, and _migrate_dispositions when the rule has moved since.          *)
Load(a) ==
  LET rederived == RefreshReviewEvidence(
                     [a EXCEPT !.findings = Rederive(@, Scores(a))])
      withdrawn ==
        IF a.adjudication # None /\ ~Taken(a.adjudication)
        THEN [rederived EXCEPT !.findings =
                {[f EXCEPT !.live = @ /\ f.id[1] # "INCOMPLETE"] : f \in @}]
        ELSE rederived
      now == [withdrawn EXCEPT !.rule = "now"]
  IN IF a.rule = "now" THEN a
     ELSE IF a.state = "NOT_STARTED" THEN now ELSE Decide(now)

-----------------------------------------------------------------------------
(***************************************************************************)
(* What arrives: an external record, an adjudicator's reply.               *)
(***************************************************************************)
(* classify_conclusion and evidence_from_payload: what a verifier's record *)
(* says, and of which commit.                                              *)
Statuses == {"SUCCESS", "FAILURE", "INFRASTRUCTURE", "PENDING"}
Supplied == [head : 1..Len(commits), status : Statuses]

(* run_probe: the same, or that it could not be asked.                     *)
Probed(expected) ==
  Supplied \union {[head |-> expected, status |-> "INFRASTRUCTURE"]}

(* record_external_evidence: accepted when it satisfies the requirement;   *)
(* otherwise a finding says which layer it belongs to.  The gate's         *)
(* evidence is re-attached when this process has read the repository.      *)
RecordExternal(a, evidence, readAuthority) ==
  LET class ==
        CASE evidence.status = "INFRASTRUCTURE" -> "CI_INFRASTRUCTURE_DEFECT"
          [] /\ evidence.status # "INFRASTRUCTURE"
             /\ evidence.head # a.expected -> "STALE_VERIFICATION"
          [] OTHER -> IF evidence.status = "FAILURE" THEN "PRODUCT_DEFECT"
                      ELSE "EVIDENCE_GAP"
      after ==
        IF Satisfies(a, evidence) THEN [a EXCEPT !.external = evidence]
        ELSE Record(a, {Finding(<<"EXTERNAL", evidence.status, evidence.head>>,
                                class, ExternalOnes,
                                class = "PRODUCT_DEFECT", None)})
  IN IF readAuthority THEN AttachGateEvidence(after) ELSE after

(* _ingest_review_findings: what a complete reply says about the product.  *)
(* The findings a reviewer wrote are numbered by their place in the reply. *)
ReviewFindings(a, reply) ==
  LET failed == {c \in Required : reply.scores[c] = "FAIL"}
  IN {Finding(<<"ADJUDICATED-FAIL", c>>, "PRODUCT_DEFECT", {c}, TRUE, None) :
        c \in failed \ GateOwned}
     \union {Finding(<<"REVIEWER-DISSENT", c>>, "VERIFICATION_GAP", {}, FALSE,
                     Identity(a.adjudication)) : c \in failed \intersect GateOwned}
     \union {Finding(<<"REVIEW-01">>, reply.class, reply.shows,
                     reply.shows # {}, None) :
                i \in IF reply.class = None THEN {} ELSE {1}}

(* check_independence: the session inherited nothing from the builder and  *)
(* read the candidate.                                                     *)
Independent(a, reply, tree) == ~reply.inherited /\ tree = a.candidate

(* ingest_review *)
Ingest(a, reply, session, tree, readAuthority) ==
  LET adjudication ==
        [session |-> session, tree |-> tree, scores |-> reply.scores,
         shows |-> reply.shows,
         independent |-> Independent(a, reply, tree),
         attempt |-> a.history + (IF a.adjudication = None THEN 0 ELSE 1) + 1]
      kept == [a EXCEPT !.history = @ + (IF a.adjudication = None THEN 0 ELSE 1),
                        !.adjudication = adjudication]
      noted == IF adjudication.independent THEN kept
               ELSE Record(kept, {Finding(<<"REVIEW-NOT-INDEPENDENT">>,
                                          "VERIFICATION_GAP", {}, FALSE, None)})
      retired == RetireStatements(noted)
      read == IF Complete(reply.scores)
              THEN Record(retired, ReviewFindings(retired, reply))
              ELSE RecordProtocolFailure(retired)
      again == [read EXCEPT !.findings = Reclassify(@, Scores(read))]
  IN IF readAuthority THEN AttachGateEvidence(again)
     ELSE RefreshReviewEvidence(again)

-----------------------------------------------------------------------------
(***************************************************************************)
(* The acceptance record.                                                  *)
(***************************************************************************)
(* _gate_established *)
GateEstablished(a) ==
  {c \in GateOwned : StatusFor(a.refs, c) = "ESTABLISHED"}

(* plan_acceptance_record (c): every required criterion is established by  *)
(* a gate or passed by the adjudication.                                   *)
Supported(a) ==
  \A c \in Required : \/ c \in GateEstablished(a)
                      \/ /\ a.adjudication # None
                         /\ a.adjudication.scores[c] = "PASS"

AcceptedRegistry(registry) ==
  IF registry.declared /\ StatesConvention(registry.units)
  THEN [registry EXCEPT !.units = RecordedUnits(@)] ELSE registry

(* What the plan concludes, in the order it asks.                          *)
Plan(a) ==
  IF \E p \in Dirty : ~AcceptanceSurface(p) THEN "REFUSED"
  ELSE IF ~(work.registry.declared /\ StatesConvention(work.registry.units))
  THEN IF \E p \in Dirty : AcceptanceSurface(p) THEN "EXISTING_RECORD"
       ELSE "AUTHORITY_GAP"
  ELSE IF ~Supported(a) \/ ~work.registry.plain THEN "REFUSED"
  ELSE IF AcceptedRegistry(work.registry) = work.registry
  THEN "ALREADY_RECORDED" ELSE "WRITE"

(* The record as it is planned: the registry, the document beside it and   *)
(* whether the document still says what was.                               *)
Written(registry, doc, after, facts) ==
  [registry |-> [registry EXCEPT !.units = after],
   doc |-> Restated(doc, registry.units, facts, after),
   stale |-> Stuck(doc, registry.units, facts) # {}]
Rendered(registry, doc, after) ==
  Written(registry, doc, after, Facts(registry.units, after))

(* plan_acceptance_commit: what git reports is the record and no more.     *)
CommitPermitted == Dirty # {} /\ \A p \in Dirty : AcceptanceSurface(p)

RecordGapFound(a, id) ==
  [Record(a, {Finding(<<id>>, "AUTHORITY_GAP", {}, FALSE, None)})
   EXCEPT !.state = "AUTHORITY_GAP"]

-----------------------------------------------------------------------------
(***************************************************************************)
(* The repository moves.                                                   *)
(***************************************************************************)
Idle == [pc |-> "idle", tree |-> None, original |-> None, record |-> None,
         red |-> {}, broken |-> FALSE]

MoveRepository ==
  /\ moves < MaxMoves
  /\ moves' = moves + 1
  /\ UNCHANGED <<attempt, close, commands, sessions, accepted,
                 unclean>>

EditProduct == /\ MoveRepository
               /\ \E c \in {"c1", "c2"} : work' = [work EXCEPT !.code = c]
               /\ work' # work
               /\ UNCHANGED commits
EditTest == /\ MoveRepository
            /\ \E t \in {"none", "t1"} : work' = [work EXCEPT !.test = t]
            /\ work' # work
            /\ UNCHANGED commits
EditDocument == /\ MoveRepository
                /\ \E d \in Documents : work' = [work EXCEPT !.doc = d]
                /\ work' # work
                /\ UNCHANGED commits
EditRegistry == /\ MoveRepository
                /\ \E r \in Registries : work' = [work EXCEPT !.registry = r]
                /\ work' # work
                /\ UNCHANGED commits
Commit == /\ MoveRepository
          /\ Len(commits) < MaxCommits
          /\ \E ps \in {Paths, {"registry", "doc"}} :
               /\ ps \intersect Dirty # {}
               /\ commits' = Append(commits,
                    [p \in Paths |-> IF p \in ps THEN work[p]
                                     ELSE commits[HeadCommit][p]])
          /\ UNCHANGED work

(* A commit made elsewhere brings other code and another registry.         *)
Pull == /\ MoveRepository
        /\ Len(commits) < MaxCommits
        /\ Dirty = {}
        /\ \E c \in {"c1", "c2"}, r \in Registries :
             work' = [work EXCEPT !.code = c, !.registry = r]
        /\ work'.code # work.code /\ work'.registry # work.registry
        /\ commits' = Append(commits, work')

(* The installed driver's closure rule changed since the record was saved. *)
UpgradeRule == /\ moves < MaxMoves
               /\ moves' = moves + 1
               /\ close.pc = "idle"
               /\ attempt.rule = "now"
               /\ attempt.state # "NOT_STARTED"
               /\ attempt' = [attempt EXCEPT !.rule = "old"]
               /\ UNCHANGED <<commits, work, close, commands, sessions,
                              accepted, unclean>>

-----------------------------------------------------------------------------
(***************************************************************************)
(* The commands.                                                           *)
(***************************************************************************)
Command == /\ close.pc = "idle"
           /\ commands < MaxCommands
           /\ commands' = commands + 1

(* Bookkeeping: whether the tree a preflight read had product changes that *)
(* no commit carries, or other product than the candidate before it while  *)
(* the registry named no criteria: it then moves the candidate and leaves  *)
(* what was measured of the last one where it is.                          *)
Product == {"code", "test"}
Uncommitted == Product \intersect Dirty # {}
Unweighed ==
  /\ ~Authority.declared
  /\ attempt.candidate # None
  /\ \E p \in Product : commits[attempt.candidate.head][p] # commits[HeadCommit][p]
ReadsProduct == unclean' = (unclean \/ Uncommitted \/ Unweighed)

(* cmd_phase_preflight on a named run, and the loop of a run that built    *)
(* the phase, which hands over what its builder pointed at.                *)
PhasePreflight ==
  /\ Command
  /\ \E pointed \in {{}, Ordinary} :
       attempt' = Preflight(Load(attempt), pointed)
  /\ ReadsProduct
  /\ UNCHANGED <<commits, work, moves, close, sessions, accepted>>

(* cmd_phase_external_evidence: a refused record settles nothing.          *)
SupplyExternal ==
  /\ Command
  /\ attempt.state # "NOT_STARTED"
  /\ \E evidence \in Supplied :
       LET loaded == Load(attempt)
           recorded == RecordExternal(loaded, evidence, FALSE)
       IN attempt' = IF Satisfies(loaded, evidence) THEN Decide(recorded)
                     ELSE recorded
  /\ UNCHANGED <<commits, work, moves, close, sessions, accepted,
                 unclean>>

Goto(pc) == close' = [close EXCEPT !.pc = pc]

(* cmd_phase_close *)
PhaseClose ==
  /\ Command
  /\ attempt' = Preflight(Load(attempt), {})
  /\ Goto("gate")
  /\ ReadsProduct
  /\ UNCHANGED <<commits, work, moves, sessions, accepted>>

(* The external gate is asked before an adjudication is paid for, and the  *)
(* state is settled before the next transition is chosen.                  *)
AskGate ==
  /\ close.pc = "gate"
  /\ \/ /\ ProbeConfigured
        /\ ExternalRequired(attempt)
        /\ attempt.external = None
        /\ \E evidence \in Probed(attempt.expected) :
             attempt' = Decide(RecordExternal(attempt, evidence, TRUE))
     \/ /\ ~(ProbeConfigured /\ ExternalRequired(attempt)
             /\ attempt.external = None)
        /\ attempt' = Decide(attempt)
  /\ Goto(IF attempt'.state = "READY_FOR_ADJUDICATION"
          THEN "launch" ELSE "finish")
  /\ UNCHANGED <<commits, work, moves, commands, sessions, accepted,
                 unclean>>

(* _run_phase_adjudication, or --no-adjudication, or the founder declines. *)
Launch ==
  /\ close.pc = "launch"
  /\ sessions < MaxSessions
  /\ sessions' = sessions + 1
  /\ close' = [close EXCEPT !.pc = "review", !.tree = Fingerprint]
  /\ UNCHANGED <<commits, work, moves, attempt, commands, accepted, unclean>>
Decline ==
  /\ close.pc = "launch"
  /\ Goto("finish")
  /\ UNCHANGED <<commits, work, moves, attempt, commands, sessions, accepted,
                 unclean>>

(* A reply.  An independent one that fails the contract is asked for once  *)
(* more, in the same session; a session may not be able to answer again.   *)
Reply ==
  /\ close.pc \in {"review", "correct"}
  /\ \E reply \in Replies :
       attempt' = Ingest(attempt, reply, sessions, close.tree, TRUE)
  /\ LET adj == attempt'.adjudication
     IN Goto(IF /\ close.pc = "review"
                /\ adj.independent
                /\ ~Complete(adj.scores)
             THEN "correct"
             ELSE IF Taken(adj) THEN "finish" ELSE "uncounted")
  /\ UNCHANGED <<commits, work, moves, commands, sessions, accepted,
                 unclean>>
NoSecondReply ==
  /\ close.pc = "correct"
  /\ Goto("uncounted")
  /\ UNCHANGED <<commits, work, moves, attempt, commands, sessions, accepted,
                 unclean>>

(* Not independent, or not an answer: settled, and the command stops.      *)
Uncounted ==
  /\ close.pc = "uncounted"
  /\ attempt' = Decide(attempt)
  /\ close' = Idle
  /\ UNCHANGED <<commits, work, moves, commands, sessions, accepted,
                 unclean>>

Finish ==
  /\ close.pc = "finish"
  /\ attempt' = Decide(attempt)
  /\ IF attempt'.state = "READY_FOR_ACCEPTANCE_COMMIT"
     THEN Goto("record") ELSE close' = Idle
  /\ UNCHANGED <<commits, work, moves, commands, sessions, accepted,
                 unclean>>

(* materialize_acceptance_record, up to the write, which is one file after *)
(* the other.                                                              *)
WriteRecord ==
  /\ close.pc = "record"
  /\ Plan(attempt) = "WRITE"
  /\ LET record == Rendered(work.registry, work.doc, RecordedUnits(work.registry.units))
     IN /\ work' = [work EXCEPT !.registry = record.registry]
        /\ close' = [close EXCEPT !.pc = "document", !.record = record,
                       !.original = [registry |-> work.registry, doc |-> work.doc]]
  /\ accepted' = [candidate |-> attempt.candidate, tree |-> work,
                  head |-> HeadCommit, adjudication |-> attempt.adjudication,
                  verified |-> FALSE]
  /\ UNCHANGED <<commits, moves, attempt, commands, sessions, unclean>>
NoRecord ==
  /\ close.pc = "record"
  /\ Plan(attempt) # "WRITE"
  /\ attempt' = IF Plan(attempt) = "AUTHORITY_GAP"
                THEN RecordGapFound(attempt, "RECORD-AUTHORITY-GAP")
                ELSE attempt
  /\ close' = Idle
  /\ UNCHANGED <<commits, work, moves, commands, sessions, accepted,
                 unclean>>

(* The record, or the tree before it, as the plan holds them: whatever the *)
(* files say by now is overwritten (restore_candidate_tree).               *)
Put(record) ==
  work' = [work EXCEPT !.registry = record.registry, !.doc = record.doc]

WriteDocument ==
  /\ close.pc = "document"
  /\ work' = [work EXCEPT !.doc = close.record.doc]
  /\ Goto("verify")
  /\ UNCHANGED <<commits, moves, attempt, commands, sessions, accepted, unclean>>

(* verify_acceptance_record: the repository's own tests that read what the *)
(* record changes.                                                         *)
RecordPaths(record, original) ==
  {p \in {"registry", "doc"} : record[p] # original[p]}
RecordGuards == DiscoverRecordGuards(RecordPaths(close.record, close.original), 6)

RunGuards ==
  /\ close.pc = "verify"
  /\ \E answer \in RunVerification(RecordGuards) :
       close' = [close EXCEPT !.pc = "weigh", !.red = ProductFailures(answer)]
  /\ UNCHANGED <<commits, work, moves, attempt, commands, sessions, accepted,
                 unclean>>

(* A red one is run again on the tree before the record; it counts if it   *)
(* was green there (_fails_without_the_record).                            *)
GuardFails ==
  /\ close.pc = "weigh"
  /\ close.red # {}
  /\ Put(close.original)
  /\ Goto("baseline")
  /\ UNCHANGED <<commits, moves, attempt, commands, sessions, accepted, unclean>>
Baseline ==
  /\ close.pc = "baseline"
  /\ Put(close.record)
  /\ \E guard \in close.red : \E answer \in RunVerification({guard}) :
       close' = [close EXCEPT !.pc = "weigh", !.red = @ \ {guard},
                   !.broken = @ \/ answer[guard] = "passed"]
  /\ UNCHANGED <<commits, moves, attempt, commands, sessions, accepted, unclean>>

(* What stands is re-pointed; what turned a guard red, or leaves a         *)
(* document stale, is rolled back.                                         *)
Weighed == close.pc = "weigh" /\ close.red = {}
RecordRefused == close.broken \/ close.record.stale
KeepRecord ==
  /\ Weighed
  /\ ~RecordRefused
  /\ attempt' = [TreeMoved(attempt, attempt.candidate, Fingerprint)
                 EXCEPT !.candidate = Fingerprint]
  /\ accepted' = [accepted EXCEPT !.verified = TRUE]
  /\ close' = Idle
  /\ UNCHANGED <<commits, work, moves, commands, sessions, unclean>>
RollBackRecord ==
  /\ Weighed
  /\ RecordRefused
  /\ Put(close.original)
  /\ attempt' = RecordGapFound(attempt, "RECORD-NOT-SELF-CONSISTENT")
  /\ accepted' = None
  /\ close' = Idle
  /\ UNCHANGED <<commits, moves, commands, sessions, unclean>>

(* The process dies.  What it saved stays, and so does what it wrote.      *)
Crash ==
  /\ close.pc # "idle"
  /\ close' = Idle
  /\ UNCHANGED <<commits, work, moves, attempt, commands, sessions, accepted,
                 unclean>>

-----------------------------------------------------------------------------
FirstTree == [code |-> "c1", test |-> "t1", registry |-> FirstRegistry,
              doc |-> FirstDocument]

Init ==
  /\ commits = <<FirstTree>>
  /\ work = FirstTree
  /\ moves = 0
  /\ attempt = Fresh
  /\ close = Idle
  /\ commands = 0
  /\ sessions = 0
  /\ accepted = None
  /\ unclean = FALSE

(* The steps of a running command.                                         *)
Process == \/ AskGate \/ Launch \/ Decline \/ Reply \/ NoSecondReply
           \/ Uncounted \/ Finish \/ WriteRecord \/ NoRecord
           \/ WriteDocument \/ RunGuards \/ GuardFails \/ Baseline
           \/ KeepRecord \/ RollBackRecord

Next == \/ EditProduct \/ EditTest \/ EditRegistry \/ EditDocument
        \/ Commit \/ Pull \/ UpgradeRule
        \/ PhasePreflight \/ SupplyExternal \/ PhaseClose
        \/ Process \/ Crash

Spec == Init /\ [][Next]_vars

-----------------------------------------------------------------------------
SameProduct(s, t) == \A p \in Product : s[p] = t[p]

(* A phase that demands a review is accepted over the product an           *)
(* independent adjudication read, however the acceptance record itself     *)
(* moved in between; unless somebody handed a command an uncommitted       *)
(* product, or a change of product while no criteria were to be found, or  *)
(* a commit landed while the command ran.                                  *)
AcceptedAsReviewed ==
  accepted # None /\ ~unclean /\ accepted.head = accepted.candidate.head
    /\ ReviewOnes # {} =>
    /\ accepted.adjudication.independent
    /\ SameProduct(accepted.tree, accepted.adjudication.tree.tree)

(* A finding that demonstrates a required criterion false blocks the phase *)
(* or contradicts the adjudication; no later step makes it debt.           *)
DemonstratedStaysDecisive ==
  \A f \in attempt.findings :
    f.demonstrated /\ CanFalsify(f) /\ Claimed(f, None) # {} =>
      f.live /\ (f.blocks \/ f.inconsistent)

(* A phase ready to be accepted has every gate's own evidence on the       *)
(* candidate tree, whatever a reviewer scored and the repository records,  *)
(* until its acceptance record is written.                                 *)
GatesSettleTheirOwn ==
  attempt.state = "READY_FOR_ACCEPTANCE_COMMIT"
    /\ (accepted = None \/ ~accepted.verified) =>
    \A c \in Required \intersect GateOwned :
      \E r \in attempt.refs : /\ r.criterion = c
                             /\ Counts(r)
                             /\ r.tree = attempt.candidate

(* A record that is kept agrees with itself: what the repository's live    *)
(* documents said truly before the acceptance was written they say truly   *)
(* after it, and what is left for a commit is the record alone             *)
(* (stale_restatement_gap, plan_acceptance_commit).                        *)
RecordStandsWhole ==
  accepted # None /\ accepted.verified =>
    LET before == accepted.tree
        after == AcceptedRegistry(before.registry)
        record == Rendered(before.registry, before.doc, after.units)
    IN work.registry = record.registry /\ work.doc = record.doc =>
         /\ Agrees(before.doc, before.registry.units)
              => Agrees(work.doc, work.registry.units)
         /\ (SameProduct(work, before) /\ HeadCommit = accepted.head)
              => CommitPermitted \/ Dirty = {}

=============================================================================
