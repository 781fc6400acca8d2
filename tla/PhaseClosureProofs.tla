------------------------- MODULE PhaseClosureProofs -------------------------
(***************************************************************************)
(* What is proved of PhaseClosure for any criteria, registries, documents, *)
(* replies and bounds: a demonstration stays decisive, gates settle their  *)
(* own criteria, a phase is accepted as it was reviewed, and the record    *)
(* that is kept agrees with itself.                                        *)
(*                                                                         *)
(* An attempt, a finding, a reference and a tree are records; each is      *)
(* described by its membership in a set of records, whose fields are what  *)
(* they are or range over what the argument needs.                         *)
(***************************************************************************)
EXTENDS PhaseClosure, TLAPS

\* A finding that demonstrates a required criterion false.
Decisive(f) == f.demonstrated /\ CanFalsify(f) /\ Claimed(f, None) # {}

\* What may speak with a demonstration.
Accusing == {"ADJUDICATED-FAIL", "REVIEW-01", "EXTERNAL"}

\* What is said of one adjudication.
Statements == {"INCOMPLETE", "REVIEWER-DISSENT"}

\* The shape of a finding, as membership in a set of records.
IsFinding(f) ==
  f \in [id : {f.id}, class : {f.class}, criteria : {f.criteria},
         exempts : {{}}, demonstrated : {f.demonstrated}, about : {f.about},
         live : BOOLEAN, blocks : BOOLEAN, inconsistent : BOOLEAN]

\* A finding as it is raised: a demonstration is live and no statement.
Worded(f) ==
  /\ IsFinding(f)
  /\ Decisive(f) => f.live /\ f.about = None /\ f.id[1] \in Accusing
  /\ f.about # None => f.id[1] \in Statements

\* As it is recorded: a demonstration blocks or contradicts.
Sound(f) == Worded(f) /\ (Decisive(f) => f.blocks \/ f.inconsistent)

\* Routing makes a raised finding a sound one.
LEMMA ClassifiedIsSound ==
  ASSUME NEW f, NEW scores, Worded(f)
  PROVE  LET g == ClassifyAndRoute(f, scores)
         IN  Sound(g) /\ g.id = f.id
<1> DEFINE g == ClassifyAndRoute(f, scores)
<1>1. /\ g.id = f.id /\ g.class = f.class /\ g.criteria = f.criteria /\ g.exempts = f.exempts
      /\ g.demonstrated = f.demonstrated /\ g.about = f.about /\ g.live = f.live
      /\ IsFinding(g)
      /\ g.blocks = (Disposition(f, scores) = "BLOCKING")
      /\ g.inconsistent = (Disposition(f, scores) = "ADJUDICATION_INCONSISTENT")
  BY DEF Worded, IsFinding, ClassifyAndRoute
<1>2. Decisive(g) <=> Decisive(f)
  BY <1>1 DEF Decisive, CanFalsify, Claimed
<1>3. Decisive(f) => g.blocks \/ g.inconsistent
  BY <1>1 DEF Decisive, Disposition, AgainstScores, Claimed, Worded
<1>. QED  BY <1>1, <1>2, <1>3 DEF Worded, Sound

\* What a merge rewrites of a finding, and what it leaves.
LEMMA Rewritten ==
  ASSUME NEW about, NEW live, NEW blocks, NEW inconsistent, NEW f,
         f = [id |-> f.id, class |-> f.class, criteria |-> f.criteria, exempts |-> f.exempts,
              demonstrated |-> f.demonstrated, about |-> f.about, live |-> f.live,
              blocks |-> f.blocks, inconsistent |-> f.inconsistent]
  PROVE  [f EXCEPT !.blocks = blocks, !.inconsistent = inconsistent, !.about = about,
                   !.live = live]
         = [id |-> f.id, class |-> f.class, criteria |-> f.criteria, exempts |-> f.exempts,
            demonstrated |-> f.demonstrated, about |-> about, live |-> live,
            blocks |-> blocks, inconsistent |-> inconsistent]
<1> DEFINE f1 == [f EXCEPT !.blocks = blocks]
           f2 == [f1 EXCEPT !.inconsistent = inconsistent]
           f3 == [f2 EXCEPT !.about = about]
           f4 == [f3 EXCEPT !.live = live]
<1>1. f1 = [id |-> f.id, class |-> f.class, criteria |-> f.criteria, exempts |-> f.exempts,
            demonstrated |-> f.demonstrated, about |-> f.about, live |-> f.live,
            blocks |-> blocks, inconsistent |-> f.inconsistent]
  OBVIOUS
<1>0. [f EXCEPT !.blocks = blocks, !.inconsistent = inconsistent, !.about = about, !.live = live] = f4
  OBVIOUS
<1> HIDE DEF f1
<1>2. f2 = [id |-> f.id, class |-> f.class, criteria |-> f.criteria, exempts |-> f.exempts,
            demonstrated |-> f.demonstrated, about |-> f.about, live |-> f.live,
            blocks |-> blocks, inconsistent |-> inconsistent]
  BY <1>1
<1> HIDE DEF f2
<1>3. f3 = [id |-> f.id, class |-> f.class, criteria |-> f.criteria, exempts |-> f.exempts,
            demonstrated |-> f.demonstrated, about |-> about, live |-> f.live,
            blocks |-> blocks, inconsistent |-> inconsistent]
  BY <1>2
<1> HIDE DEF f3
<1>4. f4 = [id |-> f.id, class |-> f.class, criteria |-> f.criteria, exempts |-> f.exempts,
            demonstrated |-> f.demonstrated, about |-> about, live |-> live,
            blocks |-> blocks, inconsistent |-> inconsistent]
  BY <1>3
<1> HIDE DEF f4
<1>. QED  BY <1>0, <1>4

\* Merging two sound findings of one identity leaves a sound one.
LEMMA MergedIsSound ==
  ASSUME NEW old, NEW new, Sound(old), Sound(new), old.id = new.id
  PROVE  Sound(MergeFinding(old, new))
<1> DEFINE m == MergeFinding(old, new)
           remade == new.about # None /\ new.about # old.about
<1> DEFINE about == IF remade THEN new.about ELSE old.about
           live == old.live \/ remade
           blocks == old.blocks \/ new.blocks
           inconsistent == old.inconsistent \/ new.inconsistent
<1>0. /\ IsFinding(old)
      /\ old.blocks \in BOOLEAN /\ old.inconsistent \in BOOLEAN /\ old.live \in BOOLEAN
      /\ new.blocks \in BOOLEAN /\ new.inconsistent \in BOOLEAN
      /\ live \in BOOLEAN /\ blocks \in BOOLEAN /\ inconsistent \in BOOLEAN
  BY DEF Sound, Worded, IsFinding
<1>7. old = [id |-> old.id, class |-> old.class, criteria |-> old.criteria, exempts |-> old.exempts,
             demonstrated |-> old.demonstrated, about |-> old.about, live |-> old.live,
             blocks |-> old.blocks, inconsistent |-> old.inconsistent]
  BY <1>0 DEF IsFinding
<1>8. m = [id |-> old.id, class |-> old.class, criteria |-> old.criteria, exempts |-> old.exempts,
           demonstrated |-> old.demonstrated, about |-> about, live |-> live,
           blocks |-> blocks, inconsistent |-> inconsistent]
  <2>1. m = [old EXCEPT !.blocks = blocks, !.inconsistent = inconsistent,
                        !.about = about, !.live = live]
    BY Zenon DEF MergeFinding
  <2> HIDE DEF m, blocks, inconsistent, about, live, remade
  <2> QED
    BY <1>7, <2>1, Rewritten
<1>9. /\ m.id = old.id /\ m.class = old.class /\ m.criteria = old.criteria /\ m.exempts = old.exempts
      /\ m.demonstrated = old.demonstrated /\ m.about = about /\ m.live = live
      /\ IsFinding(m) /\ m.blocks = blocks /\ m.inconsistent = inconsistent
  <2> HIDE DEF m, blocks, inconsistent, about, live, remade
  <2>1. old.exempts = {}
    BY <1>0 DEF IsFinding
  <2> QED
    BY <1>0, <1>8, <2>1 DEF IsFinding
<1>1. /\ m.id = old.id /\ m.class = old.class /\ m.criteria = old.criteria /\ m.exempts = old.exempts
      /\ m.demonstrated = old.demonstrated
      /\ m.about = IF remade THEN new.about ELSE old.about
      /\ m.live = (old.live \/ remade)
      /\ IsFinding(m)
      /\ m.blocks = (old.blocks \/ new.blocks)
      /\ m.inconsistent = (old.inconsistent \/ new.inconsistent)
  BY <1>9
<1> HIDE DEF m
<1>2. Decisive(m) <=> Decisive(old)
  BY <1>1 DEF Decisive, CanFalsify, Claimed
<1>3. Decisive(old) => ~remade
  BY DEF Sound, Worded, Accusing, Statements
<1>. QED  BY <1>1, <1>2, <1>3 DEF Worded, Sound, m

\* A raised finding is worded if its demonstration is no statement.
LEMMA FindingIsWorded ==
  ASSUME NEW id, NEW class, NEW criteria, NEW demonstrated, NEW about,
         demonstrated => about = None /\ id[1] \in Accusing,
         about # None => id[1] \in Statements
  PROVE  Worded(Finding(id, class, criteria, demonstrated, about))
BY DEF Worded, IsFinding, Finding, Decisive

\* Sound findings stay sound when raised ones are added.
LEMMA AddedAreSound ==
  ASSUME NEW recorded, NEW new, NEW scores,
         \A f \in recorded : Sound(f), \A f \in new : Worded(f)
  PROVE  \A f \in AddFindings(recorded, new, scores) : Sound(f)
<1> DEFINE classified == {ClassifyAndRoute(f, scores) : f \in new}
<1>1. \A n \in classified : Sound(n)
  BY ClassifiedIsSound
<1> SUFFICES ASSUME NEW g \in AddFindings(recorded, new, scores) PROVE Sound(g)
  OBVIOUS
<1>2. CASE g \in {n \in classified : n.id \notin {f.id : f \in recorded}}
  BY <1>1, <1>2
<1>3. CASE \E f \in recorded : g = IF \E n \in classified : n.id = f.id
              THEN MergeFinding(f, CHOOSE n \in classified : n.id = f.id) ELSE f
  <2>1. PICK f \in recorded : g = IF \E n \in classified : n.id = f.id
              THEN MergeFinding(f, CHOOSE n \in classified : n.id = f.id) ELSE f
    BY <1>3
  <2>2. CASE \E n \in classified : n.id = f.id
    <3> DEFINE m == CHOOSE n \in classified : n.id = f.id
    <3>1. m \in classified /\ m.id = f.id
      BY <2>2
    <3> HIDE DEF m, classified
    <3>2. Sound(MergeFinding(f, m))
      BY <3>1, <1>1, MergedIsSound
    <3>. QED  BY <2>1, <2>2, <3>2 DEF m
  <2>3. CASE ~\E n \in classified : n.id = f.id
    BY <2>1, <2>3
  <2>. QED  BY <2>2, <2>3
<1>. QED  BY <1>2, <1>3 DEF AddFindings

\* Routing recorded findings again keeps them sound.
LEMMA ReclassifiedAreSound ==
  ASSUME NEW recorded, NEW scores, \A f \in recorded : Sound(f)
  PROVE  /\ \A f \in Reclassify(recorded, scores) : Sound(f)
         /\ \A f \in Rederive(recorded, scores) : Sound(f)
<1>1. \A f \in recorded : Sound(ClassifyAndRoute(f, scores))
  BY ClassifiedIsSound DEF Sound
<1>2. ASSUME NEW f \in recorded
      PROVE  LET g == ClassifyAndRoute(f, scores)
             IN  Sound([g EXCEPT !.blocks = @ \/ (f.blocks /\ ~g.inconsistent)])
  <2> DEFINE g == ClassifyAndRoute(f, scores)
             h == [g EXCEPT !.blocks = @ \/ (f.blocks /\ ~g.inconsistent)]
  <2>1. Sound(g) BY <1>1
  <2> HIDE DEF g
  <2>2. /\ h.id = g.id /\ h.class = g.class /\ h.criteria = g.criteria /\ h.exempts = g.exempts
        /\ h.demonstrated = g.demonstrated /\ h.about = g.about /\ h.live = g.live
        /\ h.blocks = (g.blocks \/ (f.blocks /\ ~g.inconsistent))
        /\ h.inconsistent = g.inconsistent
        /\ IsFinding(h)
    BY <2>1 DEF Sound, Worded, IsFinding
  <2>3. Decisive(h) <=> Decisive(g)
    BY <2>2 DEF Decisive, CanFalsify, Claimed
  <2>4. Sound(h)
    BY <2>1, <2>2, <2>3 DEF Sound, Worded
  <2>. QED  BY <2>4 DEF g
<1>. QED  BY <1>1, <1>2 DEF Reclassify, Rederive

\* A statement is withdrawn, a demonstration is not.
LEMMA WithdrawnIsSound ==
  ASSUME NEW f, NEW keep \in BOOLEAN, Sound(f), ~keep => ~Decisive(f)
  PROVE  Sound([f EXCEPT !.live = @ /\ keep])
<1> DEFINE h == [f EXCEPT !.live = @ /\ keep]
<1>2. /\ h.id = f.id /\ h.class = f.class /\ h.criteria = f.criteria /\ h.exempts = f.exempts
      /\ h.demonstrated = f.demonstrated /\ h.about = f.about /\ h.live = (f.live /\ keep)
      /\ h.blocks = f.blocks
      /\ h.inconsistent = f.inconsistent
      /\ IsFinding(h)
    BY DEF Sound, Worded, IsFinding
<1>3. Decisive(h) <=> Decisive(f)
    BY <1>2 DEF Decisive, CanFalsify, Claimed
<1>. QED  BY <1>2, <1>3 DEF Sound, Worded

-----------------------------------------------------------------------------
\* The fields of an attempt.
Fields == {"state", "candidate", "authority", "bar", "score", "residual", "refs",
           "expected", "external", "adjudication", "history", "findings", "rule"}

\* The shape of an attempt.
IsAttempt(a) ==
  a \in [state : {a.state}, candidate : {a.candidate}, authority : {a.authority},
         bar : {a.bar}, score : {a.score}, residual : {a.residual}, refs : {a.refs},
         expected : {a.expected}, external : {a.external},
         adjudication : {a.adjudication}, history : {a.history},
         findings : {a.findings}, rule : {a.rule}]

\* Every finding of an attempt is sound.
AllSound(a) == \A f \in a.findings : Sound(f)

\* b is an attempt that differs from a in the named fields at most.
Keeps(a, b, changed) == IsAttempt(b) /\ \A x \in Fields \ changed : b[x] = a[x]

\* Recording a finding touches nothing else.
LEMMA RecordKeeps ==
  ASSUME NEW a, IsAttempt(a), NEW new
  PROVE  /\ Keeps(a, Record(a, new), {"findings"})
         /\ Record(a, new).findings = AddFindings(a.findings, new, Scores(a))
BY DEF Keeps, IsAttempt, Record, Fields

\* Recording worded findings keeps all of them sound.
LEMMA RecordSound ==
  ASSUME NEW a, IsAttempt(a), AllSound(a), NEW new, \A f \in new : Worded(f)
  PROVE  AllSound(Record(a, new))
BY RecordKeeps, AddedAreSound DEF AllSound

\* Retiring statements touches findings alone and keeps them sound.
LEMMA RetireKeeps ==
  ASSUME NEW a, IsAttempt(a)
  PROVE  /\ Keeps(a, RetireStatements(a), {"findings"})
         /\ AllSound(a) => AllSound(RetireStatements(a))
<1> DEFINE keep(f) == f.about # None => f.about = Identity(a.adjudication)
<1>1. /\ Keeps(a, RetireStatements(a), {"findings"})
      /\ RetireStatements(a).findings = {[f EXCEPT !.live = @ /\ keep(f)] : f \in a.findings}
  BY DEF Keeps, IsAttempt, RetireStatements, Fields
<1>2. ASSUME AllSound(a), NEW f \in a.findings
      PROVE  Sound([f EXCEPT !.live = @ /\ keep(f)])
  <2>1. keep(f) \in BOOLEAN /\ (~keep(f) => ~Decisive(f)) /\ Sound(f)
    BY <1>2 DEF AllSound, Sound, Worded
  <2> HIDE DEF keep
  <2>. QED  BY <2>1, WithdrawnIsSound
<1>. QED  BY <1>1, <1>2 DEF AllSound

\* So does saying that a reply failed the protocol.
LEMMA ProtocolFailureKeeps ==
  ASSUME NEW a, IsAttempt(a)
  PROVE  /\ Keeps(a, RecordProtocolFailure(a), {"findings"})
         /\ AllSound(a) => AllSound(RecordProtocolFailure(a))
<1>1. Worded(Finding(<<"PROTOCOL", a.adjudication.attempt>>, "HARNESS_DEFECT", {}, FALSE, None))
  BY FindingIsWorded
<1>. QED  BY <1>1, RecordKeeps, RecordSound DEF RecordProtocolFailure, Keeps

\* So does saying which criteria are left.
LEMMA GapKeeps ==
  ASSUME NEW a, IsAttempt(a)
  PROVE  /\ Keeps(a, RecordGap(a), {"findings"})
         /\ AllSound(a) => AllSound(RecordGap(a))
<1> DEFINE keep(f) == ~(f.id[1] = "INCOMPLETE" /\ f.about = Identity(a.adjudication))
           settled == [a EXCEPT !.findings = {[f EXCEPT !.live = @ /\ keep(f)] : f \in @}]
           gap == Finding(<<"INCOMPLETE">>, "VERIFICATION_GAP", {}, FALSE, Identity(a.adjudication))
<1>1. /\ Keeps(a, settled, {"findings"})
      /\ settled.findings = {[f EXCEPT !.live = @ /\ keep(f)] : f \in a.findings}
  BY DEF Keeps, IsAttempt, Fields
<1>2. ASSUME AllSound(a), NEW f \in a.findings
      PROVE  Sound([f EXCEPT !.live = @ /\ keep(f)])
  <2>1. keep(f) \in BOOLEAN /\ (~keep(f) => ~Decisive(f)) /\ Sound(f)
    BY <1>2 DEF AllSound, Sound, Worded, Accusing
  <2> HIDE DEF keep
  <2>. QED  BY <2>1, WithdrawnIsSound
<1>3. AllSound(a) => AllSound(settled)
  BY <1>1, <1>2 DEF AllSound
<1>4. Worded(gap)
  BY FindingIsWorded DEF Statements
<1>5. RecordGap(a) \in {a, settled, Record(a, {gap})}
  BY DEF RecordGap
<1>6. Keeps(a, a, {"findings"})
  BY DEF Keeps
<1> HIDE DEF settled, gap
<1>. QED  BY <1>1, <1>3, <1>4, <1>5, <1>6, RecordKeeps, RecordSound

\* Gate evidence touches the references alone.
LEMMA GateEvidenceKeeps ==
  ASSUME NEW a, IsAttempt(a)
  PROVE  /\ Keeps(a, AttachGateEvidence(a), {"refs"})
         /\ AllSound(a) => AllSound(AttachGateEvidence(a))
<1>1. Keeps(a, AttachGateEvidence(a), {"refs"})
  BY DEF Keeps, IsAttempt, AttachGateEvidence, Fields
<1>. QED  BY <1>1 DEF Keeps, AllSound, Fields

\* Refreshed review evidence touches the references alone.
LEMMA RefreshKeeps ==
  ASSUME NEW a, IsAttempt(a)
  PROVE  /\ Keeps(a, RefreshReviewEvidence(a), {"refs"})
         /\ AllSound(a) => AllSound(RefreshReviewEvidence(a))
<1>1. Keeps(a, RefreshReviewEvidence(a), {"refs"})
  BY DEF Keeps, IsAttempt, RefreshReviewEvidence, Fields
<1>. QED  BY <1>1 DEF Keeps, AllSound, Fields

\* The stop rule moves the state and speaks; it leaves an authority gap alone.
LEMMA DecideKeeps ==
  ASSUME NEW a, IsAttempt(a)
  PROVE  LET b == Decide(a)
         IN  /\ Keeps(a, b, {"findings", "state"})
             /\ AllSound(a) => AllSound(b)
             /\ a.state = "AUTHORITY_GAP" => b = a
             /\ b.state \notin {"NOT_STARTED"}
             /\ b.state = "AUTHORITY_GAP" => a.state = "AUTHORITY_GAP"
             /\ b.state = "READY_FOR_ACCEPTANCE_COMMIT" =>
                  /\ ~AdjudicationOutstanding(a)
                  /\ \A c \in Required \intersect GateOwned : StatusFor(a.refs, c) = "ESTABLISHED"
<1> DEFINE asked == RecordProtocolFailure(a)
           answered == RecordGap(asked)
           at(s, b) == [b EXCEPT !.state = s]
<1>1. /\ Keeps(a, asked, {"findings"}) /\ (AllSound(a) => AllSound(asked))
      /\ Keeps(a, answered, {"findings"}) /\ (AllSound(a) => AllSound(answered))
  BY ProtocolFailureKeeps, GapKeeps DEF Keeps
<1> HIDE DEF asked, answered
<1>2. ASSUME NEW s, NEW b \in {a, asked, answered}
      PROVE  /\ Keeps(a, at(s, b), {"findings", "state"})
             /\ AllSound(a) => AllSound(at(s, b))
             /\ at(s, b).state = s
  <2>1. Keeps(a, b, {"findings"}) /\ (AllSound(a) => AllSound(b))
    BY <1>1 DEF Keeps
  <2>2. Keeps(b, at(s, b), {"state"}) /\ at(s, b).state = s /\ at(s, b).findings = b.findings
    BY <2>1 DEF Keeps, IsAttempt, Fields
  <2>. QED  BY <2>1, <2>2 DEF Keeps, AllSound
<1>3. UnsatisfiedRequired(answered) = {} =>
        \A c \in Required \intersect GateOwned : StatusFor(a.refs, c) = "ESTABLISHED"
  <2>1. answered.refs = a.refs
    BY <1>1 DEF Keeps, Fields
  <2>. QED  BY <2>1 DEF UnsatisfiedRequired, CriterionSatisfied
<1> HIDE DEF at
<1>4. CASE a.state = "AUTHORITY_GAP"
  BY <1>4 DEF Decide, Keeps
<1>5. CASE a.state # "AUTHORITY_GAP"
  <2>1. \/ \E s \in {"ALREADY_ACCEPTED", "BLOCKED", "ADJUDICATION_INCONSISTENT",
                    "PREFLIGHT_BLOCKED", "WAITING_FOR_EXTERNAL_VERIFICATION"} :
             Decide(a) = at(s, a)
        \/ Decide(a) = at("READY_FOR_ADJUDICATION", asked)
        \/ Decide(a) = at("BLOCKED", answered)
        \/ /\ Decide(a) = at("READY_FOR_ACCEPTANCE_COMMIT", answered)
           /\ ~AdjudicationOutstanding(a) /\ UnsatisfiedRequired(answered) = {}
    BY <1>5 DEF Decide, at, asked, answered
  <2> DEFINE b == Decide(a)
             Concludes(d) ==
               /\ Keeps(a, d, {"findings", "state"})
               /\ AllSound(a) => AllSound(d)
               /\ d.state \notin {"NOT_STARTED", "AUTHORITY_GAP"}
               /\ d.state = "READY_FOR_ACCEPTANCE_COMMIT" =>
                    ~AdjudicationOutstanding(a) /\ UnsatisfiedRequired(answered) = {}
  <2>2. ASSUME NEW s, NEW x \in {a, asked, answered},
               s \notin {"NOT_STARTED", "AUTHORITY_GAP"},
               s = "READY_FOR_ACCEPTANCE_COMMIT" =>
                 ~AdjudicationOutstanding(a) /\ UnsatisfiedRequired(answered) = {}
        PROVE  Concludes(at(s, x))
    BY <1>2, <2>2
  <2> HIDE DEF b
  <2>3. ASSUME \E s \in {"ALREADY_ACCEPTED", "BLOCKED", "ADJUDICATION_INCONSISTENT",
                         "PREFLIGHT_BLOCKED", "WAITING_FOR_EXTERNAL_VERIFICATION"} : b = at(s, a)
        PROVE  Concludes(b)
    <3>1. PICK s \in {"ALREADY_ACCEPTED", "BLOCKED", "ADJUDICATION_INCONSISTENT",
                      "PREFLIGHT_BLOCKED", "WAITING_FOR_EXTERNAL_VERIFICATION"} : b = at(s, a)
      BY <2>3
    <3>2. Concludes(at(s, a))
      <4> HIDE DEF Concludes
      <4>1. s \notin {"NOT_STARTED", "AUTHORITY_GAP", "READY_FOR_ACCEPTANCE_COMMIT"}
        OBVIOUS
      <4>. QED  BY <2>2, <4>1
    <3>. QED  BY <3>1, <3>2
  <2>4. ASSUME b = at("READY_FOR_ADJUDICATION", asked)
        PROVE  Concludes(b)
    <3>1. Concludes(at("READY_FOR_ADJUDICATION", asked))
      <4> HIDE DEF Concludes
      <4>. QED  BY <2>2
    <3>. QED  BY <2>4, <3>1
  <2>5. ASSUME b = at("BLOCKED", answered)
        PROVE  Concludes(b)
    <3>1. Concludes(at("BLOCKED", answered))
      <4> HIDE DEF Concludes
      <4>. QED  BY <2>2
    <3>. QED  BY <2>5, <3>1
  <2>6. ASSUME /\ b = at("READY_FOR_ACCEPTANCE_COMMIT", answered)
               /\ ~AdjudicationOutstanding(a) /\ UnsatisfiedRequired(answered) = {}
        PROVE  Concludes(b)
    <3>1. Concludes(at("READY_FOR_ACCEPTANCE_COMMIT", answered))
      <4> HIDE DEF Concludes
      <4>. QED  BY <2>2, <2>6
    <3>. QED  BY <2>6, <3>1
  <2>7. Concludes(b)
    <3> HIDE DEF Concludes
    <3>. QED  BY <2>1, <2>3, <2>4, <2>5, <2>6 DEF b
  <2>. QED  BY <1>3, <1>5, <2>7 DEF b
<1>. QED  BY <1>4, <1>5

-----------------------------------------------------------------------------
\* The kinds of evidence.
Kinds == {"TEST", "CITATION", "CI_JOB", "REVIEW", "INVARIANT_QUERY"}

\* The shape of a reference to evidence.
IsRef(r) ==
  r \in [criterion : {r.criterion}, kind : Kinds, observed : {r.observed},
         established : {r.established}, tree : {r.tree}, stale : BOOLEAN]

\* A reference whose kind is that of its criterion.
Kinded(r) ==
  /\ IsRef(r)
  /\ r.kind \in {"TEST", "CITATION"} => r.criterion \in Ordinary
  /\ r.kind = "CI_JOB" => r.criterion \in ExternalOnes
  /\ r.kind = "REVIEW" => r.criterion \in ReviewOnes
  /\ r.kind = "INVARIANT_QUERY" => r.criterion \in ResidualOnes

\* Every reference of an attempt is kinded.
AllKinded(a) == \A r \in a.refs : Kinded(r)

\* What stands for a gate stands for the one tree.
GatesAt(refs, tree) ==
  \A r \in refs : r.criterion \in GateOwned /\ ~r.stale => r.tree = tree

\* Every required gate has its own counted evidence on the candidate.
Established(a) ==
  \A c \in Required \intersect GateOwned :
    \E r \in a.refs : r.criterion = c /\ Counts(r) /\ r.tree = a.candidate

\* A reference as it is made.
LEMMA RefIsRef ==
  ASSUME NEW c, NEW kind \in Kinds, NEW observed, NEW established, NEW tree
  PROVE  LET r == Ref(c, kind, observed, established, tree)
         IN  /\ IsRef(r) /\ r.criterion = c /\ r.kind = kind /\ r.tree = tree
BY DEF IsRef, Ref

\* An established status on one tree is evidence on that tree.
LEMMA StatusIsEstablished ==
  ASSUME NEW a, GatesAt(a.refs, a.candidate),
         \A c \in Required \intersect GateOwned : StatusFor(a.refs, c) = "ESTABLISHED"
  PROVE  Established(a)
<1> SUFFICES ASSUME NEW c \in Required \intersect GateOwned
             PROVE  \E r \in a.refs : r.criterion = c /\ Counts(r) /\ r.tree = a.candidate
  BY DEF Established
<1> DEFINE mine == Of(a.refs, c)
           live == {r \in mine : ~r.stale}
<1>1. \E r \in live : Counts(r)
  <2> DEFINE counted == \E r \in live : Counts(r)
  <2>1. StatusFor(a.refs, c) # "ESTABLISHED" \/ counted
    <3> HIDE DEF counted
    <3>. QED  BY DEF StatusFor, counted
  <2>. QED  BY <2>1
<1>. QED  BY <1>1 DEF GatesAt, Of

\* Attached gate evidence is about the candidate.
LEMMA GateEvidenceHere ==
  ASSUME NEW a, IsAttempt(a), AllKinded(a)
  PROVE  LET b == AttachGateEvidence(a)
         IN  AllKinded(b) /\ GatesAt(b.refs, b.candidate)
<1> DEFINE here == a.candidate
           yes == TRUE
           settled == ~ResidualBlocks(a.residual)
           ci == {Ref(c, "CI_JOB", a.external # None,
                      a.external # None /\ Satisfies(a, a.external), here) : c \in ExternalOnes}
           review == {Ref(c, "REVIEW", Taken(a.adjudication), Taken(a.adjudication), here) :
                        c \in ReviewOnes}
           query == {Ref(c, "INVARIANT_QUERY", yes, settled, here) : c \in ResidualOnes}
           gates == ci \union review \union query
           left == {r \in a.refs : ~\E g \in gates : g.criterion = r.criterion /\ g.kind = r.kind}
<1>1. AttachGateEvidence(a).refs = left \union gates /\ AttachGateEvidence(a).candidate = here
  BY DEF AttachGateEvidence, IsAttempt
<1> HIDE DEF yes, settled
<1>2. \A g \in gates : Kinded(g) /\ g.tree = here
  <2>1. \A g \in ci : IsRef(g) /\ g.criterion \in ExternalOnes /\ g.kind = "CI_JOB" /\ g.tree = here
    BY RefIsRef DEF Kinds
  <2>2. \A g \in review : IsRef(g) /\ g.criterion \in ReviewOnes /\ g.kind = "REVIEW" /\ g.tree = here
    BY RefIsRef DEF Kinds
  <2>3. \A g \in query : IsRef(g) /\ g.criterion \in ResidualOnes /\ g.kind = "INVARIANT_QUERY"
                         /\ g.tree = here
    BY RefIsRef DEF Kinds
  <2> HIDE DEF ci, review, query
  <2>. QED  BY <2>1, <2>2, <2>3 DEF Kinded
<1>3. /\ \A c \in ExternalOnes : \E g \in gates : g.criterion = c /\ g.kind = "CI_JOB"
      /\ \A c \in ReviewOnes : \E g \in gates : g.criterion = c /\ g.kind = "REVIEW"
      /\ \A c \in ResidualOnes : \E g \in gates : g.criterion = c /\ g.kind = "INVARIANT_QUERY"
  <2>1. ASSUME NEW c \in ExternalOnes PROVE \E g \in ci : g.criterion = c /\ g.kind = "CI_JOB"
    <3> DEFINE g == Ref(c, "CI_JOB", a.external # None,
                       a.external # None /\ Satisfies(a, a.external), here)
    <3>1. g \in ci
      OBVIOUS
    <3>2. g.criterion = c /\ g.kind = "CI_JOB"
      BY DEF Ref
    <3> HIDE DEF g, ci
    <3>. QED  BY <3>1, <3>2
  <2>2. ASSUME NEW c \in ReviewOnes PROVE \E g \in review : g.criterion = c /\ g.kind = "REVIEW"
    <3> DEFINE g == Ref(c, "REVIEW", Taken(a.adjudication), Taken(a.adjudication), here)
    <3>1. g \in review
      OBVIOUS
    <3>2. g.criterion = c /\ g.kind = "REVIEW"
      BY DEF Ref
    <3> HIDE DEF g, review
    <3>. QED  BY <3>1, <3>2
  <2>3. ASSUME NEW c \in ResidualOnes PROVE \E g \in query : g.criterion = c /\ g.kind = "INVARIANT_QUERY"
    <3> DEFINE g == Ref(c, "INVARIANT_QUERY", yes, settled, here)
    <3>1. g \in query
      OBVIOUS
    <3>2. g.criterion = c /\ g.kind = "INVARIANT_QUERY"
      BY DEF Ref
    <3> HIDE DEF g, query
    <3>. QED  BY <3>1, <3>2
  <2> HIDE DEF ci, review, query
  <2>. QED  BY <2>1, <2>2, <2>3
<1> HIDE DEF gates
<1>4. \A r \in left : r.criterion \notin GateOwned
  BY <1>3, CriteriaAssumption DEF AllKinded, Kinded, IsRef, Kinds, GateOwned, Criteria
<1>. QED  BY <1>1, <1>2, <1>4 DEF AllKinded, GatesAt

\* Refreshed review evidence is kinded and about the candidate.
LEMMA RefreshKinded ==
  ASSUME NEW a, IsAttempt(a), AllKinded(a)
  PROVE  LET b == RefreshReviewEvidence(a)
         IN  /\ AllKinded(b)
             /\ GatesAt(a.refs, a.candidate) => GatesAt(b.refs, b.candidate)
<1> DEFINE again(r) == [r EXCEPT !.observed = Taken(a.adjudication),
                                 !.established = Taken(a.adjudication)]
<1>1. ASSUME NEW r \in a.refs
      PROVE  /\ Kinded(again(r)) /\ again(r).criterion = r.criterion
             /\ again(r).tree = r.tree /\ again(r).stale = r.stale
  BY DEF AllKinded, Kinded, IsRef
<1>2. \A q \in RefreshReviewEvidence(a).refs : q \in a.refs \/ \E r \in a.refs : q = again(r)
  BY DEF RefreshReviewEvidence, IsAttempt
<1>3. RefreshReviewEvidence(a).candidate = a.candidate
  BY DEF RefreshReviewEvidence, IsAttempt
<1> HIDE DEF again
<1>. QED  BY <1>1, <1>2, <1>3 DEF AllKinded, GatesAt

-----------------------------------------------------------------------------
\* Freezing the bar touches the bar, the score and the findings.
LEMMA FreezeKeeps ==
  ASSUME NEW a, IsAttempt(a), NEW registry, registry.bar # None
  PROVE  LET b == Freeze(a, registry)
         IN  /\ Keeps(a, b, {"bar", "score", "findings"})
             /\ AllSound(a) => AllSound(b)
             /\ b.bar # None
<1> DEFINE first == [a EXCEPT !.bar = registry.bar, !.score = Recorded(registry)]
           same == [a EXCEPT !.score = Recorded(registry)]
           moved == Finding(<<"CRITERIA-MOVED">>, "AUTHORITY_GAP", {}, FALSE, None)
           other == Record(a, {moved})
<1>1. /\ Keeps(a, first, {"bar", "score", "findings"}) /\ first.findings = a.findings
      /\ first.bar = registry.bar
      /\ Keeps(a, same, {"bar", "score", "findings"}) /\ same.findings = a.findings
      /\ same.bar = a.bar
  BY DEF Keeps, IsAttempt, Fields
<1>2. Worded(moved)
  BY FindingIsWorded
<1>3. /\ Keeps(a, other, {"bar", "score", "findings"}) /\ other.bar = a.bar
      /\ AllSound(a) => AllSound(other)
  <2> HIDE DEF moved
  <2>1. Keeps(a, other, {"findings"}) /\ (AllSound(a) => AllSound(other))
    BY <1>2, RecordKeeps, RecordSound
  <2>. QED  BY <2>1 DEF Keeps, Fields
<1>4. AllSound(a) => AllSound(first) /\ AllSound(same)
  BY <1>1 DEF AllSound
<1>5. CASE a.bar = None
  <2>1. Freeze(a, registry) = first
    BY <1>5 DEF Freeze
  <2>. QED  BY <2>1, <1>1, <1>4
<1>6. CASE a.bar # None /\ a.bar = registry.bar
  <2>1. Freeze(a, registry) = same
    BY <1>6 DEF Freeze
  <2>. QED  BY <2>1, <1>1, <1>4, <1>6
<1>7. CASE a.bar # None /\ a.bar # registry.bar
  <2>1. Freeze(a, registry) = other
    BY <1>7 DEF Freeze
  <2>. QED  BY <2>1, <1>3, <1>7
<1>. QED  BY <1>5, <1>6, <1>7

\* A moved tree keeps gate evidence on the tree it moved to, and the
\* adjudication only when the acceptance record alone changed.
LEMMA TreeMovedKeeps ==
  ASSUME NEW a, IsAttempt(a), NEW previous, NEW current
  PROVE  LET b == TreeMoved(a, previous, current)
         IN  /\ Keeps(a, b, {"refs", "findings", "external", "adjudication"})
             /\ AllSound(a) => AllSound(b)
             /\ AllKinded(a) => AllKinded(b)
             /\ AllKinded(a) /\ GatesAt(a.refs, previous) => GatesAt(b.refs, current)
             /\ b.adjudication # None =>
                  /\ b.adjudication = a.adjudication
                  /\ RecordOnly(ChangedBetween(previous, current))
<1> DEFINE changed == ChangedBetween(previous, current)
           retired == {r \in a.refs : Retires(r, current, changed)}
           after == [a EXCEPT !.refs = InvalidateForTree(@, current, changed)]
           stale == {Finding(<<"STALE", r.criterion>>, "STALE_VERIFICATION",
                             {r.criterion}, FALSE, None) : r \in retired}
           recorded == Record(after, stale)
           dropped == [recorded EXCEPT !.external = None, !.adjudication = None]
           pointed == [a EXCEPT !.refs =
                         {IF ~r.stale /\ r.tree = previous
                          THEN [r EXCEPT !.tree = current] ELSE r : r \in @}]
           b == TreeMoved(a, previous, current)
<1>1. b = IF RecordOnly(changed) THEN pointed ELSE dropped
  BY DEF TreeMoved
<1>2. /\ Keeps(a, pointed, {"refs"})
      /\ pointed.refs = {IF ~r.stale /\ r.tree = previous
                         THEN [r EXCEPT !.tree = current] ELSE r : r \in a.refs}
  BY DEF Keeps, IsAttempt, Fields
<1>3. Keeps(a, after, {"refs"}) /\ after.refs = InvalidateForTree(a.refs, current, changed)
  BY DEF Keeps, IsAttempt, Fields
<1>4. \A f \in stale : Worded(f)
  BY FindingIsWorded
<1> HIDE DEF pointed, after, changed, stale
<1>5. /\ Keeps(after, recorded, {"findings"})
      /\ AllSound(after) => AllSound(recorded)
  BY <1>3, <1>4, RecordKeeps, RecordSound DEF Keeps
<1> HIDE DEF recorded
<1>6. /\ Keeps(recorded, dropped, {"external", "adjudication"}) /\ dropped.adjudication = None
  BY <1>5 DEF Keeps, IsAttempt, Fields
<1> HIDE DEF dropped
<1>7. /\ Keeps(a, dropped, {"refs", "findings", "external", "adjudication"})
      /\ dropped.refs = InvalidateForTree(a.refs, current, changed)
      /\ AllSound(a) => AllSound(dropped)
  BY <1>3, <1>5, <1>6 DEF Keeps, Fields, AllSound
<1>8. ASSUME AllKinded(a)
      PROVE  /\ AllKinded(pointed) /\ AllKinded(dropped)
             /\ GatesAt(a.refs, previous) => GatesAt(pointed.refs, current)
             /\ GatesAt(dropped.refs, current)
  <2> DEFINE here(r) == [r EXCEPT !.tree = current]
             aged(r) == [r EXCEPT !.stale = @ \/ Retires(r, current, changed)]
  <2>1. ASSUME NEW r \in a.refs
        PROVE  /\ Kinded(r)
               /\ Kinded(here(r)) /\ here(r).tree = current
               /\ here(r).criterion = r.criterion /\ here(r).stale = r.stale
               /\ Kinded(aged(r)) /\ aged(r).tree = r.tree
               /\ aged(r).criterion = r.criterion
               /\ aged(r).stale = (r.stale \/ Retires(r, current, changed))
    BY <1>8 DEF AllKinded, Kinded, IsRef, Retires
  <2>2. ASSUME NEW r \in a.refs, r.criterion \in GateOwned, ~aged(r).stale
        PROVE  r.tree = current
    <3>1. Kinded(r) /\ ~r.stale /\ ~Retires(r, current, changed)
      BY <2>1, <2>2
    <3>2. r.kind # "TEST"
      BY <3>1, <2>2, CriteriaAssumption DEF Kinded, GateOwned, Criteria
    <3>. QED  BY <3>1, <3>2 DEF Retires, DependsOn
  <2>3. /\ \A q \in pointed.refs :
             \E r \in a.refs : \/ q = r /\ ~(~r.stale /\ r.tree = previous)
                               \/ q = here(r) /\ ~r.stale /\ r.tree = previous
        /\ \A q \in dropped.refs : \E r \in a.refs : q = aged(r)
    BY <1>2, <1>7 DEF InvalidateForTree
  <2> HIDE DEF here, aged
  <2>4. AllKinded(pointed) /\ AllKinded(dropped)
    BY <2>1, <2>3 DEF AllKinded
  <2>5. GatesAt(a.refs, previous) => GatesAt(pointed.refs, current)
    BY <2>1, <2>3 DEF GatesAt
  <2>6. GatesAt(dropped.refs, current)
    BY <2>1, <2>2, <2>3 DEF GatesAt
  <2>. QED  BY <2>4, <2>5, <2>6
<1>9. /\ Keeps(a, pointed, {"refs", "findings", "external", "adjudication"})
      /\ pointed.adjudication = a.adjudication
      /\ AllSound(a) => AllSound(pointed)
  BY <1>2 DEF Keeps, Fields, AllSound
<1>10. CASE RecordOnly(changed)
  BY <1>1, <1>8, <1>9, <1>10 DEF changed
<1>11. CASE ~RecordOnly(changed)
  BY <1>1, <1>6, <1>7, <1>8, <1>11
<1>. QED  BY <1>10, <1>11

\* Assembled evidence is kinded, and what is missing is worded.
LEMMA AssembleKeeps ==
  ASSUME NEW a, IsAttempt(a)
  PROVE  LET b == AssembleEvidence(a)
         IN  /\ Keeps(a, b, {"refs", "findings"})
             /\ AllSound(a) => AllSound(b)
             /\ AllKinded(a) => AllKinded(b)
<1> DEFINE kind == IF Resolves THEN "TEST" ELSE "CITATION"
           cited == {Ref(c, kind, a.score # "PENDING", a.score = "PASS", a.candidate) :
                       c \in {d \in Ordinary : ~\E r \in a.refs :
                                r.criterion = d /\ r.kind = kind}}
           gaps == {Finding(<<"MISSING", c>>, "EVIDENCE_GAP", {c}, FALSE, None) :
                      c \in IF Resolves THEN {} ELSE Ordinary}
           with == [a EXCEPT !.refs = @ \union cited]
<1>1. AssembleEvidence(a) = Record(with, gaps)
  BY DEF AssembleEvidence
<1>2. \A f \in gaps : Worded(f)
  BY FindingIsWorded
<1>3. \A r \in cited : Kinded(r)
  <2>1. kind \in Kinds /\ kind \in {"TEST", "CITATION"}
    BY DEF Kinds
  <2> HIDE DEF kind
  <2>. QED  BY <2>1, RefIsRef DEF Kinded
<1> HIDE DEF gaps, cited
<1>4. /\ Keeps(a, with, {"refs"}) /\ with.refs = a.refs \union cited
      /\ with.findings = a.findings
  BY DEF Keeps, IsAttempt, Fields
<1> HIDE DEF with
<1>5. /\ Keeps(with, Record(with, gaps), {"findings"})
      /\ AllSound(with) => AllSound(Record(with, gaps))
  BY <1>2, <1>4, RecordKeeps, RecordSound DEF Keeps
<1>6. Record(with, gaps).refs = with.refs
  BY <1>5 DEF Keeps, Fields
<1>. QED  BY <1>1, <1>3, <1>4, <1>5, <1>6 DEF Keeps, AllSound, AllKinded

\* What a builder points at touches the references alone.
LEMMA ImplementationKeeps ==
  ASSUME NEW a, IsAttempt(a), NEW pointed, pointed \subseteq Ordinary
  PROVE  LET b == AttachImplementationEvidence(a, pointed)
         IN  /\ Keeps(a, b, {"refs"})
             /\ AllSound(a) => AllSound(b)
             /\ AllKinded(a) => AllKinded(b)
<1> DEFINE none == FALSE
           told == {Ref(c, "TEST", none, none, a.candidate) :
                      c \in {d \in pointed : /\ Resolves
                               /\ ~\E r \in a.refs : /\ r.criterion = d
                                                      /\ r.kind = "TEST"
                                                      /\ ~r.stale}}
           b == AttachImplementationEvidence(a, pointed)
<1>1. b = [a EXCEPT !.refs = @ \union told]
  BY DEF AttachImplementationEvidence
<1> HIDE DEF none
<1>2. \A r \in told : Kinded(r)
  BY RefIsRef DEF Kinded, Kinds
<1> HIDE DEF told, b
<1>3. /\ Keeps(a, b, {"refs"}) /\ b.refs = a.refs \union told
      /\ b.findings = a.findings
  BY <1>1 DEF Keeps, IsAttempt, Fields
<1>. QED  BY <1>2, <1>3 DEF AllSound, AllKinded, b

\* Resolving the expected commit drops an external record of another one.
LEMMA ResolveKeeps ==
  ASSUME NEW a, IsAttempt(a)
  PROVE  Keeps(a, ResolveExternal(a), {"expected", "external"})
<1> DEFINE b == [a EXCEPT !.expected = a.candidate.head]
           c == [b EXCEPT !.external = None]
<1>1. ResolveExternal(a) \in {b, c}
  BY DEF ResolveExternal
<1>2. Keeps(a, b, {"expected", "external"}) /\ Keeps(a, c, {"expected", "external"})
  BY DEF Keeps, IsAttempt, Fields
<1>. QED  BY <1>1, <1>2

\* Where a preflight may leave an attempt.
PreflightStates ==
  {"ALREADY_ACCEPTED", "BLOCKED", "ADJUDICATION_INCONSISTENT", "PREFLIGHT_BLOCKED",
   "WAITING_FOR_EXTERNAL_VERIFICATION", "READY_FOR_ADJUDICATION"}

\* A preflight leaves sound findings and gate evidence of the candidate.
LEMMA PreflightKeeps ==
  ASSUME NEW a, IsAttempt(a), NEW pointed, pointed \subseteq Ordinary,
         work.registry.bar # None
  PROVE  LET b == Preflight(a, pointed)
         IN  /\ IsAttempt(b)
             /\ AllSound(a) => AllSound(b)
             /\ AllKinded(a) => AllKinded(b)
             /\ b.candidate = Fingerprint
             /\ b.state \in PreflightStates \union {"AUTHORITY_GAP"}
             /\ AllKinded(a) /\ b.state # "AUTHORITY_GAP" =>
                  GatesAt(b.refs, b.candidate) /\ b.bar # None
             /\ b.adjudication # None =>
                  /\ b.adjudication = a.adjudication
                  /\ \/ ~work.registry.declared
                     \/ a.candidate = None
                     \/ a.candidate = Fingerprint
                     \/ RecordOnly(ChangedBetween(a.candidate, Fingerprint))
<1> DEFINE registry == Authority
           b == Preflight(a, pointed)
           read == [a EXCEPT !.candidate = Fingerprint, !.authority = registry]
           gap == [read EXCEPT !.state = "AUTHORITY_GAP", !.bar = None]
           said == {Finding(<<"AUTHORITY-GAP">>, "AUTHORITY_GAP", {}, FALSE, None)}
           frozen == Freeze(read, registry)
           moved == IF a.candidate # None /\ a.candidate # Fingerprint
                    THEN TreeMoved(frozen, a.candidate, Fingerprint) ELSE frozen
           assembled == AssembleEvidence(moved)
           evidenced == AttachImplementationEvidence(assembled, pointed)
           owed == [evidenced EXCEPT !.residual = registry.residual]
           resolved == ResolveExternal(owed)
           gated == AttachGateEvidence(resolved)
           stated == [gated EXCEPT !.state = PreflightState(gated)]
<1>1. b = IF ~registry.declared THEN Record(gap, said) ELSE stated
  BY DEF Preflight
<1>2. /\ Keeps(a, read, {"candidate", "authority"}) /\ read.candidate = Fingerprint
      /\ Keeps(a, gap, {"candidate", "authority", "state", "bar"})
      /\ gap.candidate = Fingerprint /\ gap.state = "AUTHORITY_GAP"
  BY DEF Keeps, IsAttempt, Fields
<1>3. registry = work.registry
  BY DEF Authority
<1>4. \A f \in said : Worded(f)
  BY FindingIsWorded
<1> HIDE DEF read, gap, said, registry
<1>5. CASE ~registry.declared
  <2>1. /\ Keeps(gap, Record(gap, said), {"findings"})
        /\ AllSound(gap) => AllSound(Record(gap, said))
    BY <1>2, <1>4, RecordKeeps, RecordSound DEF Keeps
  <2>2. b = Record(gap, said)
    BY <1>1, <1>5
  <2> HIDE DEF b
  <2>. QED  BY <1>2, <1>3, <1>5, <2>1, <2>2 DEF Keeps, Fields, AllSound, AllKinded, b
<1>6. CASE registry.declared
  <2>1. /\ Keeps(read, frozen, {"bar", "score", "findings"}) /\ frozen.bar # None
        /\ AllSound(read) => AllSound(frozen)
    BY <1>2, <1>3, FreezeKeeps DEF Keeps
  <2> HIDE DEF frozen
  <2>2. /\ Keeps(a, frozen, {"candidate", "authority", "bar", "score", "findings"})
        /\ frozen.candidate = Fingerprint
        /\ AllSound(a) => AllSound(frozen)
        /\ AllKinded(a) => AllKinded(frozen)
    BY <1>2, <2>1 DEF Keeps, Fields, AllSound, AllKinded
  <2>3. /\ Keeps(frozen, moved, {"refs", "findings", "external", "adjudication"})
        /\ AllSound(frozen) => AllSound(moved)
        /\ AllKinded(frozen) => AllKinded(moved)
        /\ moved.adjudication # None =>
             /\ moved.adjudication = frozen.adjudication
             /\ \/ a.candidate = None
                \/ a.candidate = Fingerprint
                \/ RecordOnly(ChangedBetween(a.candidate, Fingerprint))
    <3>1. CASE a.candidate # None /\ a.candidate # Fingerprint
      BY <2>2, <3>1, TreeMovedKeeps DEF Keeps
    <3>2. CASE ~(a.candidate # None /\ a.candidate # Fingerprint)
      BY <2>2, <3>2 DEF Keeps
    <3>. QED  BY <3>1, <3>2
  <2> HIDE DEF moved
  <2>4. /\ Keeps(moved, assembled, {"refs", "findings"})
        /\ AllSound(moved) => AllSound(assembled)
        /\ AllKinded(moved) => AllKinded(assembled)
    BY <2>3, AssembleKeeps DEF Keeps
  <2> HIDE DEF assembled
  <2>5. /\ Keeps(assembled, evidenced, {"refs"})
        /\ AllSound(assembled) => AllSound(evidenced)
        /\ AllKinded(assembled) => AllKinded(evidenced)
    BY <2>4, ImplementationKeeps DEF Keeps
  <2> HIDE DEF evidenced
  <2>6. Keeps(evidenced, owed, {"residual"})
    BY <2>5 DEF Keeps, IsAttempt, Fields
  <2> HIDE DEF owed
  <2>7. Keeps(owed, resolved, {"expected", "external"})
    BY <2>6, ResolveKeeps DEF Keeps
  <2> HIDE DEF resolved
  <2>8. /\ IsAttempt(resolved)
        /\ AllSound(a) => AllSound(resolved)
        /\ AllKinded(a) => AllKinded(resolved)
        /\ resolved.candidate = Fingerprint /\ resolved.bar # None
        /\ resolved.adjudication = moved.adjudication
    BY <2>1, <2>2, <2>3, <2>4, <2>5, <2>6, <2>7 DEF Keeps, Fields, AllSound, AllKinded
  <2>9. /\ Keeps(resolved, gated, {"refs"})
        /\ AllSound(resolved) => AllSound(gated)
        /\ AllKinded(resolved) => AllKinded(gated) /\ GatesAt(gated.refs, gated.candidate)
    BY <2>8, GateEvidenceKeeps, GateEvidenceHere
  <2> HIDE DEF gated
  <2>10. Keeps(gated, stated, {"state"}) /\ stated.state = PreflightState(gated)
    BY <2>9 DEF Keeps, IsAttempt, Fields
  <2>11. PreflightState(gated) \in PreflightStates
    BY DEF PreflightState, PreflightStates
  <2> HIDE DEF stated
  <2>12. b = stated
    BY <1>1, <1>6
  <2>13. /\ IsAttempt(stated) /\ stated.candidate = Fingerprint /\ stated.bar # None
         /\ stated.adjudication = moved.adjudication
         /\ stated.refs = gated.refs /\ stated.findings = gated.findings
         /\ stated.state \in PreflightStates
    BY <2>8, <2>9, <2>10, <2>11 DEF Keeps, Fields
  <2>14. frozen.adjudication = a.adjudication
    BY <2>2 DEF Keeps, Fields
  <2> HIDE DEF b
  <2>15. /\ AllSound(a) => AllSound(stated)
         /\ AllKinded(a) => AllKinded(stated) /\ GatesAt(stated.refs, stated.candidate)
    BY <2>8, <2>9, <2>13 DEF AllSound, AllKinded, Keeps, Fields
  <2>. QED  BY <2>3, <2>12, <2>13, <2>14, <2>15 DEF b
<1>. QED  BY <1>5, <1>6

-----------------------------------------------------------------------------
\* Past preflight an attempt has a bar and gate evidence of the candidate.
Gated(a) ==
  a.state \notin {"NOT_STARTED", "AUTHORITY_GAP"} =>
    GatesAt(a.refs, a.candidate) /\ a.bar # None

\* Readiness to accept rests on established gates.
Settled(a) == a.state = "READY_FOR_ACCEPTANCE_COMMIT" => Established(a)

\* What every saved attempt is.
Whole(a) == IsAttempt(a) /\ AllSound(a) /\ AllKinded(a) /\ Gated(a)

\* The stop rule keeps an attempt whole, and what it calls ready is settled.
LEMMA DecideGood ==
  ASSUME NEW a, Whole(a), a.state # "NOT_STARTED"
  PROVE  LET b == Decide(a)
         IN  /\ Whole(b) /\ Settled(b)
             /\ Keeps(a, b, {"findings", "state"})
             /\ b.state # "NOT_STARTED"
             /\ b.state = "READY_FOR_ACCEPTANCE_COMMIT" /\ ReviewOnes # {} =>
                  Taken(b.adjudication)
<1> DEFINE b == Decide(a)
<1>1. /\ Keeps(a, b, {"findings", "state"})
      /\ AllSound(b)
      /\ a.state = "AUTHORITY_GAP" => b = a
      /\ b.state # "NOT_STARTED"
      /\ b.state = "READY_FOR_ACCEPTANCE_COMMIT" =>
           /\ ~AdjudicationOutstanding(a)
           /\ \A c \in Required \intersect GateOwned : StatusFor(a.refs, c) = "ESTABLISHED"
  BY DecideKeeps DEF Whole
<1> HIDE DEF b
<1>2. /\ b.refs = a.refs /\ b.candidate = a.candidate /\ b.bar = a.bar
      /\ b.adjudication = a.adjudication
  BY <1>1 DEF Keeps, Fields
<1>3. Whole(b)
  BY <1>1, <1>2 DEF Whole, Keeps, AllKinded, Gated
<1>4. CASE b.state = "READY_FOR_ACCEPTANCE_COMMIT"
  <2>1. GatesAt(a.refs, a.candidate) /\ a.bar # None
    BY <1>1, <1>4 DEF Whole, Gated
  <2>2. Established(a)
    BY <1>1, <1>4, <2>1, StatusIsEstablished
  <2>3. ReviewOnes # {} => Taken(a.adjudication)
    BY <1>1, <1>4, <2>1 DEF AdjudicationOutstanding, AdjudicationDemanded
  <2>. QED  BY <1>1, <1>2, <1>3, <2>2, <2>3 DEF Settled, Established, b
<1>5. CASE b.state # "READY_FOR_ACCEPTANCE_COMMIT"
  BY <1>1, <1>3, <1>5 DEF Settled, b
<1>. QED  BY <1>4, <1>5

\* A loaded attempt is whole.
LEMMA LoadGood ==
  ASSUME NEW a, Whole(a)
  PROVE  LET b == Load(a)
         IN  /\ Whole(b) /\ (Settled(a) => Settled(b))
             /\ Keeps(a, b, {"refs", "findings", "state", "rule"})
             /\ a.state # "NOT_STARTED" => b.state # "NOT_STARTED"
<1> DEFINE worded == [a EXCEPT !.findings = Rederive(@, Scores(a))]
           rederived == RefreshReviewEvidence(worded)
           keep(f) == f.id[1] # "INCOMPLETE"
           dropped == [rederived EXCEPT !.findings =
                         {[f EXCEPT !.live = @ /\ keep(f)] : f \in @}]
           withdrawn == IF a.adjudication # None /\ ~Taken(a.adjudication)
                        THEN dropped ELSE rederived
           now == [withdrawn EXCEPT !.rule = "now"]
           b == Load(a)
<1>1. b = IF a.rule = "now" THEN a ELSE IF a.state = "NOT_STARTED" THEN now ELSE Decide(now)
  BY DEF Load
<1>2. Keeps(a, worded, {"findings"}) /\ worded.findings = Rederive(a.findings, Scores(a))
  BY DEF Whole, Keeps, IsAttempt, Fields
<1> HIDE DEF worded
<1>3. AllSound(worded) /\ worded.refs = a.refs /\ worded.candidate = a.candidate
  BY <1>2, ReclassifiedAreSound DEF Whole, AllSound, Keeps, Fields
<1>4. AllKinded(worded) /\ IsAttempt(worded)
  BY <1>2, <1>3 DEF Whole, AllKinded, Keeps
<1>5. /\ Keeps(worded, rederived, {"refs"}) /\ AllSound(rederived)
      /\ AllKinded(rederived)
      /\ GatesAt(worded.refs, worded.candidate) => GatesAt(rederived.refs, rederived.candidate)
  BY <1>3, <1>4, RefreshKeeps, RefreshKinded
<1> HIDE DEF rederived
<1>6. /\ Keeps(rederived, dropped, {"findings"})
      /\ dropped.findings = {[f EXCEPT !.live = @ /\ keep(f)] : f \in rederived.findings}
  BY <1>5 DEF Keeps, IsAttempt, Fields
<1>7. ASSUME NEW f \in rederived.findings
      PROVE  Sound([f EXCEPT !.live = @ /\ keep(f)])
  <2>1. keep(f) \in BOOLEAN /\ (~keep(f) => ~Decisive(f)) /\ Sound(f)
    BY <1>5 DEF AllSound, Sound, Worded, Accusing
  <2> HIDE DEF keep
  <2>. QED  BY <2>1, WithdrawnIsSound
<1>8. AllSound(dropped)
  BY <1>6, <1>7 DEF AllSound
<1> HIDE DEF dropped, keep
<1>9. Keeps(rederived, withdrawn, {"findings"}) /\ AllSound(withdrawn)
  BY <1>5, <1>6, <1>8 DEF Keeps
<1> HIDE DEF withdrawn
<1>10. Keeps(withdrawn, now, {"rule"}) /\ now.findings = withdrawn.findings
  BY <1>9 DEF Keeps, IsAttempt, Fields
<1> HIDE DEF now
<1>11. /\ Keeps(a, now, {"refs", "findings", "rule"})
       /\ AllSound(now)
       /\ now.refs = rederived.refs /\ now.candidate = rederived.candidate
       /\ now.candidate = a.candidate /\ now.state = a.state /\ now.bar = a.bar
  BY <1>2, <1>5, <1>9, <1>10 DEF Keeps, Fields, AllSound
<1>12. Whole(now)
  BY <1>3, <1>5, <1>11 DEF Whole, Keeps, AllKinded, Gated
<1> HIDE DEF b
<1>13. CASE a.rule = "now"
  BY <1>1, <1>13 DEF Whole, Keeps, b
<1>14. CASE a.rule # "now" /\ a.state = "NOT_STARTED"
  <2>1. b = now
    BY <1>1, <1>14
  <2>. QED  BY <1>11, <1>12, <1>14, <2>1 DEF Settled, Keeps, b
<1>15. CASE a.rule # "now" /\ a.state # "NOT_STARTED"
  <2>1. b = Decide(now)
    BY <1>1, <1>15
  <2>2. /\ Whole(b) /\ Settled(b) /\ b.state # "NOT_STARTED"
        /\ Keeps(now, b, {"findings", "state"})
    BY <1>11, <1>12, <1>15, <2>1, DecideGood
  <2>3. Keeps(a, b, {"refs", "findings", "state", "rule"})
    BY <1>11, <2>2 DEF Keeps
  <2>. QED  BY <2>2, <2>3 DEF b
<1>. QED  BY <1>13, <1>14, <1>15

\* Only the gates' evidence and what is said changes: what was gated stays gated.
LEMMA SpokenGood ==
  ASSUME NEW a, NEW b, Whole(a), Keeps(a, b, {"external", "history", "adjudication", "findings"}),
         AllSound(b)
  PROVE  /\ Whole(b) /\ (Settled(a) => Settled(b))
         /\ LET c == AttachGateEvidence(b)
            IN  /\ Whole(c) /\ Keeps(b, c, {"refs"})
         /\ LET c == RefreshReviewEvidence(b)
            IN  /\ Whole(c) /\ Keeps(b, c, {"refs"})
<1>1. IsAttempt(b) /\ b.refs = a.refs /\ b.candidate = a.candidate /\ b.state = a.state
      /\ b.bar = a.bar
  BY DEF Keeps, Fields
<1>2. Whole(b) /\ (Settled(a) => Settled(b))
  BY <1>1 DEF Whole, AllKinded, Gated, Settled, Established
<1>3. ASSUME NEW c, Keeps(b, c, {"refs"}), AllKinded(c),
             GatesAt(b.refs, b.candidate) => GatesAt(c.refs, c.candidate)
      PROVE  Whole(c)
  BY <1>2, <1>3 DEF Whole, Keeps, Fields, AllSound, Gated
<1>4. LET c == AttachGateEvidence(b) IN Whole(c) /\ Keeps(b, c, {"refs"})
  BY <1>2, <1>3, GateEvidenceKeeps, GateEvidenceHere DEF Whole
<1>5. LET c == RefreshReviewEvidence(b) IN Whole(c) /\ Keeps(b, c, {"refs"})
  BY <1>2, <1>3, RefreshKeeps, RefreshKinded DEF Whole
<1>. QED  BY <1>2, <1>4, <1>5

\* An external record, supplied or probed, keeps an attempt whole.
LEMMA ExternalGood ==
  ASSUME NEW a, Whole(a), NEW evidence, NEW read \in BOOLEAN
  PROVE  LET b == RecordExternal(a, evidence, read)
         IN  /\ Whole(b)
             /\ Keeps(a, b, {"external", "findings", "refs"})
             /\ Settled(a) /\ ~read => Settled(b)
<1> DEFINE class ==
             CASE evidence.status = "INFRASTRUCTURE" -> "CI_INFRASTRUCTURE_DEFECT"
               [] /\ evidence.status # "INFRASTRUCTURE"
                  /\ evidence.head # a.expected -> "STALE_VERIFICATION"
               [] OTHER -> IF evidence.status = "FAILURE" THEN "PRODUCT_DEFECT"
                           ELSE "EVIDENCE_GAP"
           id == <<"EXTERNAL", evidence.status, evidence.head>>
           shown == class = "PRODUCT_DEFECT"
           said == Finding(id, class, ExternalOnes, shown, None)
           taken == [a EXCEPT !.external = evidence]
           after == IF Satisfies(a, evidence) THEN taken ELSE Record(a, {said})
           b == RecordExternal(a, evidence, read)
<1>1. b = IF read THEN AttachGateEvidence(after) ELSE after
  BY DEF RecordExternal
<1>2. id[1] \in Accusing
  BY DEF Accusing
<1> HIDE DEF class, id, shown
<1>3. Worded(said)
  BY <1>2, FindingIsWorded
<1> HIDE DEF said
<1>4. /\ Keeps(a, taken, {"external"})
      /\ Keeps(a, Record(a, {said}), {"findings"})
      /\ AllSound(Record(a, {said}))
  BY <1>3, RecordKeeps, RecordSound DEF Whole, Keeps, IsAttempt, Fields
<1>5. taken.findings = a.findings
  BY <1>4 DEF Keeps, Fields
<1> HIDE DEF taken
<1>6. Keeps(a, after, {"external", "findings"}) /\ AllSound(after)
  BY <1>4, <1>5 DEF Whole, Keeps, AllSound
<1> HIDE DEF after
<1>7. /\ Whole(after) /\ (Settled(a) => Settled(after))
      /\ Whole(AttachGateEvidence(after))
      /\ Keeps(after, AttachGateEvidence(after), {"refs"})
  BY <1>6, SpokenGood DEF Keeps
<1>. QED  BY <1>1, <1>6, <1>7 DEF Keeps

\* What a reply raises is worded.
LEMMA ReviewFindingsWorded ==
  ASSUME NEW a, NEW reply
  PROVE  \A f \in ReviewFindings(a, reply) : Worded(f)
<1> DEFINE shown == reply.shows # {}
           yes == TRUE
           no == FALSE
           failed == {c \in Required : reply.scores[c] = "FAIL"}
           fails == {Finding(<<"ADJUDICATED-FAIL", c>>, "PRODUCT_DEFECT", {c}, yes, None) :
                       c \in failed \ GateOwned}
           dissents == {Finding(<<"REVIEWER-DISSENT", c>>, "VERIFICATION_GAP", {}, no,
                                Identity(a.adjudication)) : c \in failed \intersect GateOwned}
           written == {Finding(<<"REVIEW-01">>, reply.class, reply.shows, shown, None) :
                         i \in IF reply.class = None THEN {} ELSE {1}}
<1>1. ReviewFindings(a, reply) = fails \union dissents \union written
  BY DEF ReviewFindings
<1>2. ~no
  OBVIOUS
<1> HIDE DEF shown, yes, no, failed
<1>3. \A f \in fails : Worded(f)
  <2>1. ASSUME NEW c
        PROVE  Worded(Finding(<<"ADJUDICATED-FAIL", c>>, "PRODUCT_DEFECT", {c}, yes, None))
    <3> DEFINE id == <<"ADJUDICATED-FAIL", c>>
    <3>1. id[1] \in Accusing
      BY DEF Accusing
    <3> HIDE DEF id
    <3>2. Worded(Finding(id, "PRODUCT_DEFECT", {c}, yes, None))
      BY <3>1, FindingIsWorded
    <3>. QED  BY <3>2 DEF id
  <2>. QED  BY <2>1
<1>4. \A f \in dissents : Worded(f)
  BY <1>2, FindingIsWorded DEF Statements
<1>5. \A f \in written : Worded(f)
  BY FindingIsWorded DEF Accusing
<1>. QED  BY <1>1, <1>3, <1>4, <1>5

\* An ingested reply leaves the attempt whole.
LEMMA IngestGood ==
  ASSUME NEW a, Whole(a), NEW reply, NEW session, NEW tree, NEW read \in BOOLEAN
  PROVE  LET b == Ingest(a, reply, session, tree, read)
         IN  /\ Whole(b)
             /\ Keeps(a, b, {"history", "adjudication", "findings", "refs"})
             /\ b.adjudication.independent => b.adjudication.tree = a.candidate
<1> DEFINE adjudication ==
             [session |-> session, tree |-> tree, scores |-> reply.scores,
              shows |-> reply.shows,
              independent |-> Independent(a, reply, tree),
              attempt |-> a.history + (IF a.adjudication = None THEN 0 ELSE 1) + 1]
           kept == [a EXCEPT !.history = @ + (IF a.adjudication = None THEN 0 ELSE 1),
                             !.adjudication = adjudication]
           dependent == Finding(<<"REVIEW-NOT-INDEPENDENT">>, "VERIFICATION_GAP", {}, FALSE, None)
           noted == IF adjudication.independent THEN kept ELSE Record(kept, {dependent})
           retired == RetireStatements(noted)
           heard == IF Complete(reply.scores)
                    THEN Record(retired, ReviewFindings(retired, reply))
                    ELSE RecordProtocolFailure(retired)
           again == [heard EXCEPT !.findings = Reclassify(@, Scores(heard))]
           b == Ingest(a, reply, session, tree, read)
<1>1. b = IF read THEN AttachGateEvidence(again) ELSE RefreshReviewEvidence(again)
  BY DEF Ingest
<1>2. adjudication.tree = tree /\ adjudication.independent = Independent(a, reply, tree)
  OBVIOUS
<1> HIDE DEF adjudication
<1>3. /\ Keeps(a, kept, {"history", "adjudication"})
      /\ kept.adjudication = adjudication
      /\ kept.findings = a.findings
  BY DEF Whole, Keeps, IsAttempt, Fields
<1>4. Worded(dependent)
  BY FindingIsWorded
<1> HIDE DEF kept, dependent
<1>5. IsAttempt(kept) /\ AllSound(kept)
  BY <1>3 DEF Whole, AllSound, Keeps
<1>6. Keeps(kept, noted, {"findings"}) /\ AllSound(noted)
  <2>1. Keeps(kept, kept, {"findings"})
    BY <1>5 DEF Keeps
  <2>. QED  BY <1>4, <1>5, <2>1, RecordKeeps, RecordSound
<1> HIDE DEF noted
<1>7. Keeps(noted, retired, {"findings"}) /\ AllSound(retired)
  BY <1>6, RetireKeeps DEF Keeps
<1> HIDE DEF retired
<1>8. Keeps(retired, heard, {"findings"}) /\ AllSound(heard)
  BY <1>7, ReviewFindingsWorded, RecordKeeps, RecordSound, ProtocolFailureKeeps DEF Keeps
<1> HIDE DEF heard
<1>9. /\ Keeps(heard, again, {"findings"})
      /\ again.findings = Reclassify(heard.findings, Scores(heard))
  BY <1>8 DEF Keeps, IsAttempt, Fields
<1>10. AllSound(again)
  BY <1>8, <1>9, ReclassifiedAreSound DEF AllSound
<1> HIDE DEF again
<1>11. /\ Keeps(a, again, {"history", "adjudication", "findings"})
       /\ again.adjudication = adjudication
  BY <1>3, <1>6, <1>7, <1>8, <1>9 DEF Keeps, Fields
<1>12. /\ Whole(AttachGateEvidence(again)) /\ Keeps(again, AttachGateEvidence(again), {"refs"})
       /\ Whole(RefreshReviewEvidence(again))
       /\ Keeps(again, RefreshReviewEvidence(again), {"refs"})
  BY <1>10, <1>11, SpokenGood DEF Keeps
<1> HIDE DEF b
<1>13. Whole(b) /\ Keeps(again, b, {"refs"})
  BY <1>1, <1>12
<1>14. b.adjudication = adjudication
  BY <1>11, <1>13 DEF Keeps, Fields
<1>. QED  BY <1>2, <1>11, <1>13, <1>14 DEF Independent, Keeps, b

\* A gap in the record leaves the attempt whole and unready.
LEMMA GapFoundGood ==
  ASSUME NEW a, Whole(a), NEW id
  PROVE  LET b == RecordGapFound(a, id)
         IN  /\ Whole(b) /\ Settled(b)
             /\ Keeps(a, b, {"findings", "state"}) /\ b.state = "AUTHORITY_GAP"
<1> DEFINE said == Finding(<<id>>, "AUTHORITY_GAP", {}, FALSE, None)
           spoken == Record(a, {said})
           b == RecordGapFound(a, id)
<1>1. b = [spoken EXCEPT !.state = "AUTHORITY_GAP"]
  BY DEF RecordGapFound
<1>2. Worded(said)
  BY FindingIsWorded
<1> HIDE DEF said, b
<1>3. Keeps(a, spoken, {"findings"}) /\ AllSound(spoken)
  BY <1>2, RecordKeeps, RecordSound DEF Whole
<1> HIDE DEF spoken
<1>4. /\ Keeps(spoken, b, {"state"}) /\ b.state = "AUTHORITY_GAP"
      /\ b.findings = spoken.findings
  BY <1>1, <1>3 DEF Keeps, IsAttempt, Fields
<1>5. Keeps(a, b, {"findings", "state"}) /\ b.refs = a.refs
  BY <1>3, <1>4 DEF Keeps, Fields
<1>. QED  BY <1>3, <1>4, <1>5 DEF Whole, AllSound, AllKinded, Gated, Settled, Keeps, b

-----------------------------------------------------------------------------
\* The shape of a registry.
IsRegistry(r) ==
  r \in [declared : {r.declared}, bar : Nat, landed : {r.landed},
         residual : {r.residual}, plain : {r.plain}, units : {r.units}]

\* The shape of a tree.
IsTree(t) ==
  /\ t \in [code : {t.code}, test : {t.test}, registry : {t.registry}, doc : {t.doc}]
  /\ IsRegistry(t.registry)

\* The shape of a running close.
IsClose(c) ==
  c \in [pc : {c.pc}, tree : {c.tree}, original : {c.original}, record : {c.record},
         red : {c.red}, broken : {c.broken}]

\* The shape of an acceptance.
IsAcceptance(x) ==
  x \in [candidate : {x.candidate}, tree : {x.tree}, head : {x.head},
         adjudication : {x.adjudication}, verified : BOOLEAN]

\* A close that has begun to write its record.
Recording == {"document", "verify", "weigh", "baseline"}

\* A close that writes holds both trees and has an acceptance to settle.
Writing(c) ==
  c.pc \in Recording =>
    /\ IsRegistry(c.original.registry)
    /\ IsRegistry(c.record.registry)
    /\ IsAcceptance(accepted)

\* What a close knows of the attempt at each of its steps.
Reading(a, pc) ==
  /\ Whole(a)
  /\ pc # "idle" => a.state # "NOT_STARTED"
  /\ pc \in {"launch", "review", "correct"} => a.state = "READY_FOR_ADJUDICATION"
  /\ pc = "record" => /\ Established(a)
                      /\ ReviewOnes # {} => Taken(a.adjudication)

\* No acceptance record has been kept.
Owing == accepted = None \/ ~accepted.verified

\* The invariant of the attempt and of the close that runs.
AInv ==
  /\ IsTree(work)
  /\ IsClose(close)
  /\ Writing(close)
  /\ accepted # None => IsAcceptance(accepted)
  /\ Reading(attempt, close.pc)
  /\ Owing => Settled(attempt)

\* The absent value is neither a fingerprint nor an acceptance.
NoneIsApart ==
  /\ \A h, t : None # [head |-> h, tree |-> t]
  /\ ~IsAcceptance(None)

\* A preflight of a loaded attempt is whole and claims no readiness.
LEMMA PreflightReads ==
  ASSUME IsTree(work), NEW a, Whole(a), NEW pointed, pointed \subseteq Ordinary,
         NEW pc \in {"idle", "gate"}
  PROVE  LET b == Preflight(Load(a), pointed) IN Reading(b, pc) /\ Settled(b)
<1> DEFINE l == Load(a)
           b == Preflight(l, pointed)
<1>1. Whole(l)
  BY LoadGood
<1>2. work.registry.bar # None
  BY ClosureAssumption DEF IsTree, IsRegistry
<1> HIDE DEF l
<1>3. /\ IsAttempt(b) /\ AllSound(b) /\ AllKinded(b)
      /\ b.state \in PreflightStates \union {"AUTHORITY_GAP"}
      /\ b.state # "AUTHORITY_GAP" => GatesAt(b.refs, b.candidate) /\ b.bar # None
  BY <1>1, <1>2, PreflightKeeps DEF Whole
<1> HIDE DEF b
<1>4. Reading(b, pc) /\ Settled(b)
  BY <1>3 DEF Reading, Whole, Gated, Settled, PreflightStates
<1>. QED  BY <1>4 DEF b, l

\* A written registry is a registry.
LEMMA WrittenRegistry ==
  ASSUME NEW registry, IsRegistry(registry), NEW doc, NEW after
  PROVE  IsRegistry(Rendered(registry, doc, after).registry)
BY DEF Rendered, Written, IsRegistry

\* The invariant holds at the start.
LEMMA InitAInv == Init => AInv
<1> SUFFICES ASSUME Init PROVE AInv
  OBVIOUS
<1>1. IsRegistry(FirstRegistry)
  BY ClosureAssumption DEF RegistryType, IsRegistry
<1>2. IsTree(work)
  BY <1>1 DEF Init, FirstTree, IsTree
<1>3. IsClose(close) /\ close.pc = "idle"
  BY DEF Init, Idle, IsClose
<1>4. /\ IsAttempt(attempt) /\ attempt.state = "NOT_STARTED"
      /\ attempt.refs = {} /\ attempt.findings = {}
  BY DEF Init, Fresh, IsAttempt
<1>5. Whole(attempt) /\ Settled(attempt)
  BY <1>4 DEF Whole, AllSound, AllKinded, Gated, Settled
<1>. QED  BY <1>2, <1>3, <1>4, <1>5 DEF AInv, Writing, Recording, Reading, Init

\* What the repository goes through leaves the attempt alone.
LEMMA RepositoryMoves ==
  ASSUME AInv,
         EditProduct \/ EditTest \/ EditRegistry \/ EditDocument \/ Commit \/ Pull
  PROVE  AInv'
<1>1. UNCHANGED <<attempt, close, accepted>>
  BY DEF EditProduct, EditTest, EditRegistry, EditDocument, Commit, Pull, MoveRepository
<1>2. \A r \in Registries : IsRegistry(r)
  BY ClosureAssumption DEF RegistryType, IsRegistry
<1>3. IsTree(work')
  <2>1. CASE EditProduct
    BY <2>1 DEF AInv, IsTree, EditProduct
  <2>2. CASE EditTest
    BY <2>2 DEF AInv, IsTree, EditTest
  <2>3. CASE EditRegistry
    BY <1>2, <2>3 DEF AInv, IsTree, EditRegistry
  <2>4. CASE EditDocument
    BY <2>4 DEF AInv, IsTree, EditDocument
  <2>5. CASE Commit
    BY <2>5 DEF AInv, Commit
  <2>6. CASE Pull
    BY <1>2, <2>6 DEF AInv, IsTree, Pull
  <2>. QED  BY <2>1, <2>2, <2>3, <2>4, <2>5, <2>6
<1>. QED  BY <1>1, <1>3 DEF AInv, Writing, Owing

\* Going on moves the program counter alone.
LEMMA GotoKeeps ==
  ASSUME IsClose(close), NEW pc, Goto(pc)
  PROVE  /\ IsClose(close') /\ close'.pc = pc
         /\ close'.original = close.original /\ close'.record = close.record
         /\ close'.tree = close.tree /\ close'.red = close.red
         /\ close'.broken = close.broken
BY DEF IsClose, Goto

\* A close that ends is idle.
LEMMA IdleKeeps ==
  ASSUME close' = Idle
  PROVE  IsClose(close') /\ close'.pc = "idle"
BY DEF IsClose, Idle

\* The commands a founder gives, and the closure rule of another driver.
LEMMA CommandsKeep ==
  ASSUME AInv, UpgradeRule \/ PhasePreflight \/ SupplyExternal \/ PhaseClose
  PROVE  AInv'
<1> USE DEF AInv
<1>1. CASE UpgradeRule
  <2>1. /\ attempt' = [attempt EXCEPT !.rule = "old"]
        /\ UNCHANGED <<work, close, accepted>>
    BY <1>1 DEF UpgradeRule
  <2>2. Keeps(attempt, attempt', {"rule"}) /\ attempt'.findings = attempt.findings
    BY <2>1 DEF Reading, Whole, Keeps, IsAttempt, Fields
  <2>3. /\ attempt'.refs = attempt.refs /\ attempt'.candidate = attempt.candidate
        /\ attempt'.state = attempt.state /\ attempt'.bar = attempt.bar
        /\ attempt'.adjudication = attempt.adjudication
    BY <2>2 DEF Keeps, Fields
  <2>4. Whole(attempt') /\ (Settled(attempt) => Settled(attempt'))
    BY <2>2, <2>3 DEF Reading, Whole, Keeps, AllSound, AllKinded, Gated, Settled, Established
  <2>5. Reading(attempt', close'.pc)
    BY <2>1, <2>3, <2>4 DEF Reading, Established
  <2>. QED  BY <2>1, <2>4, <2>5 DEF Writing, Owing
<1>2. CASE PhasePreflight
  <2>1. /\ close.pc = "idle"
        /\ \E pointed \in {{}, Ordinary} : attempt' = Preflight(Load(attempt), pointed)
        /\ UNCHANGED <<work, close, accepted>>
    BY <1>2 DEF PhasePreflight, Command
  <2>2. Reading(attempt', "idle") /\ Settled(attempt')
    BY <2>1, PreflightReads DEF Reading
  <2>. QED  BY <2>1, <2>2 DEF Writing, Owing
<1>3. CASE SupplyExternal
  <2>1. PICK evidence :
          /\ close.pc = "idle"
          /\ attempt.state # "NOT_STARTED"
          /\ attempt' = LET loaded == Load(attempt)
                            recorded == RecordExternal(loaded, evidence, FALSE)
                        IN IF Satisfies(loaded, evidence) THEN Decide(recorded) ELSE recorded
          /\ UNCHANGED <<work, close, accepted>>
    BY <1>3 DEF SupplyExternal, Command
  <2> DEFINE loaded == Load(attempt)
             recorded == RecordExternal(loaded, evidence, FALSE)
  <2>2. /\ Whole(loaded) /\ (Settled(attempt) => Settled(loaded))
        /\ loaded.state # "NOT_STARTED"
    BY <2>1, LoadGood DEF Reading
  <2>3. attempt' = IF Satisfies(loaded, evidence) THEN Decide(recorded) ELSE recorded
    BY <2>1
  <2> HIDE DEF loaded
  <2>4. /\ Whole(recorded) /\ (Settled(loaded) => Settled(recorded))
        /\ Keeps(loaded, recorded, {"external", "findings", "refs"})
    BY <2>2, ExternalGood
  <2>5. recorded.state # "NOT_STARTED"
    BY <2>2, <2>4 DEF Keeps, Fields
  <2> HIDE DEF recorded
  <2>6. Whole(Decide(recorded)) /\ Settled(Decide(recorded))
        /\ Decide(recorded).state # "NOT_STARTED"
    BY <2>4, <2>5, DecideGood
  <2>7. Whole(attempt') /\ (Settled(attempt) => Settled(attempt'))
    BY <2>2, <2>3, <2>4, <2>6
  <2>. QED  BY <2>1, <2>7 DEF Reading, Writing, Recording, Owing
<1>4. CASE PhaseClose
  <2>1. /\ attempt' = Preflight(Load(attempt), {})
        /\ Goto("gate")
        /\ UNCHANGED <<work, accepted>>
    BY <1>4 DEF PhaseClose
  <2>2. Reading(attempt', "gate") /\ Settled(attempt')
    BY <2>1, PreflightReads DEF Reading
  <2>3. IsClose(close') /\ close'.pc = "gate"
    BY <2>1, GotoKeeps
  <2>. QED  BY <2>1, <2>2, <2>3 DEF Writing, Recording, Owing
<1>. QED  BY <1>1, <1>2, <1>3, <1>4

\* A settled state, and what the command goes on to do.
\* The stop rule sends a close on with what its next step needs.
LEMMA DecisionReads ==
  ASSUME NEW a, Whole(a), a.state # "NOT_STARTED"
  PROVE  LET b == Decide(a)
         IN  /\ Settled(b)
             /\ \A pc \in {"gate", "finish", "uncounted", "idle"} : Reading(b, pc)
             /\ b.state = "READY_FOR_ADJUDICATION" => Reading(b, "launch")
             /\ b.state = "READY_FOR_ACCEPTANCE_COMMIT" => Reading(b, "record")
BY DecideGood DEF Reading, Settled

\* The steps of a command up to the acceptance record.
LEMMA AdjudicationKeeps ==
  ASSUME AInv,
         \/ AskGate \/ Launch \/ Decline \/ Reply \/ NoSecondReply
         \/ Uncounted \/ Finish
  PROVE  AInv'
<1> USE DEF AInv
<1>1. CASE AskGate
  <2>1. /\ close.pc = "gate" /\ UNCHANGED <<work, accepted>>
        /\ Goto(IF attempt'.state = "READY_FOR_ADJUDICATION" THEN "launch" ELSE "finish")
    BY <1>1 DEF AskGate
  <2>2. PICK a : Whole(a) /\ a.state # "NOT_STARTED" /\ attempt' = Decide(a)
    <3>1. Whole(attempt) /\ attempt.state # "NOT_STARTED"
      BY <2>1 DEF Reading
    <3>2. CASE \E evidence : attempt' = Decide(RecordExternal(attempt, evidence, TRUE))
      <4>1. PICK evidence : attempt' = Decide(RecordExternal(attempt, evidence, TRUE))
        BY <3>2
      <4> DEFINE a == RecordExternal(attempt, evidence, TRUE)
      <4>2. Whole(a) /\ Keeps(attempt, a, {"external", "findings", "refs"})
        BY <3>1, ExternalGood
      <4>3. a.state # "NOT_STARTED"
        BY <3>1, <4>2 DEF Keeps, Fields
      <4>. QED  BY <4>1, <4>2, <4>3
    <3>3. CASE attempt' = Decide(attempt)
      BY <3>1, <3>3
    <3>. QED  BY <1>1, <3>2, <3>3 DEF AskGate
  <2>3. /\ Settled(attempt') /\ Reading(attempt', "finish")
        /\ attempt'.state = "READY_FOR_ADJUDICATION" => Reading(attempt', "launch")
    BY <2>2, DecisionReads
  <2>4. /\ IsClose(close') /\ close'.pc \in {"launch", "finish"}
        /\ close'.pc = "launch" => attempt'.state = "READY_FOR_ADJUDICATION"
    BY <2>1, GotoKeeps
  <2>. QED  BY <2>1, <2>3, <2>4 DEF Writing, Recording, Owing
<1>2. CASE Launch
  <2>1. /\ close.pc = "launch" /\ UNCHANGED <<work, accepted, attempt>>
        /\ close' = [close EXCEPT !.pc = "review", !.tree = Fingerprint]
    BY <1>2 DEF Launch
  <2>2. IsClose(close') /\ close'.pc = "review"
    BY <2>1 DEF IsClose
  <2>. QED  BY <2>1, <2>2 DEF Reading, Writing, Recording, Owing
<1>3. CASE Decline
  <2>1. /\ close.pc = "launch" /\ UNCHANGED <<work, accepted, attempt>>
        /\ IsClose(close') /\ close'.pc = "finish"
    BY <1>3, GotoKeeps DEF Decline
  <2>. QED  BY <2>1 DEF Reading, Writing, Recording, Owing
<1>4. CASE Reply
  <2>1. PICK reply : attempt' = Ingest(attempt, reply, sessions, close.tree, TRUE)
    BY <1>4 DEF Reply
  <2>2. /\ close.pc \in {"review", "correct"} /\ UNCHANGED <<work, accepted>>
        /\ \E pc \in {"correct", "finish", "uncounted"} : Goto(pc)
    BY <1>4 DEF Reply
  <2>3. /\ Whole(attempt')
        /\ Keeps(attempt, attempt', {"history", "adjudication", "findings", "refs"})
    BY <2>1, IngestGood DEF Reading
  <2>4. attempt'.state = "READY_FOR_ADJUDICATION"
    BY <2>2, <2>3 DEF Reading, Keeps, Fields
  <2>5. IsClose(close') /\ close'.pc \in {"correct", "finish", "uncounted"}
    BY <2>2, GotoKeeps
  <2>. QED  BY <2>2, <2>3, <2>4, <2>5 DEF Reading, Writing, Recording, Settled
<1>5. CASE NoSecondReply
  <2>1. /\ close.pc = "correct" /\ UNCHANGED <<work, accepted, attempt>>
        /\ IsClose(close') /\ close'.pc = "uncounted"
    BY <1>5, GotoKeeps DEF NoSecondReply
  <2>. QED  BY <2>1 DEF Reading, Writing, Recording, Owing
<1>6. CASE Uncounted
  <2>1. /\ close.pc = "uncounted" /\ UNCHANGED <<work, accepted>>
        /\ attempt' = Decide(attempt) /\ IsClose(close') /\ close'.pc = "idle"
    BY <1>6, IdleKeeps DEF Uncounted
  <2>2. Settled(attempt') /\ Reading(attempt', "idle")
    BY <2>1, DecisionReads DEF Reading
  <2>. QED  BY <2>1, <2>2 DEF Writing, Recording, Owing
<1>7. CASE Finish
  <2>1. /\ close.pc = "finish" /\ UNCHANGED <<work, accepted>>
        /\ attempt' = Decide(attempt) /\ IsClose(close')
        /\ \/ close'.pc = "idle"
           \/ attempt'.state = "READY_FOR_ACCEPTANCE_COMMIT" /\ close'.pc = "record"
    BY <1>7, IdleKeeps, GotoKeeps DEF Finish
  <2>2. /\ Settled(attempt') /\ Reading(attempt', "idle")
        /\ attempt'.state = "READY_FOR_ACCEPTANCE_COMMIT" => Reading(attempt', "record")
    BY <2>1, DecisionReads DEF Reading
  <2>. QED  BY <2>1, <2>2 DEF Writing, Recording, Owing
<1>. QED  BY <1>1, <1>2, <1>3, <1>4, <1>5, <1>6, <1>7

\* The acceptance record is written, weighed, kept or rolled back.
LEMMA RecordingKeeps ==
  ASSUME NoneIsApart, AInv,
         \/ WriteRecord \/ NoRecord \/ WriteDocument \/ RunGuards \/ GuardFails
         \/ Baseline \/ KeepRecord \/ RollBackRecord \/ Crash
  PROVE  AInv'
<1> USE DEF AInv
<1>1. CASE WriteRecord
  <2> DEFINE record == Rendered(work.registry, work.doc, RecordedUnits(work.registry.units))
             original == [registry |-> work.registry, doc |-> work.doc]
             over == [candidate |-> attempt.candidate, tree |-> work,
                      head |-> HeadCommit, adjudication |-> attempt.adjudication,
                      verified |-> FALSE]
  <2>1. /\ close.pc = "record" /\ UNCHANGED attempt
        /\ work' = [work EXCEPT !.registry = record.registry]
        /\ close' = [close EXCEPT !.pc = "document", !.record = record,
                                  !.original = original]
        /\ accepted' = over
    BY <1>1 DEF WriteRecord
  <2>2. IsRegistry(record.registry)
    BY WrittenRegistry DEF IsTree
  <2>3. original.registry = work.registry
    OBVIOUS
  <2>4. IsAcceptance(over)
    BY DEF IsAcceptance
  <2> HIDE DEF record, original, over
  <2>5. IsTree(work')
    BY <2>1, <2>2 DEF IsTree
  <2>6. /\ IsClose(close') /\ close'.pc = "document"
        /\ close'.record = record /\ close'.original = original
    BY <2>1 DEF IsClose
  <2>7. Writing(close)'
    BY <2>1, <2>2, <2>3, <2>4, <2>6 DEF Writing, IsTree
  <2>8. Settled(attempt) /\ Reading(attempt, "document")
    BY <2>1 DEF Reading, Settled
  <2>. QED  BY <2>1, <2>4, <2>5, <2>6, <2>7, <2>8
<1>2. CASE NoRecord
  <2>1. /\ close.pc = "record" /\ UNCHANGED <<work, accepted>>
        /\ IsClose(close') /\ close'.pc = "idle"
        /\ attempt' = RecordGapFound(attempt, "RECORD-AUTHORITY-GAP") \/ UNCHANGED attempt
    BY <1>2, IdleKeeps DEF NoRecord
  <2>2. Reading(attempt', "idle") /\ (Settled(attempt) => Settled(attempt'))
    BY <2>1, GapFoundGood DEF Reading
  <2>. QED  BY <2>1, <2>2 DEF Writing, Recording, Owing
<1>3. CASE WriteDocument
  <2>1. /\ close.pc = "document" /\ UNCHANGED <<attempt, accepted>>
        /\ work' = [work EXCEPT !.doc = close.record.doc]
        /\ IsClose(close') /\ close'.pc = "verify"
        /\ close'.record = close.record /\ close'.original = close.original
    BY <1>3, GotoKeeps DEF WriteDocument
  <2>2. IsTree(work')
    BY <2>1 DEF IsTree
  <2>. QED  BY <2>1, <2>2 DEF Reading, Writing, Recording, Owing
<1>4. CASE RunGuards
  <2>1. /\ close.pc = "verify" /\ UNCHANGED <<attempt, accepted, work>>
        /\ \E red : close' = [close EXCEPT !.pc = "weigh", !.red = red]
    BY <1>4 DEF RunGuards
  <2>2. /\ IsClose(close') /\ close'.pc = "weigh"
        /\ close'.record = close.record /\ close'.original = close.original
    BY <2>1 DEF IsClose
  <2>. QED  BY <2>1, <2>2 DEF Reading, Writing, Recording, Owing
<1>5. CASE GuardFails
  <2>1. /\ close.pc = "weigh" /\ UNCHANGED <<attempt, accepted>>
        /\ work' = [work EXCEPT !.registry = close.original.registry,
                                !.doc = close.original.doc]
        /\ IsClose(close') /\ close'.pc = "baseline"
        /\ close'.record = close.record /\ close'.original = close.original
    BY <1>5, GotoKeeps DEF GuardFails, Put
  <2>2. IsTree(work')
    BY <2>1 DEF IsTree, Writing, Recording
  <2>. QED  BY <2>1, <2>2 DEF Reading, Writing, Recording, Owing
<1>6. CASE Baseline
  <2>1. /\ close.pc = "baseline" /\ UNCHANGED <<attempt, accepted>>
        /\ work' = [work EXCEPT !.registry = close.record.registry,
                                !.doc = close.record.doc]
        /\ \E red, broken :
             close' = [close EXCEPT !.pc = "weigh", !.red = red, !.broken = broken]
    <3>1. PICK guard \in close.red : \E answer \in RunVerification({guard}) :
            close' = [close EXCEPT !.pc = "weigh", !.red = @ \ {guard},
                        !.broken = @ \/ answer[guard] = "passed"]
      BY <1>6 DEF Baseline
    <3>2. PICK answer \in RunVerification({guard}) :
            close' = [close EXCEPT !.pc = "weigh", !.red = @ \ {guard},
                        !.broken = @ \/ answer[guard] = "passed"]
      BY <3>1
    <3> DEFINE red == close.red \ {guard}
               broken == close.broken \/ answer[guard] = "passed"
    <3>3. close' = [close EXCEPT !.pc = "weigh", !.red = red, !.broken = broken]
      BY <3>2
    <3> HIDE DEF red, broken
    <3>. QED  BY <1>6, <3>3 DEF Baseline, Put
  <2>2. IsTree(work')
    BY <2>1 DEF IsTree, Writing, Recording
  <2>3. /\ IsClose(close') /\ close'.pc = "weigh"
        /\ close'.record = close.record /\ close'.original = close.original
    BY <2>1 DEF IsClose
  <2>. QED  BY <2>1, <2>2, <2>3 DEF Reading, Writing, Recording, Owing
<1>7. CASE KeepRecord
  <2> DEFINE here == Fingerprint
             moved == TreeMoved(attempt, attempt.candidate, here)
  <2>1. /\ close.pc = "weigh" /\ UNCHANGED work
        /\ attempt' = [moved EXCEPT !.candidate = here]
        /\ accepted' = [accepted EXCEPT !.verified = TRUE]
        /\ IsClose(close') /\ close'.pc = "idle"
    BY <1>7, IdleKeeps DEF KeepRecord, Weighed
  <2>2. Whole(attempt) /\ attempt.state # "NOT_STARTED"
    BY <2>1 DEF Reading
  <2>3. /\ Keeps(attempt, moved, {"refs", "findings", "external", "adjudication"})
        /\ AllSound(moved) /\ AllKinded(moved)
        /\ GatesAt(attempt.refs, attempt.candidate) => GatesAt(moved.refs, here)
    BY <2>2, TreeMovedKeeps DEF Whole
  <2> HIDE DEF here, moved
  <2>4. /\ Keeps(moved, attempt', {"candidate"}) /\ attempt'.candidate = here
        /\ attempt'.findings = moved.findings
    BY <2>1, <2>3 DEF Keeps, IsAttempt, Fields
  <2>5. /\ attempt'.refs = moved.refs /\ attempt'.state = attempt.state
        /\ attempt'.bar = attempt.bar
    BY <2>3, <2>4 DEF Keeps, Fields
  <2>6. Reading(attempt', "idle")
    BY <2>2, <2>3, <2>4, <2>5 DEF Reading, Whole, AllSound, AllKinded, Gated, Keeps
  <2>7. IsAcceptance(accepted') /\ accepted'.verified = TRUE
    BY <2>1 DEF Writing, Recording, IsAcceptance
  <2>8. accepted' # None
    BY <2>7 DEF NoneIsApart
  <2>. QED  BY <2>1, <2>6, <2>7, <2>8 DEF Writing, Recording, Owing
<1>8. CASE RollBackRecord
  <2>1. /\ close.pc = "weigh"
        /\ work' = [work EXCEPT !.registry = close.original.registry,
                                !.doc = close.original.doc]
        /\ attempt' = RecordGapFound(attempt, "RECORD-NOT-SELF-CONSISTENT")
        /\ accepted' = None
        /\ IsClose(close') /\ close'.pc = "idle"
    BY <1>8, IdleKeeps DEF RollBackRecord, Weighed, Put
  <2>2. IsTree(work')
    BY <2>1 DEF IsTree, Writing, Recording
  <2>3. Reading(attempt', "idle") /\ Settled(attempt')
    BY <2>1, GapFoundGood DEF Reading
  <2>. QED  BY <2>1, <2>2, <2>3 DEF Writing, Recording, Owing
<1>9. CASE Crash
  <2>1. /\ UNCHANGED <<work, attempt, accepted>>
        /\ IsClose(close') /\ close'.pc = "idle"
    BY <1>9, IdleKeeps DEF Crash
  <2>. QED  BY <2>1 DEF Reading, Writing, Recording, Owing
<1>. QED  BY <1>1, <1>2, <1>3, <1>4, <1>5, <1>6, <1>7, <1>8, <1>9

-----------------------------------------------------------------------------
\* A fingerprint of a commit there is.
Committed(x) == x.head \in 1..Len(commits)

\* A commit carries the product of a tree.
Carries(head, tree) == \A p \in Product : tree[p] = commits[head][p]

\* What an independent adjudication read is the product of the candidate.
Reviewed(a) ==
  ~unclean /\ a.adjudication # None /\ a.adjudication.independent =>
    /\ a.candidate # None
    /\ Carries(a.candidate.head, a.adjudication.tree.tree)

\* A close that has not yet its adjudication.
BeforeReview == {"gate", "launch", "review", "correct"}

\* The invariant of the history.
HInv ==
  /\ \E S : commits \in Seq(S)
  /\ Len(commits) >= 1
  /\ attempt.candidate # None => Committed(attempt.candidate)
  /\ close.pc # "idle" => attempt.candidate # None
  /\ close.pc \in BeforeReview /\ ~unclean =>
       Carries(attempt.candidate.head, attempt.candidate.tree)
  /\ Reviewed(attempt)
  /\ AcceptedAsReviewed

\* The history starts with one commit and nothing reviewed.
LEMMA InitHInv == Init => HInv
<1> SUFFICES ASSUME Init PROVE HInv
  OBVIOUS
<1>1. commits \in Seq({FirstTree}) /\ Len(commits) = 1
  BY DEF Init
<1>2. attempt.candidate = None /\ attempt.adjudication = None /\ close.pc = "idle"
  BY DEF Init, Fresh, Idle
<1>3. \E S : commits \in Seq(S)
  BY <1>1
<1>4. accepted = None
  BY DEF Init
<1>. QED  BY <1>1, <1>2, <1>3, <1>4 DEF HInv, Reviewed, BeforeReview, AcceptedAsReviewed

\* What neither touches the candidate, the adjudication nor the history.
LEMMA SameStands ==
  ASSUME HInv, UNCHANGED <<commits, unclean, accepted>>,
         attempt'.candidate = attempt.candidate,
         attempt'.adjudication = attempt.adjudication,
         close'.pc # "idle" => close.pc # "idle",
         close'.pc \in BeforeReview => close.pc \in BeforeReview
  PROVE  HInv'
BY DEF HInv, Reviewed, Committed, Carries, AcceptedAsReviewed

\* A commit changes nothing of the commits before it.
LEMMA CommitsGrow ==
  ASSUME HInv, NEW t, commits' = Append(commits, t),
         UNCHANGED <<attempt, close, accepted, unclean>>
  PROVE  HInv'
<1>1. PICK S : commits \in Seq(S)
  BY DEF HInv
<1>2. commits \in Seq(S \union {t})
  BY <1>1
<1>3. /\ commits' \in Seq(S \union {t})
      /\ Len(commits') = Len(commits) + 1
      /\ \A i \in 1..Len(commits) : commits'[i] = commits[i]
  BY <1>2
<1>4. \A x : Committed(x) => Committed(x)'
  BY <1>1, <1>3 DEF Committed
<1>5. \A head \in 1..Len(commits) : \A tree : Carries(head, tree) => Carries(head, tree)'
  BY <1>3 DEF Carries
<1>6. attempt.candidate # None => attempt.candidate.head \in 1..Len(commits)
  BY DEF HInv, Committed
<1>7. Reviewed(attempt) => Reviewed(attempt)'
  BY <1>5, <1>6 DEF Reviewed
<1>8. Len(commits') >= 1
  BY <1>1, <1>3 DEF HInv
<1>9. close'.pc \in BeforeReview => attempt.candidate # None
  BY DEF HInv, BeforeReview
<1>. QED  BY <1>3, <1>4, <1>5, <1>6, <1>7, <1>8, <1>9 DEF HInv, AcceptedAsReviewed

\* A change of the acceptance record alone leaves the product.
LEMMA RecordOnlyKeepsProduct ==
  ASSUME NEW x, RecordOnly(ChangedBetween(x, Fingerprint))
  PROVE  \A p \in Product : commits[x.head][p] = commits[HeadCommit][p]
BY DEF RecordOnly, AcceptanceSurface, ChangedBetween, Fingerprint, Product, Paths

\* A preflight keeps the adjudication over the same product, or drops it.
LEMMA PreflightStands ==
  ASSUME NoneIsApart, AInv, HInv, ReadsProduct,
         NEW pointed, pointed \subseteq Ordinary,
         attempt' = Preflight(Load(attempt), pointed),
         UNCHANGED <<commits, accepted>>
  PROVE  HInv'
<1> DEFINE l == Load(attempt)
<1>1. Whole(l) /\ l.candidate = attempt.candidate /\ l.adjudication = attempt.adjudication
  BY LoadGood DEF AInv, Reading, Keeps, Fields
<1>2. work.registry.bar # None
  BY ClosureAssumption DEF AInv, IsTree, IsRegistry
<1>3. attempt' = Preflight(l, pointed)
  OBVIOUS
<1> HIDE DEF l
<1>4. /\ attempt'.candidate = Fingerprint
      /\ attempt'.adjudication # None =>
           /\ attempt'.adjudication = attempt.adjudication
           /\ \/ ~work.registry.declared
              \/ attempt.candidate = None
              \/ attempt.candidate = Fingerprint
              \/ RecordOnly(ChangedBetween(attempt.candidate, Fingerprint))
  BY <1>1, <1>2, <1>3, PreflightKeeps DEF Whole
<1>5. /\ Fingerprint.head = HeadCommit /\ Fingerprint.tree = work
      /\ Fingerprint # None
  BY DEF Fingerprint, NoneIsApart
<1>6. HeadCommit = Len(commits) /\ HeadCommit \in 1..Len(commits)
  BY DEF HInv, HeadCommit
<1>7. ~unclean' => ~unclean /\ Carries(HeadCommit, work)
  BY DEF ReadsProduct, Uncommitted, Dirty, Carries, Product, Paths
<1>8. ASSUME ~unclean', attempt'.adjudication # None, attempt'.adjudication.independent
      PROVE  Carries(HeadCommit, attempt'.adjudication.tree.tree)
  <2>1. /\ attempt.candidate # None
        /\ Carries(attempt.candidate.head, attempt.adjudication.tree.tree)
    BY <1>4, <1>7, <1>8 DEF HInv, Reviewed
  <2>2. \A p \in Product : commits[attempt.candidate.head][p] = commits[HeadCommit][p]
    <3>1. CASE ~work.registry.declared
      BY <1>8, <2>1, <3>1 DEF ReadsProduct, Unweighed, Authority
    <3>2. CASE attempt.candidate = Fingerprint
      BY <1>5, <3>2
    <3>3. CASE RecordOnly(ChangedBetween(attempt.candidate, Fingerprint))
      BY <3>3, RecordOnlyKeepsProduct
    <3>. QED  BY <1>4, <1>8, <2>1, <3>1, <3>2, <3>3
  <2>. QED  BY <1>4, <1>8, <2>1, <2>2 DEF Carries
<1>9. HeadCommit' = HeadCommit /\ \A h, t : Carries(h, t)' <=> Carries(h, t)
  BY DEF HeadCommit, Carries
<1>10. Reviewed(attempt)'
  BY <1>4, <1>5, <1>8, <1>9 DEF Reviewed
<1>11. AcceptedAsReviewed'
  BY <1>7 DEF HInv, AcceptedAsReviewed
<1>. QED  BY <1>4, <1>5, <1>6, <1>7, <1>9, <1>10, <1>11 DEF HInv, Committed

\* A reply stands for the candidate it was given, or does not count.
LEMMA ReplyStands ==
  ASSUME AInv, HInv, Reply
  PROVE  HInv'
<1>1. PICK reply : attempt' = Ingest(attempt, reply, sessions, close.tree, TRUE)
  BY DEF Reply
<1>2. /\ close.pc \in {"review", "correct"}
      /\ UNCHANGED <<commits, accepted, unclean>>
  BY DEF Reply
<1>3. /\ Keeps(attempt, attempt', {"history", "adjudication", "findings", "refs"})
      /\ attempt'.adjudication.independent =>
           attempt'.adjudication.tree = attempt.candidate
  BY <1>1, IngestGood DEF AInv, Reading
<1>4. attempt'.candidate = attempt.candidate
  BY <1>3 DEF Keeps, Fields
<1>5. /\ attempt.candidate # None
      /\ ~unclean => Carries(attempt.candidate.head, attempt.candidate.tree)
  BY <1>2 DEF HInv, BeforeReview
<1>6. Reviewed(attempt)'
  BY <1>2, <1>3, <1>4, <1>5 DEF Reviewed, Carries
<1>. QED  BY <1>2, <1>4, <1>5, <1>6 DEF HInv, Committed, Carries, AcceptedAsReviewed

\* What is accepted is the product of the candidate, which was reviewed.
LEMMA WriteStands ==
  ASSUME AInv, HInv, WriteRecord
  PROVE  HInv'
<1> DEFINE over == [candidate |-> attempt.candidate, tree |-> work,
                    head |-> HeadCommit, adjudication |-> attempt.adjudication,
                    verified |-> FALSE]
<1>1. /\ close.pc = "record" /\ UNCHANGED <<commits, attempt, unclean>>
      /\ accepted' = over
      /\ Plan(attempt) = "WRITE"
  BY DEF WriteRecord
<1>2. close'.pc = "document"
  BY DEF WriteRecord, AInv, IsClose
<1>3. \A p \in Product : work[p] = commits[HeadCommit][p]
  BY <1>1 DEF Plan, Dirty, AcceptanceSurface, Product, Paths
<1>4. ReviewOnes # {} => attempt.adjudication # None /\ attempt.adjudication.independent
  BY <1>1 DEF AInv, Reading, Taken
<1>5. /\ over.candidate = attempt.candidate /\ over.tree = work
      /\ over.head = HeadCommit /\ over.adjudication = attempt.adjudication
  OBVIOUS
<1> HIDE DEF over
<1>6. AcceptedAsReviewed'
  BY <1>1, <1>3, <1>4, <1>5 DEF AcceptedAsReviewed, HInv, Reviewed, Carries, SameProduct
<1>. QED  BY <1>1, <1>2, <1>6 DEF HInv, Reviewed, Carries, Committed, BeforeReview

\* A record that is kept moves the candidate over the record alone, or
\* leaves nothing reviewed.
LEMMA KeepStands ==
  ASSUME NoneIsApart, AInv, HInv, KeepRecord
  PROVE  HInv'
<1> DEFINE here == Fingerprint
           moved == TreeMoved(attempt, attempt.candidate, here)
<1>1. /\ close.pc = "weigh" /\ UNCHANGED <<commits, unclean>>
      /\ attempt' = [moved EXCEPT !.candidate = here]
      /\ accepted' = [accepted EXCEPT !.verified = TRUE]
      /\ close' = Idle
  BY DEF KeepRecord, Weighed
<1>2. close'.pc = "idle"
  BY <1>1 DEF Idle
<1>3. /\ IsAttempt(moved)
      /\ moved.adjudication # None =>
           /\ moved.adjudication = attempt.adjudication
           /\ RecordOnly(ChangedBetween(attempt.candidate, Fingerprint))
  BY TreeMovedKeeps DEF AInv, Reading, Whole, Keeps
<1> HIDE DEF moved
<1>4. attempt'.adjudication = moved.adjudication /\ attempt'.candidate = here
  BY <1>1, <1>3 DEF IsAttempt
<1>5. here.head = HeadCommit /\ here # None
  BY DEF Fingerprint, NoneIsApart
<1> HIDE DEF here
<1>6. HeadCommit = Len(commits) /\ HeadCommit \in 1..Len(commits)
  BY DEF HInv, HeadCommit
<1>7. Reviewed(attempt)'
  <2> SUFFICES ASSUME ~unclean, moved.adjudication # None, moved.adjudication.independent
               PROVE  Carries(HeadCommit, moved.adjudication.tree.tree)
    BY <1>1, <1>4, <1>5 DEF Reviewed, Carries
  <2>1. Carries(attempt.candidate.head, attempt.adjudication.tree.tree)
    BY <1>3 DEF HInv, Reviewed
  <2>2. \A p \in Product : commits[attempt.candidate.head][p] = commits[HeadCommit][p]
    BY <1>3, RecordOnlyKeepsProduct
  <2>. QED  BY <1>3, <2>1, <2>2 DEF Carries
<1>8. IsAcceptance(accepted)
  BY <1>1 DEF AInv, Writing, Recording
<1>9. /\ accepted # None
      /\ accepted'.candidate = accepted.candidate /\ accepted'.tree = accepted.tree
      /\ accepted'.head = accepted.head
      /\ accepted'.adjudication = accepted.adjudication
  BY <1>1, <1>8 DEF IsAcceptance, NoneIsApart
<1>10. AcceptedAsReviewed'
  BY <1>1, <1>9 DEF HInv, AcceptedAsReviewed
<1>. QED  BY <1>1, <1>2, <1>4, <1>5, <1>6, <1>7, <1>10 DEF HInv, Committed, BeforeReview

\* Steps that settle, ask and weigh.
LEMMA OthersStand ==
  ASSUME AInv, HInv,
         \/ EditProduct \/ EditTest \/ EditRegistry \/ EditDocument
         \/ UpgradeRule \/ SupplyExternal
         \/ AskGate \/ Launch \/ Decline \/ NoSecondReply \/ Uncounted \/ Finish
         \/ NoRecord \/ WriteDocument \/ RunGuards \/ GuardFails \/ Baseline \/ Crash
  PROVE  HInv'
<1> DEFINE Same == /\ attempt'.candidate = attempt.candidate
                   /\ attempt'.adjudication = attempt.adjudication
           Stays == /\ close'.pc # "idle" => close.pc # "idle"
                    /\ close'.pc \in BeforeReview => close.pc \in BeforeReview
<1>a. Whole(attempt) /\ IsClose(close)
  BY DEF AInv, Reading
<1>b. ASSUME NEW b, Keeps(attempt, b, {"refs", "findings", "external", "state", "rule"})
      PROVE  b.candidate = attempt.candidate /\ b.adjudication = attempt.adjudication
  BY <1>b DEF Keeps, Fields
<1>1. CASE EditProduct \/ EditTest \/ EditRegistry \/ EditDocument
  BY <1>1, SameStands DEF EditProduct, EditTest, EditRegistry, EditDocument, MoveRepository
<1>2. CASE UpgradeRule
  <2>1. Same
    BY <1>2, <1>a DEF UpgradeRule, Whole, IsAttempt
  <2>. QED  BY <1>2, <2>1, SameStands DEF UpgradeRule
<1>3. CASE SupplyExternal
  <2>1. PICK evidence :
          /\ attempt.state # "NOT_STARTED"
          /\ attempt' = LET loaded == Load(attempt)
                            recorded == RecordExternal(loaded, evidence, FALSE)
                        IN IF Satisfies(loaded, evidence) THEN Decide(recorded) ELSE recorded
          /\ UNCHANGED <<commits, close, accepted, unclean>>
    BY <1>3 DEF SupplyExternal, Command
  <2> DEFINE loaded == Load(attempt)
             recorded == RecordExternal(loaded, evidence, FALSE)
  <2>2. attempt' \in {recorded, Decide(recorded)}
    BY <2>1
  <2>3. /\ Whole(loaded) /\ loaded.state # "NOT_STARTED"
        /\ Keeps(attempt, loaded, {"refs", "findings", "state", "rule"})
    BY <1>a, <2>1, LoadGood
  <2> HIDE DEF loaded
  <2>4. Whole(recorded) /\ Keeps(loaded, recorded, {"external", "findings", "refs"})
    BY <2>3, ExternalGood
  <2>5. recorded.state # "NOT_STARTED"
    BY <2>3, <2>4 DEF Keeps, Fields
  <2> HIDE DEF recorded
  <2>6. Keeps(recorded, Decide(recorded), {"findings", "state"})
    BY <2>4, <2>5, DecideGood
  <2>7. Same
    BY <2>2, <2>3, <2>4, <2>6 DEF Keeps, Fields
  <2>. QED  BY <2>1, <2>7, SameStands
<1>4. CASE AskGate
  <2>1. /\ close.pc = "gate" /\ UNCHANGED <<commits, accepted, unclean>>
        /\ \/ \E evidence : attempt' = Decide(RecordExternal(attempt, evidence, TRUE))
           \/ attempt' = Decide(attempt)
    BY <1>4 DEF AskGate
  <2>2. attempt.state # "NOT_STARTED"
    BY <2>1 DEF AInv, Reading
  <2>3. CASE \E evidence : attempt' = Decide(RecordExternal(attempt, evidence, TRUE))
    <3>1. PICK evidence : attempt' = Decide(RecordExternal(attempt, evidence, TRUE))
      BY <2>3
    <3> DEFINE a == RecordExternal(attempt, evidence, TRUE)
    <3>2. Whole(a) /\ Keeps(attempt, a, {"external", "findings", "refs"})
      BY <1>a, ExternalGood
    <3>3. attempt' = Decide(a)
      BY <3>1
    <3> HIDE DEF a
    <3>4. a.state # "NOT_STARTED"
      BY <2>2, <3>2 DEF Keeps, Fields
    <3>5. Keeps(a, attempt', {"findings", "state"})
      BY <3>2, <3>3, <3>4, DecideGood
    <3>. QED  BY <3>2, <3>5, <2>1, SameStands DEF Keeps, Fields, BeforeReview
  <2>4. CASE attempt' = Decide(attempt)
    <3>1. Keeps(attempt, attempt', {"findings", "state"})
      BY <1>a, <2>2, <2>4, DecideGood
    <3>. QED  BY <3>1, <2>1, SameStands DEF Keeps, Fields, BeforeReview
  <2>. QED  BY <2>1, <2>3, <2>4
<1>5. CASE Uncounted \/ Finish
  <2>1. /\ close.pc \in {"uncounted", "finish"} /\ UNCHANGED <<commits, accepted, unclean>>
        /\ attempt' = Decide(attempt)
        /\ close' = Idle \/ Goto("record")
    BY <1>5 DEF Uncounted, Finish
  <2>2. attempt.state # "NOT_STARTED"
    BY <2>1 DEF AInv, Reading
  <2>3. Keeps(attempt, attempt', {"findings", "state"})
    BY <1>a, <2>1, <2>2, DecideGood
  <2>4. close'.pc \in {"idle", "record"}
    BY <1>a, <2>1, GotoKeeps, IdleKeeps
  <2>. QED  BY <2>1, <2>3, <2>4, SameStands DEF Keeps, Fields, BeforeReview
<1>6. CASE NoRecord
  <2>1. /\ UNCHANGED <<commits, accepted, unclean>> /\ close'.pc = "idle"
        /\ \/ attempt' = RecordGapFound(attempt, "RECORD-AUTHORITY-GAP")
           \/ UNCHANGED attempt
    BY <1>6, IdleKeeps DEF NoRecord
  <2>2. Same
    BY <1>a, <2>1, GapFoundGood DEF Keeps, Fields
  <2>. QED  BY <2>1, <2>2, SameStands DEF BeforeReview
<1>7. CASE Launch \/ Decline \/ NoSecondReply
  <2>1. /\ close.pc \in {"launch", "correct"}
        /\ UNCHANGED <<commits, attempt, accepted, unclean>>
    BY <1>7 DEF Launch, Decline, NoSecondReply
  <2>. QED  BY <2>1, SameStands DEF BeforeReview
<1>8. CASE WriteDocument \/ RunGuards \/ GuardFails \/ Baseline
  <2>1. /\ close.pc # "idle" /\ UNCHANGED <<commits, attempt, accepted, unclean>>
    BY <1>8 DEF WriteDocument, RunGuards, GuardFails, Baseline
  <2>2. close'.pc \in {"verify", "weigh", "baseline"}
    BY <1>8, <1>a, GotoKeeps DEF WriteDocument, RunGuards, GuardFails, Baseline, IsClose
  <2>. QED  BY <2>1, <2>2, SameStands DEF BeforeReview
<1>9. CASE Crash
  BY <1>9, IdleKeeps, SameStands DEF Crash, BeforeReview
<1>. QED  BY <1>1, <1>2, <1>3, <1>4, <1>5, <1>6, <1>7, <1>8, <1>9

\* Every step keeps both invariants.
LEMMA StepKeeps ==
  ASSUME NoneIsApart, AInv, HInv, [Next]_vars
  PROVE  AInv' /\ HInv'
<1>1. CASE UNCHANGED vars
  <2>1. AInv'
    BY <1>1 DEF vars, AInv, Writing, Owing
  <2>2. HInv'
    BY <1>1 DEF vars, HInv, Reviewed, Committed, Carries, AcceptedAsReviewed
  <2>. QED  BY <2>1, <2>2
<1>2. CASE Next
  <2>1. AInv'
    BY <1>2, RepositoryMoves, CommandsKeep, AdjudicationKeeps, RecordingKeeps
       DEF Next, Process
  <2>2. CASE Commit
    BY <2>1, <2>2, CommitsGrow DEF Commit, MoveRepository
  <2>3. CASE Pull
    BY <2>1, <2>3, CommitsGrow DEF Pull, MoveRepository
  <2>4. CASE PhasePreflight
    <3>1. PICK pointed \in {{}, Ordinary} : attempt' = Preflight(Load(attempt), pointed)
      BY <2>4 DEF PhasePreflight
    <3>2. /\ ReadsProduct
          /\ UNCHANGED <<commits, accepted, close>>
          /\ close.pc = "idle"
      BY <2>4 DEF PhasePreflight, Command
    <3>3. HInv'
      BY <3>1, <3>2, PreflightStands
    <3>. QED  BY <2>1, <3>3
  <2>5. CASE PhaseClose
    BY <2>1, <2>5, PreflightStands DEF PhaseClose
  <2>6. CASE Reply
    BY <2>1, <2>6, ReplyStands
  <2>7. CASE WriteRecord
    BY <2>1, <2>7, WriteStands
  <2>8. CASE KeepRecord
    BY <2>1, <2>8, KeepStands
  <2>9. CASE RollBackRecord
    <3>1. /\ UNCHANGED <<commits, unclean>> /\ accepted' = None
          /\ attempt' = RecordGapFound(attempt, "RECORD-NOT-SELF-CONSISTENT")
          /\ close'.pc = "idle"
      BY <2>9, IdleKeeps DEF RollBackRecord
    <3>2. Keeps(attempt, attempt', {"findings", "state"})
      BY <3>1, GapFoundGood DEF AInv, Reading
    <3>3. /\ attempt'.candidate = attempt.candidate
          /\ attempt'.adjudication = attempt.adjudication
      BY <3>2 DEF Keeps, Fields
    <3>4. HInv'
      BY <3>1, <3>3 DEF HInv, Reviewed, Committed, Carries, AcceptedAsReviewed, BeforeReview
    <3>. QED  BY <2>1, <3>4
  <2>. QED  BY <1>2, <2>1, <2>2, <2>3, <2>4, <2>5, <2>6, <2>7, <2>8, <2>9, OthersStand
            DEF Next, Process
<1>. QED  BY <1>1, <1>2

\* A phase that demands a review is accepted over the product an independent
\* adjudication read, whatever moves the repository and whichever commands are
\* repeated, interrupted or resumed (on_tree_moved, materialize_acceptance_record).
THEOREM AcceptedAsReviewedHolds ==
  ASSUME NoneIsApart
  PROVE  Spec => []AcceptedAsReviewed
<1>1. Init => AInv /\ HInv
  BY InitAInv, InitHInv
<1>2. AInv /\ HInv /\ [Next]_vars => (AInv /\ HInv)'
  BY StepKeeps
<1>3. HInv => AcceptedAsReviewed
  BY DEF HInv
<1>. QED  BY <1>1, <1>2, <1>3, PTL DEF Spec

\* A finding that demonstrates a required criterion false stays live and blocks
\* or contradicts: no merging, re-routing, retiring or reloading of the ledger
\* makes it debt (classify_and_route, _merge_finding).
THEOREM DemonstratedStaysDecisiveHolds ==
  ASSUME NoneIsApart
  PROVE  Spec => []DemonstratedStaysDecisive
<1>1. Init => AInv /\ HInv
  BY InitAInv, InitHInv
<1>2. AInv /\ HInv /\ [Next]_vars => (AInv /\ HInv)'
  BY StepKeeps
<1>3. AInv => DemonstratedStaysDecisive
  BY DEF AInv, Reading, Whole, AllSound, Sound, Worded, Decisive, DemonstratedStaysDecisive
<1>. QED  BY <1>1, <1>2, <1>3, PTL DEF Spec

\* A phase that is ready to be accepted has the evidence of each required gate
\* on its candidate tree, whatever a reviewer scored (_criterion_satisfied).
THEOREM GatesSettleTheirOwnHolds ==
  ASSUME NoneIsApart
  PROVE  Spec => []GatesSettleTheirOwn
<1>1. Init => AInv /\ HInv
  BY InitAInv, InitHInv
<1>2. AInv /\ HInv /\ [Next]_vars => (AInv /\ HInv)'
  BY StepKeeps
<1>3. AInv => GatesSettleTheirOwn
  BY DEF AInv, Owing, Settled, Established, GatesSettleTheirOwn
<1>. QED  BY <1>1, <1>2, <1>3, PTL DEF Spec

-----------------------------------------------------------------------------
\* The shape of a claim.
IsClaim(c) == c \in [unit : Units, token : {c.token}, form : Forms]

\* The shape of a document.
IsDoc(doc) == \A c \in doc : IsClaim(c)

\* A fact moves a token that was so to one that is so.
LEMMA FactMoves ==
  ASSUME NEW before, NEW after, NEW f \in Facts(before, after)
  PROVE  \/ f.before = before[f.unit].state /\ f.after = after[f.unit].state
         \/ f.unit = Phase /\ f.before = before[Phase].result /\ f.after = after[Phase].result
BY DEF Facts, Fact

\* A token no fact moves is one the acceptance leaves as it was.
LEMMA UntoldStays ==
  ASSUME NEW before, NEW after, NEW u \in Units, NEW token,
         ~\E f \in Facts(before, after) : f.unit = u /\ f.before = token
  PROVE  /\ token = before[u].state => after[u].state = token
         /\ u = Phase /\ token = before[u].result => after[u].result = token
<1>1. ASSUME NEW f, f.unit = u, f.before = token,
             f \in {Fact(v, before[v].state, after[v].state) : v \in Units}
                   \union {Fact(Phase, before[Phase].result, after[Phase].result)}
      PROVE  f.before = f.after
  BY <1>1 DEF Facts
<1>2. ASSUME token = before[u].state PROVE after[u].state = token
  <2> DEFINE f == Fact(u, before[u].state, after[u].state)
  <2>1. f.unit = u /\ f.before = before[u].state /\ f.after = after[u].state
    BY DEF Fact
  <2>2. f \in {Fact(v, before[v].state, after[v].state) : v \in Units}
    OBVIOUS
  <2> HIDE DEF f
  <2>3. f.before = f.after
    BY <1>1, <1>2, <2>1, <2>2
  <2>. QED  BY <1>2, <2>1, <2>3
<1>3. ASSUME u = Phase, token = before[u].result PROVE after[u].result = token
  <2> DEFINE f == Fact(Phase, before[Phase].result, after[Phase].result)
  <2>1. f.unit = u /\ f.before = before[u].result /\ f.after = after[u].result
    BY <1>3 DEF Fact
  <2>2. f \in {Fact(Phase, before[Phase].result, after[Phase].result)}
    OBVIOUS
  <2> HIDE DEF f
  <2>3. f.before = f.after
    BY <1>1, <1>3, <2>1, <2>2
  <2>. QED  BY <1>3, <2>1, <2>3
<1>. QED  BY <1>2, <1>3

\* What a document said truly, its restatement says truly.
LEMMA RestatementAgrees ==
  ASSUME NEW doc, IsDoc(doc), NEW before, NEW after,
         Stuck(doc, before, Facts(before, after)) = {},
         Agrees(doc, before)
  PROVE  LET new == Restated(doc, before, Facts(before, after), after)
         IN  Agrees(new, after) /\ IsDoc(new)
<1> DEFINE facts == Facts(before, after)
           stale == Stale(doc, before, facts)
           row(c) == IF c.form = "region" THEN [c EXCEPT !.token = after[c.unit].state] ELSE c
           told(c) == (CHOOSE f \in facts : f.unit = c.unit /\ f.before = c.token).after
           moved(c) == IF Movable(c) /\ c \in stale THEN [c EXCEPT !.token = told(c)] ELSE c
           new == Restated(doc, before, facts, after)
           so(c) == c.token \in {after[c.unit].state}
                       \union (IF c.unit = Phase THEN {after[c.unit].result} ELSE {})
<1>1. CASE Projects(doc, before)
  <2>1. new = {row(c) : c \in doc}
    BY <1>1 DEF Restated
  <2>2. \A c \in doc :
          /\ IsClaim(row(c)) /\ row(c).form = c.form
          /\ c.form = "region" => row(c).token = after[row(c).unit].state
    BY DEF IsDoc, IsClaim
  <2> HIDE DEF row, new
  <2>3. Projects(new, after)
    BY <1>1, <2>1, <2>2 DEF Projects, Region
  <2>4. \A c \in LiveClaims(new, after) : c.token = after[c.unit].state
    BY <2>3 DEF LiveClaims, Projects
  <2>. QED  BY <2>1, <2>2, <2>4 DEF Agrees, IsDoc, new
<1>2. CASE ~Projects(doc, before)
  <2>1. new = {moved(c) : c \in doc}
    BY <1>2 DEF Restated
  <2>2. ASSUME NEW c \in doc
        PROVE  /\ IsClaim(moved(c)) /\ moved(c).form = c.form /\ moved(c).unit = c.unit
               /\ moved(c).token = IF Movable(c) /\ c \in stale THEN told(c) ELSE c.token
    <3> HIDE DEF told, stale
    <3>. QED  BY DEF IsDoc, IsClaim
  <2>3. ASSUME NEW c \in doc, c.form # "history"
        PROVE  so(moved(c))
    <3>1. c \in LiveClaims(doc, before) /\ IsClaim(c)
      BY <1>2, <2>3 DEF LiveClaims, IsDoc
    <3>2. CASE c \in stale
      <4>1. Movable(c)
        BY <3>2 DEF Stuck
      <4>2. PICK f \in facts : f.unit = c.unit /\ f.before = c.token
        BY <3>2 DEF Stale
      <4> DEFINE g == CHOOSE h \in facts : h.unit = c.unit /\ h.before = c.token
      <4>3. g \in facts /\ g.unit = c.unit
        BY <4>2
      <4>4. told(c) = g.after
        OBVIOUS
      <4> HIDE DEF g, told, stale
      <4>5. \/ g.after = after[c.unit].state
            \/ c.unit = Phase /\ g.after = after[c.unit].result
        BY <4>3, FactMoves
      <4> HIDE DEF facts, moved
      <4>6. moved(c).token = g.after /\ moved(c).unit = c.unit
        BY <2>2, <3>2, <4>1, <4>4
      <4>. QED  BY <4>5, <4>6
    <3>3. CASE c \notin stale
      <4>1. ~\E f \in facts : f.unit = c.unit /\ f.before = c.token
        BY <3>1, <3>3 DEF Stale
      <4>2. \/ c.token = before[c.unit].state
            \/ c.unit = Phase /\ c.token = before[c.unit].result
        BY <3>1 DEF Agrees
      <4>3. \/ c.token = after[c.unit].state
            \/ c.unit = Phase /\ c.token = after[c.unit].result
        BY <3>1, <4>1, <4>2, UntoldStays DEF IsClaim
      <4> HIDE DEF moved, told, stale, facts
      <4>4. moved(c).token = c.token /\ moved(c).unit = c.unit
        BY <2>2, <3>3
      <4>. QED  BY <4>3, <4>4
    <3>. QED  BY <3>2, <3>3
  <2> HIDE DEF moved, new, so
  <2>4. \A n \in new : IsClaim(n) /\ (n.form # "history" => so(n))
    BY <2>1, <2>2, <2>3
  <2>5. \A n \in LiveClaims(new, after) : n \in new /\ n.form # "history"
    BY DEF LiveClaims, Region
  <2>. QED  BY <2>4, <2>5 DEF Agrees, IsDoc, so, new
<1>. QED  BY <1>1, <1>2
\* What a restatement is made of.
LEMMA RestatedIsDoc ==
  ASSUME NEW doc, IsDoc(doc), NEW units, NEW facts, NEW after
  PROVE  IsDoc(Restated(doc, units, facts, after))
<1> DEFINE told(c) == (CHOOSE f \in facts : f.unit = c.unit /\ f.before = c.token).after
           row(c) == IF c.form = "region" THEN [c EXCEPT !.token = after[c.unit].state] ELSE c
           moved(c) == IF Movable(c) /\ c \in Stale(doc, units, facts)
                       THEN [c EXCEPT !.token = told(c)] ELSE c
<1>1. \A c \in doc : IsClaim(row(c))
  BY DEF IsDoc, IsClaim
<1>2. \A c \in doc : IsClaim(moved(c))
  <2> HIDE DEF told
  <2>. QED  BY DEF IsDoc, IsClaim
<1>3. Restated(doc, units, facts, after)
        \in {doc, {row(c) : c \in doc}, {moved(c) : c \in doc}}
  BY DEF Restated
<1> HIDE DEF row, moved
<1>. QED  BY <1>1, <1>2, <1>3 DEF IsDoc

\* The record a tree's acceptance would write.
Planned(t) == Rendered(t.registry, t.doc, AcceptedRegistry(t.registry).units)

\* An acceptance whose commit carries its product and whose plan was clean.
Carried(x) ==
  /\ IsTree(x.tree) /\ IsDoc(x.tree.doc)
  /\ Committed(x)
  /\ Carries(x.head, x.tree)
  /\ x.verified => ~Planned(x.tree).stale

\* The invariant of a written record.
RInv ==
  /\ IsDoc(work.doc)
  /\ accepted # None => Carried(accepted)
  /\ close.pc \in Recording =>
       /\ accepted # None
       /\ close.record = Planned(accepted.tree)
       /\ IsDoc(close.record.doc) /\ IsDoc(close.original.doc)

\* No record is written at the start.
LEMMA InitRInv == Init => RInv
BY ClosureAssumption DEF Init, RInv, FirstTree, IsDoc, IsClaim, ClaimType, Idle, Recording

\* A commit leaves what the commits before it hold.
LEMMA CarriedStays ==
  ASSUME HInv, NEW x, Carried(x),
         UNCHANGED commits \/ \E t : commits' = Append(commits, t)
  PROVE  Carried(x)'
<1>1. CASE UNCHANGED commits
  BY <1>1 DEF Carried, Committed, Carries
<1>2. CASE \E t : commits' = Append(commits, t)
  <2>1. PICK t : commits' = Append(commits, t)
    BY <1>2
  <2>2. PICK S : commits \in Seq(S)
    BY DEF HInv
  <2>3. commits \in Seq(S \union {t})
    BY <2>2
  <2>4. /\ Len(commits') = Len(commits) + 1
        /\ \A i \in 1..Len(commits) : commits'[i] = commits[i]
    BY <2>1, <2>3
  <2>. QED  BY <2>2, <2>4 DEF Carried, Committed, Carries
<1>. QED  BY <1>1, <1>2

\* Steps that neither write a record nor settle one.
LEMMA RecordStays ==
  ASSUME HInv, RInv, IsDoc(work.doc)', UNCHANGED accepted,
         UNCHANGED commits \/ \E t : commits' = Append(commits, t),
         close'.pc \in Recording =>
           /\ close.pc \in Recording
           /\ close'.record = close.record /\ close'.original = close.original
  PROVE  RInv'
<1>1. accepted # None => Carried(accepted)'
  BY CarriedStays DEF RInv
<1>. QED  BY <1>1 DEF RInv, Planned

\* What happens to the repository, and the commands.
LEMMA MovesKeepRecord ==
  ASSUME AInv, HInv, RInv,
         \/ EditProduct \/ EditTest \/ EditRegistry \/ EditDocument \/ Commit \/ Pull
         \/ UpgradeRule \/ PhasePreflight \/ SupplyExternal \/ PhaseClose
  PROVE  RInv'
<1>1. \A d \in Documents : IsDoc(d)
  BY ClosureAssumption DEF IsDoc, IsClaim, ClaimType
<1>2. IsDoc(work.doc)'
  <2>1. CASE EditProduct
    BY <2>1 DEF AInv, IsTree, RInv, EditProduct
  <2>2. CASE EditTest
    BY <2>2 DEF AInv, IsTree, RInv, EditTest
  <2>3. CASE EditRegistry
    BY <2>3 DEF AInv, IsTree, RInv, EditRegistry
  <2>4. CASE EditDocument
    BY <1>1, <2>4 DEF AInv, IsTree, EditDocument
  <2>5. CASE Pull
    BY <2>5 DEF AInv, IsTree, RInv, Pull
  <2>6. CASE Commit \/ UpgradeRule \/ PhasePreflight \/ SupplyExternal \/ PhaseClose
    BY <2>6 DEF RInv, Commit, UpgradeRule, PhasePreflight, SupplyExternal, PhaseClose
  <2>. QED  BY <2>1, <2>2, <2>3, <2>4, <2>5, <2>6
<1>3. UNCHANGED commits \/ \E t : commits' = Append(commits, t)
  BY DEF EditProduct, EditTest, EditRegistry, EditDocument, Commit, Pull,
         UpgradeRule, PhasePreflight, SupplyExternal, PhaseClose
<1>4. UNCHANGED accepted
  BY DEF EditProduct, EditTest, EditRegistry, EditDocument, Commit, Pull, MoveRepository,
         UpgradeRule, PhasePreflight, SupplyExternal, PhaseClose
<1>5. UNCHANGED close \/ close'.pc = "gate"
  BY GotoKeeps DEF EditProduct, EditTest, EditRegistry, EditDocument, Commit, Pull,
     MoveRepository, UpgradeRule, PhasePreflight, SupplyExternal, PhaseClose, AInv
<1>6. close'.pc \in Recording => UNCHANGED close
  BY <1>5 DEF Recording
<1>. QED  BY <1>2, <1>3, <1>4, <1>6, RecordStays

\* The steps of a close before its record is written, and those that check
\* what it wrote.
LEMMA ChecksKeepRecord ==
  ASSUME AInv, HInv, RInv,
         \/ AskGate \/ Launch \/ Decline \/ Reply \/ NoSecondReply \/ Uncounted
         \/ Finish \/ NoRecord \/ WriteDocument \/ RunGuards \/ GuardFails
         \/ Baseline \/ Crash
  PROVE  RInv'
<1>1. CASE AskGate \/ Launch \/ Decline \/ Reply \/ NoSecondReply \/ Uncounted \/ Finish
             \/ NoRecord \/ Crash
  <2>1. UNCHANGED <<work, commits, accepted>>
    BY <1>1 DEF AskGate, Launch, Decline, Reply, NoSecondReply, Uncounted, Finish,
                NoRecord, Crash
  <2>2. close' = Idle \/ \E pc \in {"launch", "finish", "review", "correct", "uncounted",
                                     "record"} : close'.pc = pc
    <3>1. CASE AskGate
      <4>1. \E pc \in {"launch", "finish"} : Goto(pc)
        BY <3>1 DEF AskGate
      <4>. QED  BY <4>1, GotoKeeps DEF AInv
    <3>2. CASE Launch
      BY <3>2 DEF Launch, AInv, IsClose
    <3>3. CASE Decline
      BY <3>3, GotoKeeps DEF Decline, AInv
    <3>4. CASE Reply
      <4>1. \E pc \in {"correct", "finish", "uncounted"} : Goto(pc)
        BY <3>4 DEF Reply
      <4>. QED  BY <4>1, GotoKeeps DEF AInv
    <3>5. CASE NoSecondReply
      BY <3>5, GotoKeeps DEF NoSecondReply, AInv
    <3>6. CASE Finish
      <4>1. Goto("record") \/ close' = Idle
        BY <3>6 DEF Finish
      <4>. QED  BY <4>1, GotoKeeps DEF AInv
    <3>7. CASE Uncounted \/ NoRecord \/ Crash
      BY <3>7 DEF Uncounted, NoRecord, Crash
    <3>. QED  BY <1>1, <3>1, <3>2, <3>3, <3>4, <3>5, <3>6, <3>7
  <2>3. close'.pc \notin Recording
    BY <2>2 DEF Idle, Recording
  <2>. QED  BY <2>1, <2>3, RecordStays DEF RInv
<1>2. CASE WriteDocument
  <2>1. /\ close.pc \in Recording /\ UNCHANGED <<commits, accepted>>
        /\ work' = [work EXCEPT !.doc = close.record.doc]
        /\ close'.record = close.record /\ close'.original = close.original
    BY <1>2, GotoKeeps DEF WriteDocument, AInv, Recording
  <2>2. IsDoc(work.doc)'
    BY <2>1 DEF AInv, IsTree, RInv
  <2>. QED  BY <2>1, <2>2, RecordStays
<1>3. CASE RunGuards
  <2>1. /\ close.pc \in Recording /\ UNCHANGED <<commits, accepted, work>>
        /\ \E red : close' = [close EXCEPT !.pc = "weigh", !.red = red]
    BY <1>3 DEF RunGuards, Recording
  <2>2. close'.record = close.record /\ close'.original = close.original
    BY <2>1 DEF AInv, IsClose
  <2>. QED  BY <2>1, <2>2, RecordStays DEF RInv
<1>4. CASE GuardFails
  <2>1. /\ close.pc \in Recording /\ UNCHANGED <<commits, accepted>>
        /\ Put(close.original)
        /\ close'.record = close.record /\ close'.original = close.original
    BY <1>4, GotoKeeps DEF GuardFails, AInv, Recording
  <2>2. IsDoc(work.doc)'
    BY <2>1 DEF AInv, IsTree, RInv, Put
  <2>. QED  BY <2>1, <2>2, RecordStays
<1>5. CASE Baseline
  <2>1. PICK guard \in close.red : \E answer \in RunVerification({guard}) :
          close' = [close EXCEPT !.pc = "weigh", !.red = @ \ {guard},
                      !.broken = @ \/ answer[guard] = "passed"]
    BY <1>5 DEF Baseline
  <2>2. /\ close.pc \in Recording /\ UNCHANGED <<commits, accepted>>
        /\ Put(close.record)
    BY <1>5 DEF Baseline, Recording
  <2>3. close'.record = close.record /\ close'.original = close.original
    BY <2>1 DEF AInv, IsClose
  <2>4. IsDoc(work.doc)'
    BY <2>2 DEF AInv, IsTree, RInv, Put
  <2>. QED  BY <2>2, <2>3, <2>4, RecordStays
<1>. QED  BY <1>1, <1>2, <1>3, <1>4, <1>5

\* The record is written over the tree that is committed but for the record.
LEMMA WriteKeepsRecord ==
  ASSUME NoneIsApart, AInv, HInv, RInv, WriteRecord
  PROVE  RInv'
<1> DEFINE record == Rendered(work.registry, work.doc, RecordedUnits(work.registry.units))
           over == [candidate |-> attempt.candidate, tree |-> work,
                    head |-> HeadCommit, adjudication |-> attempt.adjudication,
                    verified |-> FALSE]
           original == [registry |-> work.registry, doc |-> work.doc]
<1>1. /\ UNCHANGED commits
      /\ Plan(attempt) = "WRITE"
      /\ work' = [work EXCEPT !.registry = record.registry]
      /\ close' = [close EXCEPT !.pc = "document", !.record = record, !.original = original]
      /\ accepted' = over
  BY DEF WriteRecord
<1>2. \A p \in Product : work[p] = commits[HeadCommit][p]
  BY <1>1 DEF Plan, Dirty, AcceptanceSurface, Product, Paths
<1>3. record = Planned(work)
  <2>1. work.registry.declared /\ StatesConvention(work.registry.units)
    BY <1>1 DEF Plan
  <2>2. AcceptedRegistry(work.registry).units = RecordedUnits(work.registry.units)
    BY <2>1 DEF AcceptedRegistry, AInv, IsTree, IsRegistry
  <2>. QED  BY <2>2 DEF Planned
<1>4. IsDoc(record.doc)
  BY RestatedIsDoc DEF RInv, Rendered, Written
<1>5. /\ original.doc = work.doc
      /\ over.tree = work /\ over.head = HeadCommit /\ over.verified = FALSE
      /\ IsAcceptance(over)
  BY DEF IsAcceptance
<1> HIDE DEF record, over, original
<1>6. /\ IsDoc(work.doc)'
      /\ close'.record = record /\ close'.original = original
  BY <1>1 DEF AInv, IsTree, IsClose, RInv
<1>7. HeadCommit \in 1..Len(commits)
  BY DEF HInv, HeadCommit
<1>8. Carried(accepted)'
  <2>1. /\ accepted'.tree = work /\ accepted'.head = HeadCommit
        /\ accepted'.verified = FALSE
    BY <1>1, <1>5
  <2>. QED  BY <1>1, <1>2, <1>7, <2>1 DEF Carried, Carries, Committed, AInv, RInv
<1>9. accepted' # None
  BY <1>1, <1>5 DEF NoneIsApart
<1>10. close'.record = Planned(accepted.tree)'
  <2>1. accepted'.tree = work
    BY <1>1, <1>5
  <2>. QED  BY <1>3, <1>6, <2>1 DEF Planned
<1>. QED  BY <1>4, <1>5, <1>6, <1>8, <1>9, <1>10 DEF RInv

\* A record that leaves a document stale is not kept.
LEMMA SettleKeepsRecord ==
  ASSUME NoneIsApart, AInv, HInv, RInv, KeepRecord \/ RollBackRecord
  PROVE  RInv'
<1>1. CASE KeepRecord
  <2>1. /\ UNCHANGED <<work, commits>> /\ close' = Idle
        /\ accepted' = [accepted EXCEPT !.verified = TRUE]
        /\ close.pc \in Recording /\ ~close.record.stale
    BY <1>1 DEF KeepRecord, Weighed, RecordRefused, Recording
  <2>2. /\ Carried(accepted) /\ ~Planned(accepted.tree).stale
    BY <2>1 DEF RInv
  <2>3. IsAcceptance(accepted)
    BY <2>1 DEF AInv, Writing
  <2>4. accepted'.tree = accepted.tree /\ accepted'.head = accepted.head
    BY <2>1, <2>3 DEF IsAcceptance
  <2>5. Carried(accepted)'
    BY <2>1, <2>2, <2>4 DEF Carried, Committed, Carries, Planned
  <2>. QED  BY <2>1, <2>5 DEF RInv, Idle, Recording
<1>2. CASE RollBackRecord
  <2>1. /\ UNCHANGED commits /\ close' = Idle /\ accepted' = None
        /\ Put(close.original) /\ close.pc \in Recording
    BY <1>2 DEF RollBackRecord, Weighed, Recording
  <2>2. IsDoc(work.doc)'
    BY <2>1 DEF AInv, IsTree, RInv, Put
  <2>. QED  BY <2>1, <2>2 DEF RInv, Idle, Recording
<1>. QED  BY <1>1, <1>2

\* Whatever the closure does keeps a written record what its plan was.
LEMMA StepKeepsRecord ==
  ASSUME NoneIsApart, AInv, HInv, RInv, [Next]_vars
  PROVE  RInv'
<1>1. CASE UNCHANGED vars
  BY <1>1 DEF vars, RInv, Carried, Committed, Carries, Planned
<1>2. CASE Next
  BY <1>2, MovesKeepRecord, ChecksKeepRecord, WriteKeepsRecord, SettleKeepsRecord
     DEF Next, Process
<1>. QED  BY <1>1, <1>2

\* What was planned over a carried tree, written in full, stands whole.
LEMMA PlannedStands ==
  ASSUME RInv
  PROVE  RecordStandsWhole
<1> SUFFICES ASSUME accepted # None, accepted.verified
             PROVE  LET before == accepted.tree
                        after == AcceptedRegistry(before.registry)
                        record == Rendered(before.registry, before.doc, after.units)
                    IN work.registry = record.registry /\ work.doc = record.doc =>
                         /\ Agrees(before.doc, before.registry.units)
                              => Agrees(work.doc, work.registry.units)
                         /\ (SameProduct(work, before) /\ HeadCommit = accepted.head)
                              => CommitPermitted \/ Dirty = {}
  BY DEF RecordStandsWhole
<1> DEFINE before == accepted.tree
           units == before.registry.units
           after == AcceptedRegistry(before.registry).units
           record == Rendered(before.registry, before.doc, after)
<1>1. Carried(accepted) /\ ~Planned(before).stale
  BY DEF RInv, Carried
<1>2. /\ Stuck(before.doc, units, Facts(units, after)) = {}
      /\ record.doc = Restated(before.doc, units, Facts(units, after), after)
      /\ record.registry.units = after
  BY <1>1 DEF Planned, Rendered, Written, Carried, IsTree, IsRegistry
<1>3. IsDoc(before.doc)
  BY <1>1 DEF Carried
<1>4. ASSUME Agrees(before.doc, units)
      PROVE  Agrees(record.doc, record.registry.units)
  <2> HIDE DEF before, units, after, record
  <2>. QED  BY <1>2, <1>3, <1>4, RestatementAgrees
<1>5. ASSUME SameProduct(work, before), HeadCommit = accepted.head
      PROVE  CommitPermitted \/ Dirty = {}
  BY <1>1, <1>5 DEF CommitPermitted, Dirty, AcceptanceSurface, Carried, Carries,
                    SameProduct, Product, Paths
<1>. QED  BY <1>4, <1>5

\* A record that is kept agrees with itself: what the repository's documents said
\* truly before the acceptance they say truly after it, and what is left to commit
\* is the record alone (stale_restatement_gap, plan_acceptance_commit).
THEOREM RecordStandsWholeHolds ==
  ASSUME NoneIsApart
  PROVE  Spec => []RecordStandsWhole
<1>1. Init => AInv /\ HInv /\ RInv
  BY InitAInv, InitHInv, InitRInv
<1>2. AInv /\ HInv /\ RInv /\ [Next]_vars => (AInv /\ HInv /\ RInv)'
  BY StepKeeps, StepKeepsRecord
<1>3. RInv => RecordStandsWhole
  BY PlannedStands
<1>. QED  BY <1>1, <1>2, <1>3, PTL DEF Spec
=============================================================================
