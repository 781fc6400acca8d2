------------------------- MODULE ProtocolResolution -------------------------
(***************************************************************************)
(* The repository's own commit protocol as the resolver reads it           *)
(* (protocol_sources.py, protocol_resolver.py, git_topology.py,            *)
(* repo_state.py, deadlock_detector.py, remediation_planner.py): one       *)
(* content commit per unit, then a commit of derived status only the       *)
(* finalizer may write.  Builders commit, the suite writes its receipt,    *)
(* the finalizer certifies, people push, amend the rules, ask for a        *)
(* resolution, approve one plan and carry it out; the driver itself never  *)
(* moves a ref.                                                            *)
(***************************************************************************)
EXTENDS Integers, FiniteSets, Sequences

CONSTANTS Repositories,  \* what may be true of a repository from the start
          Amendments,    \* rule sets its documents may come to state
          MaxCommits,    \* bound: commits ever made
          MaxStrays      \* bound: those the protocol has no place for

\* A repository starts from one commit, which it may have tagged.
RepositoryRecords ==
  [rules : Amendments, order : Seq(STRING), tag : {0, 1}, readable : BOOLEAN,
   records : BOOLEAN, commits : BOOLEAN, stamped : BOOLEAN,
   guard : BOOLEAN, guardInSuite : BOOLEAN, guardReads : BOOLEAN]

\* Every rule has a level and a place in reading order.
ASSUME ResolutionAssumption ==
  /\ MaxCommits \in Nat \ {0} /\ MaxStrays \in Nat
  /\ \A rules \in Amendments : \A r \in rules :
       r.rank \in -1..5 /\ r.at \in Nat /\ r.max \in Nat
  /\ Repositories \subseteq RepositoryRecords

VARIABLES
  repo,      \* rules, order, tag, readable, records, commits, stamped, guard...
  made,      \* every commit ever made; its id is its position
  head,      \* the id HEAD names
  work,      \* the derived status in the working tree
  receipt,   \* the suite's receipt on disk
  pushed,    \* ids a remote branch contains
  kept,      \* ids archival refs name
  reported,  \* protocol-resolution.json: the options and the plan they are of
  approved,  \* the rewriting plan last approved
  certified, \* ghost: the finalizer's commits
  unit       \* ghost: "closed", "open", or "off" once the protocol is broken
resolutionVars == <<repo, made, head, work, receipt, pushed, kept, reported,
                    approved, certified, unit>>
ghosts == <<certified, unit>>
plans == <<reported, approved>>

-----------------------------------------------------------------------------
(* What a repository's own documents require (protocol_sources.py).  A     *)
(* rule is a record [kind, source, rank, at, max, says, historical,        *)
(* retires]: at is its position in reading order, max how many content     *)
(* commits it permits (0: it does not say), says the parameters it sets.   *)
(* It may instead retire a kind, and a document that calls itself history  *)
(* legislates nothing.  Authority decides which rule binds, a              *)
(* contradiction only an ordering the repository itself declares.          *)
Retirable == {"COMMIT_TOPOLOGY", "FINALIZER_OWNERSHIP", "CANONICAL_SUITE_GATE",
              "CLEAN_CLONE_GATE", "RECEIPT_FRESHNESS", "STATUS_REALITY_GUARD"}

\* The level at which a document speaks: what it says of itself, then the
\* ordering the repository declares, then the kind of file it is.
Rank(category, source, order, historical) ==
  IF historical THEN -1
  ELSE IF \E i \in DOMAIN order : order[i] = source
       THEN IF order[1] = source THEN 5 ELSE 4
  ELSE CASE category = "authority" -> 5
         [] category = "protocol" -> 4
         [] category = "implementation" -> 3
         [] category = "derived" -> 2
         [] OTHER -> 1

\* A kind is retired by a statement that outranks every rule still stating it.
RetiredKinds(rules) ==
  {k \in Retirable :
     \E c \in rules :
        /\ c.retires = k
        /\ \A r \in rules :
              (r.kind = k /\ ~r.historical /\ r.retires = "") => r.rank < c.rank}

OfKind(rules, kind) ==
  {r \in rules : /\ r.kind = kind
                 /\ ~r.historical /\ r.retires = ""
                 /\ kind \notin RetiredKinds(rules)}

\* The first, in reading order, of the highest-ranked.
Highest(candidates) ==
  CHOOSE r \in candidates :
     \A q \in candidates : q.rank < r.rank \/ (q.rank = r.rank /\ r.at <= q.at)

Effective(rules, kind) == OfKind(rules, kind) # {}
EffectiveRule(rules, kind) == Highest(OfKind(rules, kind))

\* The rules of a kind that set a parameter.
Stating(rules, kind, parameter) ==
  {r \in OfKind(rules, kind) : parameter \in r.says}
States(rules, kind, parameter) == Stating(rules, kind, parameter) # {}

\* How many content commits a unit may hold; 0 when no rule says.
MaxContent(rules) ==
  LET stating == {r \in OfKind(rules, "COMMIT_TOPOLOGY") : r.max > 0}
  IN IF stating = {} THEN 0 ELSE Highest(stating).max

\* Positions in a disagreement are decided by the declared order when each of
\* them is ranked by it and one comes strictly first.
Decided(positions, order) ==
  LET ranked(p) == {i \in DOMAIN order : \E r \in p : r.source = order[i]}
      first(p) == CHOOSE i \in ranked(p) : \A j \in ranked(p) : i <= j
  IN /\ Cardinality(positions) > 1
     /\ \A p \in positions : ranked(p) # {}
     /\ \E p \in positions : \A q \in positions \ {p} : first(p) < first(q)

\* The disagreements, each as the set of its positions.
Conflicts(rules) ==
  LET counted == {r \in OfKind(rules, "COMMIT_TOPOLOGY") : r.max > 0}
      counts == {{r \in counted : r.max = n} : n \in {r.max : r \in counted}}
      allowed == Stating(rules, "MANUAL_FINALIZATION_ALLOWED", "authorized")
      banned == Stating(rules, "MANUAL_STATUS_PROHIBITED", "prohibited")
      owned == Stating(rules, "FINALIZER_OWNERSHIP", "exclusive")
  IN (IF Cardinality(counts) > 1 THEN {counts} ELSE {})
       \cup {{allowed, p} : p \in {x \in {banned, owned} : allowed # {} /\ x # {}}}

Unresolved(rules, order) ==
  {c \in Conflicts(rules) : ~Decided(c, order)}

-----------------------------------------------------------------------------
(* Commits.  A commit changes files of the classes content, status and     *)
(* receipt (mark: its status shows the finalizer's stamp); tree is named   *)
(* by the first commit that had it.                                        *)
Commit(parent, files, mark, tree) ==
  [parent |-> parent, files |-> files, mark |-> mark, tree |-> tree]
NoStatus == [commit |-> 0, matches |-> TRUE, baseline |-> 0, passed |-> FALSE]
NoReceipt == [commit |-> 0, tree |-> 0, passed |-> FALSE, guardFailed |-> FALSE]
NoPlan == [range |-> {}, head |-> 0, base |-> 0, state |-> "", shared |-> FALSE, rules |-> {}]
NoReport == [there |-> FALSE, options |-> {}, plan |-> NoPlan]
NoApproval == [head |-> 0, base |-> 0, target |-> 0, archives |-> {}]

(* First-parent history of a commit: what it was built on, and itself.  A  *)
(* commit is made after its parent, so that ids order a history.           *)
History[id \in 0..Len(made)] ==
  IF id = 0 THEN {} ELSE History[made[id].parent] \union {id}

Parent(id) == IF id = 0 THEN 0 ELSE made[id].parent
Newest(ids) == IF ids = {} THEN 0 ELSE CHOOSE id \in ids : \A other \in ids : other <= id

(* classify_commit: content decides first, then derived status.            *)
Role(id) ==
  IF made[id].files = {} THEN "unknown"
  ELSE IF "content" \in made[id].files THEN "content"
  ELSE IF "status" \in made[id].files
       THEN IF made[id].mark THEN "finalizer" ELSE "hand_status"
  ELSE "evidence"
IsStatus(id) == Role(id) \in {"finalizer", "hand_status"}

(* A commit that changes something and no content.                         *)
PureMetadata(id) == id # 0 /\ made[id].files # {} /\ "content" \notin made[id].files

(* resolve_state: where the recorded content commit lies below HEAD.       *)
State ==
  IF work.commit = 0 THEN "UNDETERMINED"
  ELSE IF work.matches /\ work.commit = head THEN "BASELINE"
  ELSE IF work.matches /\ work.commit = Parent(head) /\ PureMetadata(head)
       THEN "FINALIZED"
  ELSE IF work.matches /\ work.commit = Parent(Parent(head)) /\ PureMetadata(Parent(head))
       THEN "PRODUCING"
  ELSE "ILLEGAL"
IsLegal(state) == state \in {"FINALIZED", "PRODUCING", "BASELINE"}

-----------------------------------------------------------------------------
(* resolve_baseline: recorded, else tagged, else where the remote is, else *)
(* the root.  A recorded baseline that names this unit's own content       *)
(* stands for that commit's parent, and one whose first child is the       *)
(* finalizer's stands for the certified pair.                              *)
Since(base) == History[head] \ History[base]

CurrentContent == IF IsStatus(head) THEN Parent(head) ELSE head

Historical(id) == IF id = CurrentContent /\ Parent(id) # 0 THEN Parent(id) ELSE id

Promote(id) ==
  LET finalized == {next \in Since(id) : Parent(next) = id /\ Role(next) = "finalizer"}
  IN IF finalized = {} THEN id ELSE Newest(finalized)

MergeBase == Newest(History[head] \intersect pushed)

Recorded == work.baseline # 0

Baseline ==
  IF Recorded THEN Promote(Historical(work.baseline))
  ELSE IF repo.tag # 0 THEN repo.tag
  ELSE IF MergeBase \notin {0, head} THEN MergeBase
  ELSE CHOOSE root \in History[head] : Parent(root) = 0

(* analyze: what the resolver has observed of history.                     *)
Observed(base, since) ==
  [base |-> base, range |-> since, state |-> State,
   shared |-> ~repo.readable \/ since \intersect pushed # {}]
AnalyzeFrom(base) == Observed(base, Since(base))
Topology == AnalyzeFrom(Baseline)

Contents(t) == {id \in t.range : Role(id) = "content"}
Certified(t) == {id \in t.range : Role(id) = "finalizer"}

-----------------------------------------------------------------------------
(* _receipt_bindings: what the receipt on disk is evidence of.             *)
Present == receipt.commit # 0
Names(id) == id # 0 /\ receipt.commit = id /\ receipt.tree = made[id].tree
BindsParent(t) ==
  head \in t.range /\ Role(head) = "finalizer" /\ Names(Parent(head))

(* A faulty variant: the receipt of the pair is looked for one commit high.*)
BindsPairsStatus(t) == t.state = "PRODUCING" /\ Names(Parent(head))

BindsCertified(t) == t.state = "PRODUCING" /\ Names(Parent(Parent(head)))
MatchesHead(t) ==
  \/ receipt.commit = head \/ receipt.tree = made[head].tree
  \/ BindsParent(t) \/ BindsCertified(t)
MatchesKnown(t) ==
  \E id \in t.range : receipt.commit = id \/ receipt.tree = made[id].tree

(* The commit that last changed the receipt's file; 0: not committed.      *)
CommittedIn == Newest({id \in History[head] : "receipt" \in made[id].files})
SelfReferential == CommittedIn # 0 /\ receipt.commit = CommittedIn

(* topology_violations.  A content commit that also changes status is      *)
(* lawful when the very next commit is the finalizer's.                    *)
Ratified(t, id) == \E next \in t.range : Parent(next) = id /\ Role(next) = "finalizer"
Mixed(t) ==
  \E id \in t.range : {"content", "status"} \subseteq made[id].files /\ ~Ratified(t, id)
StatusFirst(t) ==
  /\ Contents(t) # {}
  /\ \E id \in t.range : IsStatus(id) /\ \A content \in Contents(t) : id < content

ShapeViolated(t) ==
  \/ Cardinality(Contents(t)) > MaxContent(repo.rules)
  \/ States(repo.rules, "COMMIT_TOPOLOGY", "metadata") /\ Mixed(t)
  \/ StatusFirst(t) /\ ~IsLegal(t.state)
  \/ t.state = "ILLEGAL"

Exclusive == States(repo.rules, "FINALIZER_OWNERSHIP", "exclusive")
Banned == States(repo.rules, "MANUAL_STATUS_PROHIBITED", "prohibited")

HistoryViolated(t) ==
  \/ MaxContent(repo.rules) > 0 /\ ShapeViolated(t)
  \/ (Exclusive \/ Banned) /\ \E id \in t.range : Role(id) = "hand_status"
EvidenceViolated(t) ==
  Present /\ (SelfReferential \/ ~(MatchesHead(t) \/ MatchesKnown(t)))

-----------------------------------------------------------------------------
(* GateObserver.observe.  The guard's failure is read from the suite, or   *)
(* predicted from the violation it exists to catch.                        *)
SuitePasses == Present /\ receipt.passed
HasGuard == repo.guard \/ Effective(repo.rules, "STATUS_REALITY_GUARD")
GuardFails(history) == receipt.guardFailed \/ (~SuitePasses /\ HasGuard /\ history)
GuardInSuite == receipt.guardFailed \/ (repo.guard /\ repo.guardInSuite)
FinalizerDone(t) == work.passed /\ work.commit \in t.range \union {0, head}

(* build_graph: who waits on whom.                                         *)
Edges(t, history) ==
  (IF history /\ HasGuard THEN {<<"topology", "guard">>} ELSE {})
  \union
  (IF GuardFails(history) /\ GuardInSuite THEN {<<"guard", "suite">>} ELSE {})
  \union
  (IF ~SuitePasses /\ States(repo.rules, "CANONICAL_SUITE_GATE", "gates")
   THEN {<<"suite", "finalizer">>} ELSE {})
  \union
  (IF ~FinalizerDone(t) /\ Effective(repo.rules, "FINALIZER_OWNERSHIP")
   THEN {<<"finalizer", "status">>} ELSE {})
  \union
  (IF /\ history /\ ~FinalizerDone(t)
      /\ States(repo.rules, "COMMIT_TOPOLOGY", "metadata")
      /\ Exclusive \/ Banned
      /\ ~States(repo.rules, "MANUAL_FINALIZATION_ALLOWED", "authorized")
   THEN {<<"status", "topology">>} ELSE {})
  \union
  (IF /\ States(repo.rules, "RECEIPT_FRESHNESS", "must_match_head")
      /\ Present /\ CommittedIn # 0
      /\ SelfReferential \/ ~MatchesHead(t)
   THEN {<<"receipt", "position">>, <<"position", "receipt">>} ELSE {})
  \union
  (IF GuardFails(history) /\ Recorded /\ repo.guardReads
   THEN {<<"baseline", "guard">>, <<"guard", "finalizer">>, <<"finalizer", "baseline">>}
   ELSE {})

(* find_cycles: some gates wait only on one another.                       *)
Cyclic(edges) ==
  \E waiting \in SUBSET {e[1] : e \in edges} :
     /\ waiting # {}
     /\ \A node \in waiting : \E e \in edges : e[1] = node /\ e[2] \in waiting

-----------------------------------------------------------------------------
(* RemediationPlanner.plan.  A: one content commit rebuilt on the baseline.*)
(* B: the same by amending.  C: change the rule.  D: write the status by   *)
(* hand.  E: decide the contradiction first.                               *)
Conflicted == Unresolved(repo.rules, repo.order) # {}
Authorized ==
  /\ Effective(repo.rules, "MANUAL_FINALIZATION_ALLOWED")
  /\ "authorized" \in EffectiveRule(repo.rules, "MANUAL_FINALIZATION_ALLOWED").says

(* A faulty variant: a certified pair may be rewritten like any commit.    *)
RewritableAll(t) == Contents(t) # {}

Rewritable(t) == Contents(t) # {} /\ Certified(t) = {}
Admissible(t) == ~IsLegal(t.state) /\ ~Conflicted /\ ~Authorized /\ Certified(t) = {}

(* The options that may be approved; the disqualified are left out.        *)
Options(t, trouble) ==
  (IF Conflicted THEN {"E"} ELSE {})
  \union
  (IF ~trouble \/ t.range = {} THEN {}
   ELSE (IF Rewritable(t) THEN {"A"} ELSE {})
        \union (IF Rewritable(t) /\ Role(Newest(t.range)) = "content" THEN {"B"} ELSE {})
        \union (IF Authorized THEN {"D"} ELSE {})
        \union (IF Admissible(t) THEN {"C"} ELSE {}))

(* rank_options: a rewrite of shared history comes last.                   *)
Best(options, shared) ==
  IF "E" \in options THEN "E"
  ELSE IF "A" \in options /\ ~shared THEN "A"
  ELSE IF "C" \in options THEN "C"
  ELSE IF "D" \in options THEN "D"
  ELSE IF options = {} THEN "none" ELSE "A"
Rewrites(option) == option \in {"A", "B"}

(* _status_for *)
Status(deadlocked, violated, best, blocked) ==
  IF Conflicted THEN "BLOCKED_AUTHORITY"
  ELSE IF deadlocked \/ violated
  THEN IF best # "none" THEN "REQUIRES_APPROVAL"
       ELSE IF deadlocked THEN "DEADLOCK" ELSE "VIOLATION"
  ELSE IF blocked THEN "BLOCKED_ENVIRONMENT" ELSE "CONSISTENT"

(* resolve *)
Verdict(t, history, deadlocked) ==
  [deadlocked |-> deadlocked,
   violated |-> history \/ EvidenceViolated(t),
   options |-> Options(t, history \/ deadlocked)]
ResolveWith(t, history) == Verdict(t, history, Cyclic(Edges(t, history)))
Resolve(t) == ResolveWith(t, HistoryViolated(t))

StatusOf(t, v, blocked) ==
  Status(v.deadlocked, v.violated, Best(v.options, t.shared), blocked)
ReviewBlocked(status) ==
  status \in {"VIOLATION", "DEADLOCK", "REQUIRES_APPROVAL", "BLOCKED_AUTHORITY"}

(* requires_founder_authority *)
FounderMust(t, v) == Rewrites(Best(v.options, t.shared))

(* topology_fingerprint: what a plan's hash is of.                         *)
Plan(t) == [range |-> t.range, head |-> head, base |-> t.base, state |-> t.state,
            shared |-> t.shared, rules |-> repo.rules]

(* _archival_names *)
Archives(t) == Contents(t) \union {head}

-----------------------------------------------------------------------------
ResolutionInit ==
  /\ repo \in Repositories
  /\ made = <<Commit(0, {"content"}, FALSE, 1)>>
  /\ head = 1
  /\ work = NoStatus
  /\ receipt = NoReceipt
  /\ pushed = {} /\ kept = {} /\ certified = {}
  /\ reported = NoReport
  /\ approved = NoApproval
  /\ unit = "off"

Room == Len(made) < MaxCommits

(* What was reported or approved of one HEAD never fits another: ids are   *)
(* not used twice.  Of such a report only the options still count.         *)
HeadMoves ==
  /\ head' = Len(made) + 1
  /\ reported' = [reported EXCEPT !.plan = NoPlan]
  /\ approved' = NoApproval

AddCommit(files, mark) ==
  /\ Room
  /\ made' = Append(made, Commit(head, files, mark, Len(made) + 1))
  /\ HeadMoves

AddStray(files, mark) ==
  /\ Cardinality({id \in 1..Len(made) : made[id].files # {"content"}} \ certified) < MaxStrays
  /\ AddCommit(files, mark)
  /\ unit' = "off"

(* What a hand may write in the status: as it was, or that HEAD passed,    *)
(* with its tree or with one it does not have.                             *)
Claims ==
  {work} \union
  {[work EXCEPT !.commit = head, !.matches = fits, !.passed = TRUE] : fits \in BOOLEAN}

(* A builder commits content, alone or together with derived status.       *)
BuildContent ==
  /\ \/ /\ AddCommit({"content"}, FALSE)
        /\ work' = work
        /\ unit' = IF unit = "closed" THEN "open" ELSE "off"
     \/ AddStray({"content", "status"}, FALSE) /\ work' \in Claims
  /\ UNCHANGED <<repo, receipt, pushed, kept, certified>>

(* Someone commits status by hand; where the file carries its owner's      *)
(* stamp, the edit may leave it in place.                                  *)
HandStatus ==
  /\ \E mark \in {FALSE, repo.stamped} : AddStray({"status"}, mark)
  /\ work' \in Claims
  /\ UNCHANGED <<repo, receipt, pushed, kept, certified>>

CommitReceipt ==
  /\ Present
  /\ AddStray({"receipt"}, FALSE)
  /\ UNCHANGED <<repo, work, receipt, pushed, kept, certified>>

(* The canonical suite: its guard refuses what the state machine calls     *)
(* illegal, the rest of it may pass or fail.                               *)
RunSuite ==
  /\ \E product \in BOOLEAN :
       LET refused == repo.guard /\ repo.guardInSuite /\ State = "ILLEGAL"
       IN receipt' = [commit |-> head, tree |-> made[head].tree,
                      passed |-> product /\ ~refused, guardFailed |-> refused]
  /\ unit' = IF unit = "closed" THEN "off" ELSE unit
  /\ UNCHANGED <<repo, made, head, work, pushed, kept, plans, certified>>

(* The finalizer certifies the content commit whose suite passed.  A       *)
(* content commit that carries the receipt's file itself, and whose        *)
(* finalizer commits none, is not built as the protocol says.              *)
Finalize ==
  /\ receipt.passed /\ Names(head) /\ Role(head) = "content"
  /\ AddCommit(IF repo.commits THEN {"status", "receipt"} ELSE {"status"}, TRUE)
  /\ work' = [commit |-> head, matches |-> TRUE, passed |-> TRUE,
              baseline |-> IF repo.records THEN head ELSE work.baseline]
  /\ certified' = certified \union {head'}
  /\ unit' = IF Parent(head) = 0 \/ ("receipt" \in made[head].files /\ ~repo.commits)
             THEN "off" ELSE "closed"
  /\ UNCHANGED <<repo, receipt, pushed, kept>>

Push ==
  /\ head \notin pushed /\ pushed \subseteq History[head]
  /\ pushed' = History[head]
  /\ UNCHANGED <<repo, made, head, work, receipt, kept, plans, ghosts>>

(* The documents come to state other rules: by anyone, or as plans C and E.*)
Amend ==
  /\ \E rules \in Amendments \ {repo.rules} : repo' = [repo EXCEPT !.rules = rules]
  /\ UNCHANGED <<made, head, work, receipt, pushed, kept, plans, ghosts>>

(* cmd_protocol, the loop and the reviewer's gate all leave the report.    *)
ReportOf(t, v) == [there |-> TRUE, options |-> v.options, plan |-> Plan(t)]
ReportFrom(t) == reported' = ReportOf(t, Resolve(t))
Report ==
  /\ ReportFrom(Topology)
  /\ reported' # reported
  /\ UNCHANGED <<repo, made, head, work, receipt, pushed, kept, approved, ghosts>>

(* cmd_approve: refused without a report, and when the option's plan is no *)
(* longer the one reported.  A and B move the branch to the same commit;   *)
(* the others move nothing.                                                *)
Approval(t) ==
  [head |-> head, base |-> t.base,
   target |-> IF Contents(t) = {} THEN head ELSE Newest(Contents(t)),
   archives |-> Archives(t)]
ApproveFrom(t) ==
  \E option \in Resolve(t).options :
     /\ Rewrites(option)
     /\ option \in reported.options => reported.plan = Plan(t)
     /\ approved' = Approval(t)
Approve ==
  /\ reported.there
  /\ ApproveFrom(Topology)
  /\ approved' # approved
  /\ UNCHANGED <<repo, made, head, work, receipt, pushed, kept, reported, ghosts>>

(* What a rewrite changes since its baseline: all it folds together.       *)
Folded == UNION {made[id].files : id \in {x \in Topology.range : x <= approved.target}}

(* The rewrite leaves one unfinished unit on a certified pair: the status  *)
(* still speaks of that pair, and the receipt of it or of the same tree.   *)
Repaired(files) ==
  /\ repo.records /\ work.matches /\ files = {"content"}
  /\ Role(approved.base) = "finalizer"
  /\ Parent(approved.base) = work.commit /\ work.baseline = work.commit
  /\ "receipt" \in made[work.commit].files => "receipt" \in made[approved.base].files
  /\ ~receipt.guardFailed
  /\ ~Present \/ Names(work.commit) \/ receipt.tree = made[approved.target].tree

(* Plans A and B, carried out: the archival refs first, then one content   *)
(* commit with the last content's tree, while HEAD is what was approved.   *)
Execute ==
  /\ Room /\ approved.head = head
  /\ kept' = kept \union approved.archives
  /\ made' = Append(made, Commit(approved.base, Folded, FALSE, made[approved.target].tree))
  /\ HeadMoves
  /\ unit' = IF Repaired(Folded) THEN "open" ELSE "off"
  /\ UNCHANGED <<repo, work, receipt, pushed, certified>>

ResolutionNext ==
  \/ BuildContent \/ HandStatus \/ CommitReceipt \/ RunSuite \/ Finalize
  \/ Push \/ Amend \/ Report \/ Approve \/ Execute

ResolutionSpec == ResolutionInit /\ [][ResolutionNext]_resolutionVars

-----------------------------------------------------------------------------
Commits == 1..Len(made)

FileClasses == {"content", "status", "receipt"}
CommitRecords == [parent : Nat, files : SUBSET FileClasses, mark : BOOLEAN, tree : Nat]

\* Commits made one after the other: each after its parent, none with a tree
\* that is first made later.
Grown(m) ==
  /\ m \in Seq(CommitRecords)
  /\ \A id \in 1..Len(m) : m[id].parent \in 0..(id - 1) /\ m[id].tree \in 1..id

ResolutionTypeOK ==
  /\ repo \in RepositoryRecords
  /\ Grown(made) /\ Len(made) <= MaxCommits /\ head \in Commits
  /\ work \in [commit : Commits \union {0}, matches : BOOLEAN,
               baseline : Commits \union {0}, passed : BOOLEAN]
  /\ receipt \in [commit : Commits \union {0}, tree : Commits \union {0},
                  passed : BOOLEAN, guardFailed : BOOLEAN]
  /\ approved \in [head : Nat, base : Nat, target : Nat, archives : SUBSET Commits]
  /\ kept \subseteq Commits /\ pushed \subseteq Commits /\ certified \subseteq Commits
  /\ unit \in {"closed", "open", "off"}

(* No plan the planner offers loses history: whatever is approved and      *)
(* carried out, every commit ever made is still reached from HEAD or from  *)
(* an archival ref, and what the finalizer certified never leaves the      *)
(* branch at all (certified_pair_commits).                                 *)
HistoryKept ==
  /\ Commits = History[head] \union UNION {History[id] : id \in kept}
  /\ certified \subseteq History[head]

(* A unit built as the protocol says, or put right by an approved plan, is *)
(* never in the way of the work that follows: the resolver finds nothing   *)
(* to block but the environment, a review is not refused, and no one is    *)
(* asked for authority (the PRODUCING and FINALIZED receipts of            *)
(* git_topology.py, resolve_state).                                        *)
GoesOn(t, v) ==
  \A blocked \in BOOLEAN :
     /\ StatusOf(t, v, blocked) = IF blocked THEN "BLOCKED_ENVIRONMENT" ELSE "CONSISTENT"
     /\ ~ReviewBlocked(StatusOf(t, v, blocked))
     /\ ~FounderMust(t, v)
GoesOnFrom(t) == GoesOn(t, Resolve(t))
LawfulGoesOn == repo.records /\ unit # "off" /\ ~Conflicted => GoesOnFrom(Topology)
=============================================================================
