---------------------------- MODULE RepositoryProofs ----------------------------
(***************************************************************************)
(* What is proved of the repository the driver works in: of its commit     *)
(* protocol, for any rules and any number of commits, and of its two       *)
(* locks, for any number of builders and finalizers.                       *)
(***************************************************************************)
EXTENDS Ownership, ProtocolResolution, FiniteSetTheorems, SequenceTheorems,
        WellFoundedInduction, TLAPS

-----------------------------------------------------------------------------
(* Naturals.                                                               *)

\* Less-than is well-founded on the naturals.
LEMMA LessThanWellFounded == IsWellFoundedOn({ss \in Nat \X Nat : ss[1] < ss[2]}, Nat)
BY NatLessThanWellFounded, Zenon DEF OpToRel

\* A set of naturals that is not empty has a least element.
LEMMA HasLeast ==
  ASSUME NEW D, D \subseteq Nat, D # {}
  PROVE  \E m \in D : \A k \in D : m <= k
<1> DEFINE R == {ss \in Nat \X Nat : ss[1] < ss[2]}
<1> HIDE DEF R
<1>1. IsWellFoundedOn(R, Nat)
  BY LessThanWellFounded DEF R
<1>2. PICK m \in D : \A k \in D : ~(<<k, m>> \in R)
  BY <1>1, WFMin
<1>3. \A k \in D : ~(k < m)
  BY <1>2 DEF R
<1> QED
  BY <1>3

\* A set of naturals that holds 0 and, with each member, the next holds them all.
LEMMA NaturalsByInduction ==
  ASSUME NEW T, 0 \in T, \A n \in Nat : n \in T => n + 1 \in T
  PROVE  \A n \in Nat : n \in T
<1> DEFINE Out == {n \in Nat : n \notin T}
<1>1. SUFFICES ASSUME Out # {} PROVE FALSE
  OBVIOUS
<1>2. PICK m \in Out : \A k \in Out : m <= k
  BY <1>1, HasLeast
<1>3. m \in Nat /\ m # 0 /\ m \notin T
  OBVIOUS
<1>4. m - 1 \in Nat /\ (m - 1) + 1 = m /\ ~(m <= m - 1)
  BY <1>3
<1>5. m - 1 \in T
  BY <1>2, <1>4
<1> QED
  BY <1>3, <1>4, <1>5

\* Of the ids up to a bound, if there are any, one is the newest.
LEMMA NewestIsLast ==
  ASSUME NEW n \in Nat, NEW S, S \subseteq 1..n, S # {}
  PROVE  Newest(S) \in S /\ \A j \in S : j <= Newest(S)
<1> DEFINE D == {n - i : i \in S}
<1>1. D \subseteq Nat /\ D # {}
  <2>1. \A i \in S : n - i \in Nat
    OBVIOUS
  <2>2. D # {}
    OBVIOUS
  <2> QED
    BY <2>1, <2>2
<1>2. PICK m \in D : \A k \in D : m <= k
  BY <1>1, HasLeast
<1>3. PICK i \in S : m = n - i
  BY <1>2
<1>4. \A j \in S : n - i <= n - j
  BY <1>2, <1>3
<1>5. \A j \in S : j <= i
  BY <1>3, <1>4
<1>6. \E last \in S : \A j \in S : j <= last
  BY <1>5
<1> QED
  BY <1>6 DEF Newest

-----------------------------------------------------------------------------
(* Histories.                                                              *)

\* The histories of the commits m.
HistoryOf(m) ==
  CHOOSE f : f = [id \in 0..Len(m) |-> IF id = 0 THEN {} ELSE f[m[id].parent] \union {id}]

\* The model's history is that of the commits made.
LEMMA HistoryIsOfMade == History = HistoryOf(made)
BY Zenon DEF History, HistoryOf

\* Since a commit comes after its parent, the recursion is well-founded.
LEMMA HistoriesExist ==
  ASSUME NEW m, Grown(m), NEW n \in Nat, n <= Len(m)
  PROVE  \E f : f = [id \in 0..n |-> IF id = 0 THEN {} ELSE f[m[id].parent] \union {id}]
<1> DEFINE Ok(k) == \E f : f = [id \in 0..k |-> IF id = 0 THEN {} ELSE f[m[id].parent] \union {id}]
           T == {k \in Nat : k <= Len(m) => Ok(k)}
<1>1. 0 \in T
  <2>1. Ok(0)
    <3> WITNESS [id \in 0..0 |-> {}]
    <3> QED
      OBVIOUS
  <2> HIDE DEF Ok
  <2> QED
    BY <2>1
<1>2. ASSUME NEW k \in Nat, k \in T
      PROVE  k + 1 \in T
  <2>1. SUFFICES ASSUME k + 1 <= Len(m) PROVE Ok(k + 1)
    OBVIOUS
  <2>2. Len(m) \in Nat /\ m[k + 1].parent \in 0..k
    BY <2>1 DEF Grown
  <2>3. Ok(k)
    BY <1>2, <2>1, <2>2
  <2>4. PICK f : f = [id \in 0..k |-> IF id = 0 THEN {} ELSE f[m[id].parent] \union {id}]
    BY <2>3
  <2> DEFINE new == f[m[k + 1].parent] \union {k + 1}
             g == [id \in 0..(k + 1) |-> IF id = k + 1 THEN new ELSE f[id]]
  <2>5. \A id \in 1..k : m[id].parent \in 0..k
    BY <2>1, <2>2 DEF Grown
  <2>6. \A id \in 0..k : f[id] = IF id = 0 THEN {} ELSE f[m[id].parent] \union {id}
    BY <2>4
  <2> HIDE DEF new
  <2>7. \A id \in 0..k : g[id] = f[id] /\ id # k + 1
    OBVIOUS
  <2>8. g[k + 1] = new /\ g[m[k + 1].parent] = f[m[k + 1].parent]
    BY <2>2, <2>7
  <2>9. \A id \in 0..(k + 1) : g[id] = IF id = 0 THEN {} ELSE g[m[id].parent] \union {id}
    <3> HIDE DEF g
    <3>1. g[k + 1] = g[m[k + 1].parent] \union {k + 1} /\ k + 1 # 0
      BY <2>8 DEF new
    <3>2. g[0] = {}
      BY <2>6, <2>7, 0 \in 0..k
    <3>3. ASSUME NEW id \in 1..k
          PROVE  g[id] = g[m[id].parent] \union {id}
      <4>1. m[id].parent \in 0..k /\ id \in 0..k /\ id # 0
        BY <2>5
      <4>2. f[id] = f[m[id].parent] \union {id}
        BY <2>6, <4>1
      <4> QED
        BY <2>7, <4>1, <4>2
    <3>4. \A id \in 0..(k + 1) : id = 0 \/ id = k + 1 \/ id \in 1..k
      OBVIOUS
    <3> QED
      BY <3>1, <3>2, <3>3, <3>4
  <2>10. g = [id \in 0..(k + 1) |-> IF id = 0 THEN {} ELSE g[m[id].parent] \union {id}]
    BY <2>9
  <2> HIDE DEF g
  <2> QED
    BY <2>10
<1> HIDE DEF T
<1>3. \A k \in Nat : k \in T
  BY <1>1, <1>2, NaturalsByInduction
<1> QED
  BY <1>3 DEF T

\* A commit's history is its parent's and itself.
LEMMA HistorySteps ==
  ASSUME NEW m, Grown(m)
  PROVE  /\ HistoryOf(m)[0] = {}
         /\ \A id \in 1..Len(m) : HistoryOf(m)[id] = HistoryOf(m)[m[id].parent] \union {id}
<1>1. Len(m) \in Nat /\ Len(m) <= Len(m)
  BY DEF Grown
<1> DEFINE f == HistoryOf(m)
<1>2. \E g : g = [id \in 0..Len(m) |-> IF id = 0 THEN {} ELSE g[m[id].parent] \union {id}]
  BY <1>1, HistoriesExist
<1>3. f = [id \in 0..Len(m) |-> IF id = 0 THEN {} ELSE f[m[id].parent] \union {id}]
  BY <1>2, Zenon DEF HistoryOf
<1> HIDE DEF f
<1>4. \A id \in 0..Len(m) : f[id] = IF id = 0 THEN {} ELSE f[m[id].parent] \union {id}
  BY <1>3
<1>5. f[0] = {}
  BY <1>1, <1>4, 0 \in 0..Len(m)
<1>6. ASSUME NEW id \in 1..Len(m)
      PROVE  f[id] = f[m[id].parent] \union {id}
  BY <1>1, <1>4, id \in 0..Len(m), id # 0
<1> QED
  BY <1>5, <1>6 DEF f

\* What holds of 0 and of every commit whose earlier ones it holds of, holds of all.
LEMMA CommitsByInduction ==
  ASSUME NEW n \in Nat, NEW T, 0 \in T,
         \A id \in 1..n : (\A k \in 0..(id - 1) : k \in T) => id \in T
  PROVE  \A id \in 0..n : id \in T
<1> DEFINE Out == {id \in 0..n : id \notin T}
<1>1. SUFFICES ASSUME Out # {} PROVE FALSE
  OBVIOUS
<1>2. Out \subseteq Nat
  OBVIOUS
<1>3. PICK m \in Out : \A k \in Out : m <= k
  BY <1>1, <1>2, HasLeast
<1>4. m \in 1..n /\ m \notin T
  OBVIOUS
<1>5. \A k \in 0..(m - 1) : k \in T
  BY <1>3, <1>4
<1> QED
  BY <1>4, <1>5

\* A history holds the commit and earlier ones, and with a commit all of its history.
LEMMA HistoryFacts ==
  ASSUME NEW m, Grown(m), NEW id \in 1..Len(m)
  PROVE  /\ HistoryOf(m)[id] \subseteq 1..id
         /\ id \in HistoryOf(m)[id]
         /\ \A a \in HistoryOf(m)[id] : HistoryOf(m)[a] \subseteq HistoryOf(m)[id]
<1> DEFINE h == HistoryOf(m)
           Ok(k) == k # 0 => /\ h[k] \subseteq 1..k /\ k \in h[k]
                             /\ \A a \in h[k] : h[a] \subseteq h[k]
           T == {k \in 0..Len(m) : Ok(k)}
<1>1. Len(m) \in Nat /\ h[0] = {} /\ \A k \in 1..Len(m) : h[k] = h[m[k].parent] \union {k}
  BY HistorySteps DEF Grown
<1> HIDE DEF h
<1>2. ASSUME NEW k \in 1..Len(m), \A j \in 0..(k - 1) : j \in T
      PROVE  k \in T
  <2> DEFINE p == m[k].parent
  <2>1. p \in 0..(k - 1) /\ Ok(p) /\ h[k] = h[p] \union {k}
    BY <1>1, <1>2 DEF Grown
  <2> HIDE DEF p
  <2>2. h[p] \subseteq 1..(k - 1)
    BY <1>1, <2>1
  <2>3. \A a \in h[p] : h[a] \subseteq h[p]
    BY <1>1, <2>1
  <2>4. Ok(k)
    BY <2>1, <2>2, <2>3
  <2> HIDE DEF Ok
  <2> QED
    BY <2>4
<1>3. 0 \in T
  BY <1>1
<1> HIDE DEF T
<1>4. \A k \in 0..Len(m) : k \in T
  BY <1>1, <1>2, <1>3, CommitsByInduction
<1>5. Ok(id)
  BY <1>1, <1>4 DEF T
<1> QED
  BY <1>1, <1>5 DEF h

\* A commit more changes no history.
LEMMA HistoryStands ==
  ASSUME NEW m, Grown(m), NEW c, Grown(Append(m, c))
  PROVE  \A id \in 0..Len(m) : HistoryOf(Append(m, c))[id] = HistoryOf(m)[id]
<1> DEFINE h == HistoryOf(m)
           g == HistoryOf(Append(m, c))
           Ok(k) == g[k] = h[k]
           T == {k \in 0..Len(m) : Ok(k)}
<1>1. Len(m) \in Nat /\ h[0] = {} /\ \A k \in 1..Len(m) : h[k] = h[m[k].parent] \union {k}
  BY HistorySteps DEF Grown
<1>2. /\ g[0] = {}
      /\ \A k \in 1..Len(Append(m, c)) : g[k] = g[Append(m, c)[k].parent] \union {k}
  BY HistorySteps
<1>3. Len(Append(m, c)) = Len(m) + 1 /\ \A k \in 1..Len(m) : Append(m, c)[k] = m[k]
  BY DEF Grown
<1> HIDE DEF h, g
<1>4. \A k \in 1..Len(m) : g[k] = g[m[k].parent] \union {k}
  BY <1>1, <1>2, <1>3
<1>5. ASSUME NEW k \in 1..Len(m), \A j \in 0..(k - 1) : j \in T
      PROVE  k \in T
  <2>1. m[k].parent \in 0..(k - 1)
    BY DEF Grown
  <2>2. Ok(m[k].parent)
    <3> HIDE DEF Ok
    <3> QED
      BY <1>5, <2>1
  <2>3. Ok(k)
    BY <1>1, <1>4, <2>2
  <2> HIDE DEF Ok
  <2> QED
    BY <1>1, <2>3
<1>6. 0 \in T
  <2>1. Ok(0)
    BY <1>1, <1>2
  <2> HIDE DEF Ok
  <2> QED
    BY <1>1, <2>1
<1> HIDE DEF T
<1>7. \A k \in 0..Len(m) : k \in T
  BY <1>1, <1>5, <1>6, CommitsByInduction
<1> QED
  BY <1>7 DEF T, h, g

-----------------------------------------------------------------------------
(* What a commit more leaves as it was.                                    *)

\* The histories of the commits made.
LEMMA HistoriesNow ==
  ASSUME Grown(made)
  PROVE  /\ Len(made) \in Nat /\ History[0] = {}
         /\ \A id \in Commits : /\ History[id] = History[made[id].parent] \union {id}
                                /\ History[id] \subseteq 1..id /\ id \in History[id]
                                /\ \A a \in History[id] : History[a] \subseteq History[id]
                                /\ made[id] \in CommitRecords /\ made[id].parent \in 0..(id - 1)
                                /\ made[id].tree \in 1..id
<1>1. Len(made) \in Nat /\ made \in Seq(CommitRecords)
  BY DEF Grown
<1>2. \A id \in Commits : made[id] \in CommitRecords
  BY <1>1 DEF Commits
<1> QED
  BY <1>1, <1>2, HistoryIsOfMade, HistorySteps, HistoryFacts DEF Commits, Grown

\* The commit c is made, and only it.
Added(c) == /\ c \in CommitRecords /\ c.parent \in Commits /\ c.tree \in 1..(Len(made) + 1)
            /\ made' = Append(made, c)

\* What is made stays, with its history; the new commit has its parent's.
LEMMA CommitAdded ==
  ASSUME Grown(made), NEW c, Added(c)
  PROVE  /\ Grown(made)' /\ Len(made)' = Len(made) + 1
         /\ Commits' = Commits \union {Len(made) + 1} /\ Len(made) + 1 \notin Commits
         /\ \A id \in Commits : made'[id] = made[id]
         /\ made'[Len(made) + 1] = c
         /\ \A id \in Commits \union {0} : History'[id] = History[id]
         /\ History'[Len(made) + 1] = History[c.parent] \union {Len(made) + 1}
<1>1. Len(made) \in Nat /\ made \in Seq(CommitRecords)
  BY DEF Grown
<1>2. /\ made' \in Seq(CommitRecords) /\ Len(made') = Len(made) + 1
      /\ \A id \in 1..Len(made) : made'[id] = made[id]
      /\ made'[Len(made) + 1] = c
  BY <1>1 DEF Added
<1>3. ASSUME NEW id \in 1..Len(made')
      PROVE  made'[id].parent \in 0..(id - 1) /\ made'[id].tree \in 1..id
  <2>1. CASE id \in 1..Len(made)
    BY <1>2, <2>1 DEF Grown
  <2>2. CASE id = Len(made) + 1
    BY <1>1, <1>2, <2>2 DEF Added, Commits
  <2> QED
    BY <1>1, <1>2, <2>1, <2>2
<1>4. Grown(made')
  BY <1>2, <1>3 DEF Grown
<1>5. \A id \in 0..Len(made) : HistoryOf(made')[id] = HistoryOf(made)[id]
  BY <1>4, HistoryStands DEF Added
<1>6. HistoryOf(made')[Len(made) + 1] = HistoryOf(made')[c.parent] \union {Len(made) + 1}
  BY <1>1, <1>2, <1>4, HistorySteps
<1>7. History = HistoryOf(made) /\ History' = HistoryOf(made')
  BY HistoryIsOfMade, Zenon DEF History, HistoryOf
<1> QED
  BY <1>1, <1>2, <1>4, <1>5, <1>6, <1>7 DEF Commits, Added

-----------------------------------------------------------------------------
(* Nothing a plan offers loses history.                                    *)

\* Every commit goes back to the first, which is of content alone.
Rooted == /\ made[1].parent = 0 /\ made[1].files = {"content"}
          /\ \A id \in Commits : 1 \in History[id]

\* The finalizer's commits look like it, and a recorded baseline is what one
\* of them certified.
Certifies == /\ \A f \in certified : Role(f) = "finalizer"
             /\ work.baseline # 0 => \E f \in certified : Parent(f) = work.baseline

\* An approval of HEAD rewrites a part of its history that has no certificate,
\* and archives HEAD.
Fits(a) == /\ a.base \in History[head] /\ a.target \in History[head] \ History[a.base]
           /\ a.archives \subseteq Commits /\ head \in a.archives
           /\ certified \subseteq History[a.base]
Lawful == approved.head = head => Fits(approved)

KeptInv == ResolutionTypeOK /\ Rooted /\ Certifies /\ Lawful /\ HistoryKept

\* Where the unit is measured from lies in the branch's own history.
LEMMA BaselineOnBranch ==
  ASSUME KeptInv
  PROVE  Baseline \in History[head]
<1> USE DEF KeptInv
<1>1. /\ Grown(made) /\ head \in Commits /\ repo \in RepositoryRecords
      /\ work.baseline \in Commits \union {0} /\ pushed \subseteq Commits
      /\ certified \subseteq Commits
  BY DEF ResolutionTypeOK
<1>2. /\ Len(made) \in Nat /\ History[0] = {} /\ History[head] \subseteq Commits
      /\ \A id \in Commits : /\ History[id] = History[made[id].parent] \union {id}
                             /\ made[id].parent \in 0..(id - 1)
      /\ \A a \in History[head] : History[a] \subseteq History[head]
  BY <1>1, HistoriesNow DEF Commits
<1>3. ASSUME NEW id \in History[head], Parent(id) # 0
      PROVE  Parent(id) \in History[head]
  <2>1. id \in Commits /\ id # 0 /\ Parent(id) = made[id].parent
    BY <1>2 DEF Parent, Commits
  <2>2. Parent(id) \in Commits
    BY <1>2, <1>3, <2>1 DEF Commits
  <2>3. Parent(id) \in History[Parent(id)]
    BY <1>1, <2>2, HistoriesNow
  <2> QED
    BY <1>2, <2>1, <2>3
<1>4. ASSUME NEW S, S \subseteq History[head], S # {}
      PROVE  Newest(S) \in History[head]
  <2>1. S \subseteq 1..Len(made)
    BY <1>2, <1>4 DEF Commits
  <2>2. Newest(S) \in S
    BY <1>2, <1>4, <2>1, NewestIsLast
  <2> QED
    BY <1>4, <2>2
<1>5. CASE Recorded
  <2>1. PICK f \in certified : Parent(f) = work.baseline
    BY <1>5 DEF Recorded, Certifies
  <2>2. work.baseline \in History[head]
    BY <1>3, <1>5, <2>1 DEF Recorded, HistoryKept
  <2>3. Historical(work.baseline) \in History[head]
    BY <1>3, <2>2 DEF Historical
  <2>4. Promote(Historical(work.baseline)) \in History[head]
    BY <1>4, <2>3, Zenon DEF Promote, Since
  <2> QED
    BY <1>5, <2>4 DEF Baseline
<1>6. CASE ~Recorded /\ repo.tag # 0
  BY <1>1, <1>6 DEF Baseline, Rooted, RepositoryRecords
<1>7. CASE ~Recorded /\ repo.tag = 0 /\ MergeBase \notin {0, head}
  <2>1. History[head] \intersect pushed # {}
    BY <1>7 DEF MergeBase, Newest
  <2> QED
    BY <1>4, <1>7, <2>1 DEF Baseline, MergeBase
<1>8. CASE ~Recorded /\ repo.tag = 0 /\ MergeBase \in {0, head}
  <2>1. 1 \in History[head] /\ Parent(1) = 0
    BY <1>1 DEF Rooted, Parent
  <2>2. Baseline = CHOOSE root \in History[head] : Parent(root) = 0
    BY <1>8 DEF Baseline
  <2> QED
    BY <2>1, <2>2
<1> QED
  BY <1>5, <1>6, <1>7, <1>8

\* The first commit is all of its branch.
LEMMA InitKept == ResolutionInit => KeptInv
<1> SUFFICES ASSUME ResolutionInit PROVE KeptInv
  OBVIOUS
<1> USE DEF ResolutionInit
<1> DEFINE first == Commit(0, {"content"}, FALSE, 1)
<1>1. first \in CommitRecords /\ first.parent = 0 /\ first.tree = 1 /\ first.files = {"content"}
  BY DEF Commit, CommitRecords, FileClasses
<1>2. made = <<first>>
  OBVIOUS
<1> HIDE DEF first, ResolutionInit
<1>3. /\ made \in Seq(CommitRecords) /\ Len(made) = 1 /\ made[1] = first
      /\ Grown(made) /\ Commits = {1}
  <2>1. made \in Seq(CommitRecords) /\ Len(made) = 1 /\ made[1] = first
    BY <1>1, <1>2
  <2>2. \A id \in 1..1 : id = 1
    OBVIOUS
  <2>3. \A id \in 1..Len(made) : made[id].parent \in 0..(id - 1) /\ made[id].tree \in 1..id
    BY <1>1, <2>1, <2>2
  <2> QED
    BY <2>1, <2>3 DEF Grown, Commits
<1> USE DEF ResolutionInit
<1>4. ResolutionTypeOK
  <2>1. /\ repo \in RepositoryRecords /\ Len(made) <= MaxCommits
    BY <1>3, ResolutionAssumption
  <2>2. /\ work \in [commit : Commits \union {0}, matches : BOOLEAN,
                     baseline : Commits \union {0}, passed : BOOLEAN]
        /\ receipt \in [commit : Commits \union {0}, tree : Commits \union {0},
                        passed : BOOLEAN, guardFailed : BOOLEAN]
        /\ approved \in [head : Nat, base : Nat, target : Nat, archives : SUBSET Commits]
    BY DEF NoStatus, NoReceipt, NoApproval
  <2> QED
    BY <1>3, <2>1, <2>2 DEF ResolutionTypeOK
<1>5. History[1] = {1}
  BY <1>1, <1>3, HistoriesNow
<1>6. Rooted
  BY <1>1, <1>3, <1>5 DEF Rooted
<1>7. Certifies
  BY DEF Certifies, NoStatus
<1>8. Lawful
  BY DEF Lawful, NoApproval
<1>9. HistoryKept
  BY <1>3, <1>5 DEF HistoryKept
<1> QED
  BY <1>4, <1>6, <1>7, <1>8, <1>9 DEF KeptInv

\* An approved plan leaves every certificate where it is.
LEMMA ApprovalFits ==
  ASSUME KeptInv, Approve
  PROVE  approved' = Approval(Topology) /\ Fits(Approval(Topology))
<1> DEFINE t == Topology
<1>1. /\ Grown(made) /\ head \in Commits /\ certified \subseteq Commits
  BY DEF KeptInv, ResolutionTypeOK
<1>2. History[head] \subseteq Commits /\ Len(made) \in Nat /\ head \in History[head]
  BY <1>1, HistoriesNow DEF Commits
<1>3. t.base = Baseline /\ t.range = Since(t.base)
  BY DEF Topology, AnalyzeFrom, Observed
<1>4. Baseline \in History[head]
  BY BaselineOnBranch
<1> HIDE DEF t
<1>5. PICK option \in Resolve(t).options : Rewrites(option) /\ approved' = Approval(t)
  BY DEF Approve, ApproveFrom, t
<1>6. Rewritable(t)
  <2>1. PICK trouble : option \in Options(t, trouble)
    BY <1>5 DEF Resolve, ResolveWith, Verdict
  <2> QED
    BY <1>5, <2>1 DEF Options, Rewrites
<1>7. \A id \in certified : id \in History[t.base]
  <2> SUFFICES ASSUME NEW id \in certified, id \notin History[t.base] PROVE FALSE
    OBVIOUS
  <2>1. id \in t.range
    BY <1>3 DEF KeptInv, HistoryKept, Since
  <2> QED
    BY <1>6, <2>1 DEF Rewritable, Certified, KeptInv, Certifies
<1>8. Contents(t) \subseteq History[head] \ History[t.base] /\ Contents(t) # {}
  BY <1>3, <1>6 DEF Contents, Since, Rewritable
<1>9. Newest(Contents(t)) \in Contents(t)
  BY <1>2, <1>8, NewestIsLast DEF Commits
<1>10. Fits(Approval(t))
  BY <1>1, <1>2, <1>3, <1>4, <1>7, <1>8, <1>9 DEF Fits, Approval, Archives
<1> QED
  BY <1>5, <1>10 DEF t

\* One commit more, built on the branch, that leaves what is certified below it
\* and HEAD below it or archived, loses nothing.
LEMMA GrownKept ==
  ASSUME KeptInv, NEW c, Added(c), Room, head' = Len(made) + 1, approved' = NoApproval,
         repo' = repo, receipt' = receipt, pushed' = pushed,
         unit' \in {"closed", "open", "off"},
         work' \in [commit : Commits \union {0}, matches : BOOLEAN,
                   baseline : Commits \union {0}, passed : BOOLEAN],
         kept \subseteq kept', kept' \subseteq Commits,
         c.parent = head \/ head \in kept', certified \subseteq History[c.parent],
         \/ certified' = certified /\ work'.baseline = work.baseline
         \/ /\ certified' = certified \union {head'} /\ work'.baseline \in {work.baseline, c.parent}
            /\ c.files # {} /\ "content" \notin c.files /\ "status" \in c.files /\ c.mark
  PROVE  KeptInv'
<1> DEFINE n == Len(made) + 1
<1>1. Grown(made) /\ Room /\ head \in Commits /\ certified \subseteq Commits
  BY DEF KeptInv, ResolutionTypeOK
<1>2. /\ Grown(made)' /\ Len(made)' = n /\ Commits' = Commits \union {n} /\ n \notin Commits
      /\ \A id \in Commits : made'[id] = made[id]
      /\ made'[n] = c
      /\ \A id \in Commits \union {0} : History'[id] = History[id]
      /\ History'[n] = History[c.parent] \union {n}
  BY <1>1, CommitAdded
<1>3. /\ Len(made) \in Nat /\ n \in Nat /\ c.parent \in Commits /\ 0 \notin Commits
      /\ \A id \in Commits : id \in History[id] /\ History[id] \subseteq Commits
  <2>1. Len(made) \in Nat
    BY <1>1, HistoriesNow
  <2>2. n \in Nat /\ c.parent \in Commits /\ 0 \notin Commits
    BY <2>1 DEF Added, Commits
  <2>3. ASSUME NEW id \in Commits
        PROVE  id \in History[id] /\ History[id] \subseteq Commits
    <3>1. id \in History[id] /\ History[id] \subseteq 1..id
      BY <1>1, HistoriesNow
    <3>2. id \in 1..Len(made)
      BY DEF Commits
    <3>3. 1..id \subseteq 1..Len(made)
      BY <2>1, <3>2
    <3> QED
      BY <3>1, <3>3 DEF Commits
  <2> QED
    BY <2>1, <2>2, <2>3
<1> HIDE DEF n
<1>4. ResolutionTypeOK'
  <2>1. MaxCommits \in Nat
    BY ResolutionAssumption
  <2>2. Len(made)' <= MaxCommits
    BY <1>1, <1>2, <1>3, <2>1 DEF Room, n
  <2>3. /\ work' \in [commit : Commits' \union {0}, matches : BOOLEAN,
                      baseline : Commits' \union {0}, passed : BOOLEAN]
    BY <1>2
  <2>4. /\ receipt' \in [commit : Commits' \union {0}, tree : Commits' \union {0},
                         passed : BOOLEAN, guardFailed : BOOLEAN]
    BY <1>2 DEF KeptInv, ResolutionTypeOK
  <2>5. approved' \in [head : Nat, base : Nat, target : Nat, archives : SUBSET Commits']
    BY DEF NoApproval
  <2>6. /\ kept' \subseteq Commits' /\ pushed' \subseteq Commits'
        /\ certified' \subseteq Commits' /\ head' \in Commits' /\ repo' \in RepositoryRecords
    BY <1>1, <1>2 DEF KeptInv, ResolutionTypeOK, n
  <2> QED
    BY <1>2, <2>2, <2>3, <2>4, <2>5, <2>6 DEF ResolutionTypeOK
<1>5. Rooted'
  BY <1>2, <1>3 DEF KeptInv, Rooted, ResolutionTypeOK, Commits
<1>6. \A id \in Commits : Role(id)' = Role(id) /\ Parent(id)' = Parent(id)
  BY <1>2 DEF Role, Parent
<1>7. Certifies'
  <2>1. CASE certified' = certified /\ work'.baseline = work.baseline
    BY <1>1, <1>6, <2>1 DEF KeptInv, Certifies
  <2>2. CASE certified' = certified \union {head'}
    <3>0. head' = n
      BY DEF n
    <3>1. ASSUME c.files # {}, "content" \notin c.files, "status" \in c.files, c.mark
          PROVE  Role(head)' = "finalizer"
      BY <1>2, <3>0, <3>1 DEF Role
    <3>2. Parent(head)' = c.parent
      BY <1>2, <1>3, <3>0 DEF Parent, n
    <3>4. CASE certified' = certified /\ work'.baseline = work.baseline
      BY <2>1, <3>4
    <3>5. CASE /\ work'.baseline \in {work.baseline, c.parent}
               /\ c.files # {} /\ "content" \notin c.files /\ "status" \in c.files /\ c.mark
      <4>1. \A f \in certified' : Role(f)' = "finalizer"
        BY <1>1, <1>6, <2>2, <3>0, <3>1, <3>5 DEF KeptInv, Certifies
      <4>2. work'.baseline # 0 => \E f \in certified' : Parent(f)' = work'.baseline
        BY <1>1, <1>6, <2>2, <3>0, <3>2, <3>5 DEF KeptInv, Certifies
      <4> QED
        BY <4>1, <4>2 DEF Certifies
    <3> QED
      BY <3>4, <3>5
  <2> QED
    BY <2>1, <2>2
<1>8. Lawful'
  BY <1>2, <1>3 DEF Lawful, NoApproval, n
<1>9. HistoryKept'
  <2>1. History'[head'] = History[c.parent] \union {n} /\ head' = n
    BY <1>2 DEF n
  <2>2. certified' \subseteq History'[head']
    BY <2>1
  <2>3. ASSUME NEW id \in kept'
        PROVE  History'[id] = History[id] /\ History[id] \subseteq Commits
    BY <1>2, <1>3
  <2>4. Commits \subseteq History[c.parent] \union UNION {History[id] : id \in kept'}
    <3>1. ASSUME NEW x \in Commits
          PROVE  x \in History[c.parent] \/ \E id \in kept' : x \in History[id]
      BY DEF KeptInv, HistoryKept
    <3> QED
      BY <3>1
  <2>5. Commits' = History'[head'] \union UNION {History'[id] : id \in kept'}
    <3>1. UNION {History'[id] : id \in kept'} = UNION {History[id] : id \in kept'}
      BY <2>3
    <3>2. UNION {History[id] : id \in kept'} \subseteq Commits
      BY <2>3
    <3> QED
      BY <1>2, <1>3, <2>1, <2>4, <3>1, <3>2
  <2> QED
    BY <2>2, <2>5 DEF HistoryKept
<1> QED
  BY <1>4, <1>5, <1>7, <1>8, <1>9 DEF KeptInv

\* Where no commit is made and nothing certified, histories and roles stay.
LEMMA HistoriesStay ==
  ASSUME made' = made
  PROVE  /\ History' = History /\ Commits' = Commits
         /\ \A id : Role(id)' = Role(id) /\ Parent(id)' = Parent(id)
<1>1. History' = History
  BY Zenon DEF History
<1> QED
  BY <1>1 DEF Commits, Role, Parent

\* A step that makes no commit loses nothing, if the approval it leaves fits.
LEMMA StillKept ==
  ASSUME KeptInv, UNCHANGED <<made, head, kept, certified>>, work' = work,
         repo' \in RepositoryRecords, pushed' \subseteq Commits,
         receipt' \in [commit : Commits \union {0}, tree : Commits \union {0},
                      passed : BOOLEAN, guardFailed : BOOLEAN],
         unit' \in {"closed", "open", "off"},
         \/ approved' = approved
         \/ /\ approved' \in [head : Nat, base : Nat, target : Nat, archives : SUBSET Commits]
            /\ Fits(approved')
  PROVE  KeptInv'
<1>1. /\ History' = History /\ Commits' = Commits
      /\ \A id : Role(id)' = Role(id) /\ Parent(id)' = Parent(id)
  BY HistoriesStay
<1>2. ResolutionTypeOK'
  BY <1>1 DEF KeptInv, ResolutionTypeOK
<1>3. Rooted'
  BY <1>1 DEF KeptInv, Rooted
<1>4. Certifies'
  BY <1>1 DEF KeptInv, Certifies
<1>5. Lawful'
  BY <1>1 DEF KeptInv, Lawful, Fits
<1>6. HistoryKept'
  BY <1>1 DEF KeptInv, HistoryKept
<1> QED
  BY <1>2, <1>3, <1>4, <1>5, <1>6 DEF KeptInv

\* A commit on top of the branch.
LEMMA CommitKept ==
  ASSUME KeptInv, NEW files \in SUBSET FileClasses, NEW mark \in BOOLEAN,
         AddCommit(files, mark), UNCHANGED <<repo, receipt, pushed, kept>>,
         unit' \in {"closed", "open", "off"},
         work' \in [commit : Commits \union {0}, matches : BOOLEAN,
                   baseline : Commits \union {0}, passed : BOOLEAN],
         \/ certified' = certified /\ work'.baseline = work.baseline
         \/ /\ certified' = certified \union {head'} /\ work'.baseline \in {work.baseline, head}
            /\ "content" \notin files /\ "status" \in files /\ mark
  PROVE  KeptInv'
<1> DEFINE c == Commit(head, files, mark, Len(made) + 1)
<1>1. Grown(made) /\ head \in Commits /\ certified \subseteq History[head] /\ kept \subseteq Commits
  BY DEF KeptInv, ResolutionTypeOK, HistoryKept
<1>2. Len(made) \in Nat
  BY <1>1 DEF Grown
<1>3. /\ c.parent = head /\ c.files = files /\ c.mark = mark /\ Added(c)
  BY <1>1, <1>2 DEF Commit, Added, AddCommit, CommitRecords, Commits
<1> HIDE DEF c
<1> QED
  BY <1>1, <1>3, GrownKept DEF AddCommit, HeadMoves

\* What a hand writes in the status says nothing of where the unit is measured from.
LEMMA ClaimsKeepBaseline ==
  ASSUME KeptInv, NEW w \in Claims
  PROVE  /\ w.baseline = work.baseline
         /\ w \in [commit : Commits \union {0}, matches : BOOLEAN,
                  baseline : Commits \union {0}, passed : BOOLEAN]
<1> DEFINE Works == [commit : Commits \union {0}, matches : BOOLEAN,
                     baseline : Commits \union {0}, passed : BOOLEAN]
<1>1. work \in Works /\ head \in Commits \union {0}
  BY DEF KeptInv, ResolutionTypeOK
<1>2. CASE w = work
  BY <1>1, <1>2
<1>3. ASSUME NEW fits \in BOOLEAN,
             w = [[[work EXCEPT !.commit = head] EXCEPT !.matches = fits] EXCEPT !.passed = TRUE]
      PROVE  w \in Works /\ w.baseline = work.baseline
  <2>1. work = [commit |-> work.commit, matches |-> work.matches,
                baseline |-> work.baseline, passed |-> work.passed]
    BY <1>1
  <2>2. w = [commit |-> head, matches |-> fits, baseline |-> work.baseline, passed |-> TRUE]
    <3>1. [work EXCEPT !.commit = head] =
            [commit |-> head, matches |-> work.matches, baseline |-> work.baseline,
             passed |-> work.passed]
      BY <2>1
    <3> QED
      BY <1>3, <3>1
  <2>3. work.baseline \in Commits \union {0}
    BY <1>1
  <2> QED
    BY <1>1, <2>2, <2>3
<1>4. w = work \/ \E fits \in BOOLEAN :
        w = [[[work EXCEPT !.commit = head] EXCEPT !.matches = fits] EXCEPT !.passed = TRUE]
  BY DEF Claims
<1> QED
  BY <1>2, <1>3, <1>4

\* Each action keeps what is kept: first those that commit on top of the branch.
LEMMA BuildContentKept == ASSUME KeptInv, BuildContent PROVE KeptInv'
<1>1. CASE /\ AddCommit({"content"}, FALSE) /\ work' = work
           /\ unit' = IF unit = "closed" THEN "open" ELSE "off"
  BY <1>1, CommitKept DEF BuildContent, FileClasses, KeptInv, ResolutionTypeOK
<1>2. CASE AddStray({"content", "status"}, FALSE) /\ work' \in Claims
  <2>1. /\ work'.baseline = work.baseline
        /\ work' \in [commit : Commits \union {0}, matches : BOOLEAN,
                      baseline : Commits \union {0}, passed : BOOLEAN]
    BY <1>2, ClaimsKeepBaseline
  <2> QED
    BY <1>2, <2>1, CommitKept DEF BuildContent, FileClasses, AddStray
<1> QED
  BY <1>1, <1>2 DEF BuildContent

LEMMA HandStatusKept == ASSUME KeptInv, HandStatus PROVE KeptInv'
<1>1. PICK mark \in BOOLEAN : AddStray({"status"}, mark)
  BY DEF HandStatus, KeptInv, ResolutionTypeOK, RepositoryRecords
<1>2. /\ work'.baseline = work.baseline
      /\ work' \in [commit : Commits \union {0}, matches : BOOLEAN,
                    baseline : Commits \union {0}, passed : BOOLEAN]
  BY ClaimsKeepBaseline DEF HandStatus
<1> QED
  BY <1>1, <1>2, CommitKept DEF HandStatus, FileClasses, AddStray

LEMMA CommitReceiptKept == ASSUME KeptInv, CommitReceipt PROVE KeptInv'
BY CommitKept DEF CommitReceipt, FileClasses, AddStray, KeptInv, ResolutionTypeOK

LEMMA FinalizeKept == ASSUME KeptInv, Finalize PROVE KeptInv'
<1> DEFINE files == IF repo.commits THEN {"status", "receipt"} ELSE {"status"}
<1>1. files \in SUBSET FileClasses /\ "status" \in files /\ "content" \notin files
  BY DEF FileClasses
<1>2. AddCommit(files, TRUE)
  BY DEF Finalize
<1> HIDE DEF files
<1>3. /\ work' \in [commit : Commits \union {0}, matches : BOOLEAN,
                    baseline : Commits \union {0}, passed : BOOLEAN]
      /\ work'.baseline \in {work.baseline, head}
  BY DEF Finalize, KeptInv, ResolutionTypeOK
<1>4. certified' = certified \union {head'} /\ unit' \in {"closed", "open", "off"}
  BY DEF Finalize
<1> QED
  BY <1>1, <1>2, <1>3, <1>4, CommitKept DEF Finalize

\* Those that make no commit.
LEMMA RunSuiteKept == ASSUME KeptInv, RunSuite PROVE KeptInv'
<1>1. /\ head \in Commits /\ Grown(made)
  BY DEF KeptInv, ResolutionTypeOK
<1>2. made[head].tree \in Commits
  BY <1>1, HistoriesNow DEF Commits
<1>3. receipt' \in [commit : Commits \union {0}, tree : Commits \union {0},
                   passed : BOOLEAN, guardFailed : BOOLEAN]
  <2>1. repo \in RepositoryRecords
    BY DEF KeptInv, ResolutionTypeOK
  <2>2. PICK product \in BOOLEAN, refused \in BOOLEAN :
          receipt' = [commit |-> head, tree |-> made[head].tree,
                      passed |-> product /\ ~refused, guardFailed |-> refused]
    BY <2>1 DEF RunSuite, RepositoryRecords
  <2> QED
    BY <1>1, <1>2, <2>2
<1>4. unit' \in {"closed", "open", "off"}
  BY DEF RunSuite, KeptInv, ResolutionTypeOK
<1> QED
  BY <1>3, <1>4, StillKept DEF RunSuite, plans, KeptInv, ResolutionTypeOK

LEMMA PushKept == ASSUME KeptInv, Push PROVE KeptInv'
<1>1. pushed' \subseteq Commits
  BY HistoriesNow DEF Push, KeptInv, ResolutionTypeOK, Commits
<1> QED
  BY <1>1, StillKept DEF Push, plans, ghosts, KeptInv, ResolutionTypeOK

LEMMA AmendKept == ASSUME KeptInv, Amend PROVE KeptInv'
<1>1. repo' \in RepositoryRecords
  BY DEF Amend, KeptInv, ResolutionTypeOK, RepositoryRecords
<1> QED
  BY <1>1, StillKept DEF Amend, plans, ghosts, KeptInv, ResolutionTypeOK

LEMMA ReportKept == ASSUME KeptInv, Report PROVE KeptInv'
BY StillKept DEF Report, ghosts, KeptInv, ResolutionTypeOK

LEMMA ApproveKept == ASSUME KeptInv, Approve PROVE KeptInv'
<1>1. approved' = Approval(Topology) /\ Fits(Approval(Topology))
  BY ApprovalFits
<1>2. /\ head \in Commits /\ Grown(made)
  BY DEF KeptInv, ResolutionTypeOK
<1>3. History[head] \subseteq Nat
  BY <1>2, HistoriesNow DEF Commits
<1>4. approved' \in [head : Nat, base : Nat, target : Nat, archives : SUBSET Commits]
  BY <1>1, <1>2, <1>3 DEF Approval, Fits, Commits
<1> QED
  BY <1>1, <1>4, StillKept DEF Approve, ghosts, KeptInv, ResolutionTypeOK

\* A plan carried out archives HEAD and builds on what was approved.
LEMMA ExecuteKept == ASSUME KeptInv, Execute PROVE KeptInv'
<1> DEFINE c == Commit(approved.base, Folded, FALSE, made[approved.target].tree)
<1>1. Grown(made) /\ head \in Commits /\ kept \subseteq Commits
  BY DEF KeptInv, ResolutionTypeOK
<1>2. Fits(approved)
  BY DEF Execute, KeptInv, Lawful
<1>3. /\ Len(made) \in Nat /\ History[head] \subseteq Commits
      /\ \A id \in Commits : made[id] \in CommitRecords /\ made[id].tree \in 1..id
  BY <1>1, HistoriesNow DEF Commits
<1>4. approved.base \in Commits /\ approved.target \in Commits
  BY <1>2, <1>3 DEF Fits
<1>5. Folded \in SUBSET FileClasses
  <2>1. Topology.range \subseteq Commits
    BY <1>3 DEF Topology, AnalyzeFrom, Observed, Since
  <2>2. \A id \in Topology.range : made[id].files \subseteq FileClasses
    BY <1>3, <2>1 DEF CommitRecords
  <2> QED
    BY <2>2 DEF Folded
<1>6. /\ c.parent = approved.base /\ Added(c) /\ c \in CommitRecords
  BY <1>3, <1>4, <1>5 DEF Commit, Added, Execute, CommitRecords, Commits
<1> HIDE DEF c
<1>7. kept' \subseteq Commits /\ head \in kept' /\ kept \subseteq kept'
  BY <1>1, <1>2 DEF Execute, Fits
<1>8. certified \subseteq History[c.parent]
  BY <1>2, <1>6 DEF Fits
<1>9. unit' \in {"closed", "open", "off"}
  BY DEF Execute
<1>10. head' = Len(made) + 1 /\ approved' = NoApproval
  BY DEF Execute, HeadMoves
<1> QED
  BY <1>6, <1>7, <1>8, <1>9, <1>10, GrownKept DEF Execute, KeptInv, ResolutionTypeOK

\* Every step keeps the branch rooted, certified and archived.
LEMMA KeptInvariance == ResolutionSpec => []KeptInv
<1>1. ASSUME KeptInv, [ResolutionNext]_resolutionVars PROVE KeptInv'
  <2>1. CASE ResolutionNext
    BY <1>1, <2>1, BuildContentKept, HandStatusKept, CommitReceiptKept, RunSuiteKept, FinalizeKept,
       PushKept, AmendKept, ReportKept, ApproveKept, ExecuteKept DEF ResolutionNext
  <2>2. CASE UNCHANGED resolutionVars
    BY <1>1, <2>2, StillKept DEF resolutionVars, KeptInv, ResolutionTypeOK
  <2> QED
    BY <1>1, <2>1, <2>2
<1> QED
  BY <1>1, InitKept, PTL DEF ResolutionSpec

\* The state of the protocol's commits, records and plans keeps its types
\* (git_topology.py, protocol_resolver.py).
THEOREM ResolutionTyped == ResolutionSpec => []ResolutionTypeOK
<1>1. KeptInv => ResolutionTypeOK
  BY DEF KeptInv
<1> QED
  BY <1>1, KeptInvariance, PTL

\* No plan the planner offers loses a commit or a certificate, for any rules
\* and any number of commits (certified_pair_commits, _archival_names).
THEOREM NothingLost == ResolutionSpec => []HistoryKept
<1>1. KeptInv => HistoryKept
  BY DEF KeptInv
<1> QED
  BY <1>1, KeptInvariance, PTL

-----------------------------------------------------------------------------
(* A unit built as the protocol says.                                      *)

\* Of the rules that bind, one comes first.
LEMMA HighestIsOne ==
  ASSUME NEW S, NEW rules \in Amendments, S \subseteq rules, S # {}
  PROVE  Highest(S) \in S
<1>1. \A r \in S : r.rank \in -1..5 /\ r.at \in Nat
  BY ResolutionAssumption
<1> DEFINE D == {5 - r.rank : r \in S}
<1>2. D \subseteq Nat /\ D # {}
  <2>1. \A r \in S : 5 - r.rank \in Nat
    BY <1>1
  <2>2. D # {}
    OBVIOUS
  <2> QED
    BY <2>1, <2>2
<1>3. PICK d \in D : \A k \in D : d <= k
  BY <1>2, HasLeast
<1>4. PICK top \in S : d = 5 - top.rank
  BY <1>3
<1>5. \A q \in S : q.rank <= top.rank
  <2> TAKE q \in S
  <2>1. 5 - q.rank \in D
    OBVIOUS
  <2> HIDE DEF D
  <2> QED
    BY <1>1, <1>3, <1>4, <2>1
<1> DEFINE Tops == {r \in S : r.rank = top.rank}
           E == {r.at : r \in Tops}
<1>6. E \subseteq Nat /\ E # {}
  BY <1>1
<1>7. PICK e \in E : \A k \in E : e <= k
  BY <1>6, HasLeast
<1>8. PICK first \in Tops : e = first.at
  BY <1>7
<1>9. \A q \in S : q.rank < first.rank \/ (q.rank = first.rank /\ first.at <= q.at)
  <2> TAKE q \in S
  <2>1. CASE q.rank = top.rank
    <3>1. q.at \in E
      BY <2>1
    <3> HIDE DEF E
    <3> QED
      BY <1>7, <1>8, <2>1, <3>1
  <2>2. CASE q.rank # top.rank
    BY <1>1, <1>5, <1>8, <2>2
  <2> QED
    BY <2>1, <2>2
<1>10. first \in S
  OBVIOUS
<1> QED
  BY <1>9, <1>10 DEF Highest

\* How many content commits a unit may hold is a number.
LEMMA MaxContentIsNumber ==
  ASSUME NEW rules \in Amendments
  PROVE  MaxContent(rules) \in Nat
<1> DEFINE stating == {r \in OfKind(rules, "COMMIT_TOPOLOGY") : r.max > 0}
<1>1. stating \subseteq rules
  BY DEF OfKind
<1>2. CASE stating = {}
  BY <1>2 DEF MaxContent
<1>3. CASE stating # {}
  <2> HIDE DEF stating
  <2>1. Highest(stating) \in rules
    BY <1>1, <1>3, HighestIsOne
  <2>2. Highest(stating).max \in Nat
    BY <2>1, ResolutionAssumption
  <2>3. MaxContent(rules) = Highest(stating).max
    BY <1>3 DEF MaxContent, stating
  <2> QED
    BY <2>2, <2>3
<1> QED
  BY <1>2, <1>3

\* A content commit and the finalizer's on it; the receipt, if the first
\* changed its file, was written again by the second.
Pair(c, f) ==
  /\ f # 0 /\ c # 0 /\ Parent(f) = c /\ Role(f) = "finalizer" /\ Role(c) = "content"
  /\ "receipt" \in made[c].files => "receipt" \in made[f].files

\* No two commits of the branch have one tree.
Distinct == \A a, b \in History[head] : made[a].tree = made[b].tree => a = b

\* The receipt is of one commit, and a suite that passed refused nothing.
ReceiptHonest ==
  /\ Present => receipt.tree = made[receipt.commit].tree
  /\ receipt.passed => ~receipt.guardFailed

\* What was certified was content.
ContentCertified == \A f \in certified : Role(Parent(f)) = "content" /\ Parent(f) # 0

\* What the status and the receipt say of a unit that is lawful.
UnitIsPair ==
  repo.records /\ unit # "off" =>
    /\ work.matches /\ work.commit # 0 /\ work.baseline = work.commit
    /\ ~receipt.guardFailed
    /\ unit = "closed" => /\ Pair(work.commit, head) /\ Parent(work.commit) # 0
                          /\ Names(work.commit)
    /\ unit = "open" => /\ Pair(work.commit, Parent(head)) /\ made[head].files = {"content"}
                        /\ Present => \/ Names(work.commit) \/ receipt.commit = head
                                      \/ receipt.tree = made[head].tree

UnitInv == KeptInv /\ Distinct /\ ReceiptHonest /\ ContentCertified /\ UnitIsPair

\* Where the parts of a pair lie.
LEMMA PairFacts ==
  ASSUME Grown(made), NEW f \in Commits, NEW c, Pair(c, f)
  PROVE  /\ c \in Commits /\ c < f /\ PureMetadata(f) /\ IsStatus(f) /\ f \in Nat
         /\ History[f] = History[c] \union {f} /\ c \in History[c] /\ History[c] \subseteq 1..c
         /\ History[c] = History[Parent(c)] \union {c} /\ History[Parent(c)] \subseteq 1..(c - 1)
         /\ made[f].files # {} /\ "content" \notin made[f].files /\ "status" \in made[f].files
         /\ "content" \in made[c].files /\ Parent(c) \in 0..(c - 1)
<1>1. /\ f \in Nat /\ f # 0 /\ made[f].parent = c /\ History[f] = History[c] \union {f}
      /\ c \in 0..(f - 1)
  BY HistoriesNow DEF Pair, Parent, Commits
<1>2. c \in Commits /\ c # 0 /\ c < f
  BY <1>1 DEF Pair, Commits
<1>3. /\ Parent(c) = made[c].parent /\ Parent(c) \in 0..(c - 1) /\ c \in History[c]
      /\ History[c] \subseteq 1..c /\ History[c] = History[Parent(c)] \union {c}
  BY <1>2, HistoriesNow DEF Parent
<1>4. History[Parent(c)] \subseteq 1..(c - 1)
  <2>1. CASE Parent(c) = 0
    BY <2>1, HistoriesNow
  <2>2. CASE Parent(c) # 0
    <3>1. Parent(c) \in Commits
      BY <1>2, <1>3, <2>2 DEF Commits
    <3>2. History[Parent(c)] \subseteq 1..Parent(c)
      BY <3>1, HistoriesNow
    <3> QED
      BY <1>2, <1>3, <3>2 DEF Commits
  <2> QED
    BY <2>1, <2>2
<1>5. /\ made[f].files # {} /\ "content" \notin made[f].files /\ "status" \in made[f].files
      /\ "content" \in made[c].files
  BY DEF Pair, Role
<1>6. PureMetadata(f) /\ IsStatus(f)
  BY <1>1, <1>5 DEF PureMetadata, IsStatus, Pair
<1> QED
  BY <1>1, <1>2, <1>3, <1>4, <1>5, <1>6

\* A closed unit is seen as its own pair, finalized.
LEMMA ClosedSeen ==
  ASSUME UnitInv, repo.records, unit = "closed"
  PROVE  Topology.range = {work.commit, head} /\ Topology.state = "FINALIZED"
<1> DEFINE c == work.commit
<1>1. /\ Grown(made) /\ head \in Commits /\ Pair(c, head) /\ Parent(c) # 0
      /\ work.matches /\ work.baseline = c /\ c # 0
  BY DEF UnitInv, UnitIsPair, KeptInv, ResolutionTypeOK
<1>2. /\ c \in Commits /\ c < head /\ PureMetadata(head) /\ IsStatus(head) /\ head \in Nat
      /\ History[head] = History[c] \union {head}
      /\ History[c] = History[Parent(c)] \union {c} /\ History[Parent(c)] \subseteq 1..(c - 1)
      /\ Parent(c) \in 0..(c - 1)
  BY <1>1, PairFacts
<1>3. Parent(head) = c /\ Role(c) = "content" /\ c \in Nat /\ Parent(c) # c
  BY <1>1, <1>2 DEF Pair, Commits
<1>4. Topology.state = "FINALIZED"
  BY <1>1, <1>2, <1>3 DEF Topology, AnalyzeFrom, Observed, State
<1>5. Since(Parent(c)) = {c, head}
  BY <1>2, <1>3 DEF Since
<1>6. Historical(c) = Parent(c)
  BY <1>1, <1>2, <1>3 DEF Historical, CurrentContent
<1>7. {next \in Since(Parent(c)) : Parent(next) = Parent(c) /\ Role(next) = "finalizer"} = {}
  BY <1>3, <1>5
<1>8. Promote(Parent(c)) = Parent(c)
  BY <1>7 DEF Promote
<1>9. Baseline = Parent(c)
  BY <1>1, <1>6, <1>8 DEF Baseline, Recorded
<1> QED
  BY <1>4, <1>5, <1>9 DEF Topology, AnalyzeFrom, Observed

\* An open unit is seen as the one commit after the pair, being produced.
LEMMA OpenSeen ==
  ASSUME UnitInv, repo.records, unit = "open"
  PROVE  Topology.range = {head} /\ Topology.state = "PRODUCING"
<1> DEFINE c == work.commit
           f == Parent(head)
<1>1. /\ Grown(made) /\ head \in Commits /\ Pair(c, f) /\ made[head].files = {"content"}
      /\ work.matches /\ work.baseline = c /\ c # 0
  BY DEF UnitInv, UnitIsPair, KeptInv, ResolutionTypeOK
<1>2. /\ f \in Commits /\ f < head /\ head \in Nat /\ f \in Nat /\ f # 0
      /\ History[head] = History[f] \union {head}
  BY <1>1, HistoriesNow DEF Pair, Parent, Commits
<1>3. /\ c \in Commits /\ c < f /\ PureMetadata(f) /\ c \in Nat
      /\ History[f] = History[c] \union {f} /\ History[c] \subseteq 1..c
  BY <1>1, <1>2, PairFacts DEF Commits
<1>4. Parent(f) = c /\ Role(f) = "finalizer"
  BY <1>1 DEF Pair
<1> HIDE DEF f
<1>5. Topology.state = "PRODUCING"
  <2>1. c # head /\ c # Parent(head) /\ c = Parent(Parent(head)) /\ PureMetadata(Parent(head))
    BY <1>2, <1>3, <1>4 DEF f
  <2> QED
    BY <1>1, <2>1 DEF Topology, AnalyzeFrom, Observed, State
<1>6. Since(c) = {f, head} /\ Since(f) = {head}
  BY <1>2, <1>3 DEF Since
<1>7. CurrentContent = head
  BY <1>1 DEF CurrentContent, IsStatus, Role
<1>8. Historical(c) = c
  BY <1>2, <1>3, <1>7 DEF Historical
<1>9. {next \in Since(c) : Parent(next) = c /\ Role(next) = "finalizer"} = {f}
  BY <1>2, <1>3, <1>4, <1>6 DEF f
<1>10. Newest({f}) = f
  BY <1>2, \A other \in {f} : other = f DEF Newest
<1>11. Promote(c) = f
  BY <1>9, <1>10 DEF Promote
<1>12. Baseline = f
  BY <1>1, <1>8, <1>11 DEF Baseline, Recorded
<1> QED
  BY <1>5, <1>6, <1>12 DEF Topology, AnalyzeFrom, Observed

\* The receipt of a lawful unit is not of the commit that carries it.
LEMMA NotOfItself ==
  ASSUME UnitInv, repo.records, unit # "off", Present, SelfReferential
  PROVE  FALSE
<1> DEFINE c == work.commit
           f == IF unit = "closed" THEN head ELSE Parent(head)
           S == {id \in History[head] : "receipt" \in made[id].files}
<1>1. /\ Grown(made) /\ head \in Commits /\ unit \in {"closed", "open"}
  BY DEF UnitInv, KeptInv, ResolutionTypeOK
<1>2. /\ Len(made) \in Nat /\ History[head] \subseteq Commits /\ 0 \notin Commits
      /\ head \in History[head] /\ head \in Nat
      /\ History[head] = History[Parent(head)] \union {head}
  BY <1>1, HistoriesNow DEF Commits, Parent
<1>3. /\ Newest(S) = receipt.commit /\ receipt.commit # 0
  BY DEF SelfReferential, CommittedIn, Present
<1>4. S \subseteq 1..Len(made) /\ S # {}
  BY <1>2, <1>3 DEF Commits, Newest
<1>5. receipt.commit \in S /\ \A j \in S : j <= receipt.commit
  <2> HIDE DEF S
  <2> QED
    BY <1>2, <1>3, <1>4, NewestIsLast
<1>6. Pair(c, f)
  BY <1>1 DEF UnitInv, UnitIsPair
<1>7. f \in Commits /\ f \in History[head]
  <2>1. CASE unit = "closed"
    BY <1>1, <1>2, <2>1
  <2>2. CASE unit = "open"
    <3>1. f = Parent(head) /\ f # 0 /\ f \in 0..(head - 1)
      BY <1>1, <1>6, <2>2, HistoriesNow DEF Pair, Parent, Commits
    <3>2. f \in Commits
      BY <1>1, <1>2, <3>1 DEF Commits
    <3> HIDE DEF f
    <3>3. f \in History[f]
      BY <1>1, <3>2, HistoriesNow
    <3> QED
      BY <1>2, <3>1, <3>2, <3>3
  <2> QED
    BY <1>1, <2>1, <2>2
<1> HIDE DEF f
<1>8. c < f
  BY <1>1, <1>6, <1>7, PairFacts
<1>9. CASE receipt.commit = c
  <2>1. f \in S
    BY <1>5, <1>6, <1>7, <1>9 DEF Pair
  <2> QED
    BY <1>1, <1>5, <1>7, <1>8, <1>9, <2>1, PairFacts, <1>6 DEF Commits
<1>10. CASE receipt.commit # c
  <2>1. /\ unit = "open" /\ made[head].files = {"content"}
        /\ receipt.commit = head \/ receipt.tree = made[head].tree
    BY <1>1, <1>10 DEF UnitInv, UnitIsPair, Names
  <2>2. receipt.tree = made[receipt.commit].tree
    BY DEF UnitInv, ReceiptHonest
  <2>3. receipt.commit = head
    BY <1>2, <1>5, <2>1, <2>2 DEF UnitInv, Distinct
  <2> QED
    BY <1>5, <2>1, <2>3
<1> QED
  BY <1>9, <1>10

\* What the resolver has to see in order to let the work go on.
Unhindered(t) ==
  /\ IsLegal(t.state)
  /\ \A size \in Nat \ {0} : ~(Cardinality(Contents(t)) > size)
  /\ ~Mixed(t)
  /\ \A id \in t.range : Role(id) # "hand_status"
  /\ Present => ~SelfReferential /\ MatchesHead(t)

\* A lawful unit, closed or open, is seen as one content commit with its receipt.
LEMMA LawfulIsUnhindered ==
  ASSUME UnitInv, repo.records, unit # "off"
  PROVE  Unhindered(Topology)
<1> DEFINE c == work.commit
           t == Topology
<1>1. /\ Grown(made) /\ head \in Commits /\ unit \in {"closed", "open"}
  BY DEF UnitInv, KeptInv, ResolutionTypeOK
<1>2. Present => ~SelfReferential
  BY NotOfItself
<1>3. CASE unit = "closed"
  <2>1. t.range = {c, head} /\ t.state = "FINALIZED"
    BY <1>3, ClosedSeen
  <2>2. Pair(c, head) /\ Names(c)
    BY <1>3 DEF UnitInv, UnitIsPair
  <2>3. Parent(head) = c /\ Role(head) = "finalizer" /\ Role(c) = "content"
    BY <2>2 DEF Pair
  <2>4. "content" \notin made[head].files
    BY <1>1, <2>2, PairFacts
  <2> HIDE DEF t
  <2>5. Contents(t) = {c}
    BY <2>1, <2>3 DEF Contents
  <2>6. Cardinality(Contents(t)) = 1
    BY <2>5, FS_Singleton
  <2>7. ~Mixed(t)
    BY <2>1, <2>3, <2>4 DEF Mixed, Ratified
  <2>8. MatchesHead(t)
    BY <2>1, <2>2, <2>3 DEF MatchesHead, BindsParent
  <2>9. IsLegal(t.state) /\ \A id \in t.range : Role(id) # "hand_status"
    BY <2>1, <2>3 DEF IsLegal
  <2> QED
    BY <1>2, <2>6, <2>7, <2>8, <2>9 DEF Unhindered, t
<1>4. CASE unit = "open"
  <2>1. t.range = {head} /\ t.state = "PRODUCING"
    BY <1>4, OpenSeen
  <2>2. /\ Pair(c, Parent(head)) /\ made[head].files = {"content"}
        /\ Present => Names(c) \/ receipt.commit = head \/ receipt.tree = made[head].tree
    BY <1>4 DEF UnitInv, UnitIsPair
  <2>3. Role(head) = "content" /\ Parent(Parent(head)) = c
    BY <2>2 DEF Role, Pair
  <2> HIDE DEF t
  <2>5. Contents(t) = {head}
    BY <2>1, <2>3 DEF Contents
  <2>6. Cardinality(Contents(t)) = 1
    BY <2>5, FS_Singleton
  <2>7. ~Mixed(t)
    BY <2>1, <2>2 DEF Mixed
  <2>8. Present => MatchesHead(t)
    BY <2>1, <2>2, <2>3 DEF MatchesHead, BindsCertified
  <2>9. IsLegal(t.state) /\ \A id \in t.range : Role(id) # "hand_status"
    BY <2>1, <2>3 DEF IsLegal
  <2> QED
    BY <1>2, <2>6, <2>7, <2>8, <2>9 DEF Unhindered, t
<1> QED
  BY <1>1, <1>3, <1>4

\* The suite, the finalizer and the status wait in a line.
LEMMA WaitsInLine ==
  ASSUME NEW edges, edges \subseteq {<<"suite", "finalizer">>, <<"finalizer", "status">>}
  PROVE  ~Cyclic(edges)
<1>1. \A e \in edges : \/ e[1] = "suite" /\ e[2] = "finalizer"
                       \/ e[1] = "finalizer" /\ e[2] = "status"
  OBVIOUS
<1> SUFFICES ASSUME Cyclic(edges) PROVE FALSE
  OBVIOUS
<1>2. PICK waiting \in SUBSET {e[1] : e \in edges} :
        /\ waiting # {}
        /\ \A node \in waiting : \E e \in edges : e[1] = node /\ e[2] \in waiting
  BY Zenon DEF Cyclic
<1>3. "status" \notin waiting
  BY <1>1, <1>2
<1>4. "finalizer" \notin waiting
  BY <1>1, <1>2, <1>3
<1>5. "suite" \notin waiting
  BY <1>1, <1>2, <1>4
<1> QED
  BY <1>1, <1>2, <1>4, <1>5

\* What is unhindered is left alone, whatever the rules are.
LEMMA UnhinderedGoesOn ==
  ASSUME NEW t, Unhindered(t), repo.rules \in Amendments, ~receipt.guardFailed, ~Conflicted
  PROVE  GoesOn(t, Resolve(t))
<1>1. ~HistoryViolated(t)
  <2>1. MaxContent(repo.rules) \in Nat
    BY MaxContentIsNumber
  <2>2. MaxContent(repo.rules) > 0 => ~ShapeViolated(t)
    BY <2>1 DEF ShapeViolated, Unhindered, IsLegal
  <2> QED
    BY <2>2 DEF HistoryViolated, Unhindered
<1>2. ~EvidenceViolated(t)
  BY DEF EvidenceViolated, Unhindered
<1>3. ~GuardFails(FALSE)
  BY DEF GuardFails
<1>4. Edges(t, FALSE) \subseteq {<<"suite", "finalizer">>, <<"finalizer", "status">>}
  BY <1>3 DEF Edges, Unhindered
<1>5. ~Cyclic(Edges(t, FALSE))
  BY <1>4, WaitsInLine
<1>6. Options(t, FALSE) = {}
  BY DEF Options
<1>7. Resolve(t) = [deadlocked |-> FALSE, violated |-> FALSE, options |-> {}]
  <2>1. HistoryViolated(t) = FALSE /\ Cyclic(Edges(t, FALSE)) = FALSE /\ EvidenceViolated(t) = FALSE
    BY <1>1, <1>2, <1>5 DEF HistoryViolated, Cyclic, EvidenceViolated
  <2> QED
    BY <1>6, <2>1 DEF Resolve, ResolveWith, Verdict
<1>8. Best({}, t.shared) = "none"
  BY DEF Best
<1>9. ASSUME NEW blocked \in BOOLEAN
      PROVE  StatusOf(t, Resolve(t), blocked) = IF blocked THEN "BLOCKED_ENVIRONMENT" ELSE "CONSISTENT"
  BY <1>7, <1>8 DEF StatusOf, Status
<1>10. ~FounderMust(t, Resolve(t))
  BY <1>7, <1>8 DEF FounderMust, Rewrites
<1> QED
  BY <1>9, <1>10 DEF GoesOn, ReviewBlocked

\* So the work goes on.
LEMMA UnitInvGoesOn == UnitInv => LawfulGoesOn
<1> SUFFICES ASSUME UnitInv, repo.records, unit # "off", ~Conflicted PROVE GoesOnFrom(Topology)
  BY DEF LawfulGoesOn
<1>1. Unhindered(Topology)
  BY LawfulIsUnhindered
<1>2. repo.rules \in Amendments /\ ~receipt.guardFailed
  BY DEF UnitInv, UnitIsPair, KeptInv, ResolutionTypeOK, RepositoryRecords
<1> QED
  BY <1>1, <1>2, UnhinderedGoesOn DEF GoesOnFrom

\* At first no unit is lawful, and one commit has one tree.
LEMMA InitUnit == ResolutionInit => UnitInv
<1> SUFFICES ASSUME ResolutionInit PROVE UnitInv
  OBVIOUS
<1>1. KeptInv
  BY InitKept
<1>2. head = 1 /\ Grown(made) /\ head \in Commits
  BY <1>1 DEF KeptInv, ResolutionTypeOK, ResolutionInit
<1>3. History[head] \subseteq 1..1
  BY <1>2, HistoriesNow
<1>4. Distinct
  BY <1>3 DEF Distinct
<1>5. ReceiptHonest /\ ContentCertified /\ UnitIsPair
  BY DEF ResolutionInit, ReceiptHonest, ContentCertified, UnitIsPair, Present, NoReceipt
<1> QED
  BY <1>1, <1>4, <1>5 DEF UnitInv

\* A commit more, with a tree its branch does not have.
LEMMA GrownData ==
  ASSUME UnitInv, NEW c, Added(c), head' = Len(made) + 1, receipt' = receipt,
         History[c.parent] \subseteq History[head],
         \A a \in History[c.parent] : made[a].tree # c.tree,
         \/ certified' = certified
         \/ certified' = certified \union {head'} /\ c.parent = head /\ Role(head) = "content"
  PROVE  Distinct' /\ ReceiptHonest' /\ ContentCertified'
<1>1. /\ Grown(made) /\ head \in Commits /\ certified \subseteq Commits
      /\ receipt.commit \in Commits \union {0}
  BY DEF UnitInv, KeptInv, ResolutionTypeOK
<1>2. /\ \A id \in Commits : made'[id] = made[id]
      /\ made'[head'] = c /\ head' \notin Commits /\ head' # 0
      /\ History'[head'] = History[c.parent] \union {head'}
  BY <1>1, CommitAdded, HistoriesNow
<1>3. /\ c.parent \in Commits /\ 0 \notin Commits
      /\ \A id \in Commits : History[id] \subseteq Commits /\ made[id].parent \in Commits \union {0}
  <2>1. Len(made) \in Nat /\ c.parent \in Commits
    BY <1>1, HistoriesNow DEF Added
  <2>2. ASSUME NEW id \in Commits
        PROVE  History[id] \subseteq Commits /\ made[id].parent \in Commits \union {0}
    <3>1. History[id] \subseteq 1..id /\ made[id].parent \in 0..(id - 1)
      BY <1>1, HistoriesNow
    <3> QED
      BY <2>1, <3>1 DEF Commits
  <2> QED
    BY <2>1, <2>2 DEF Commits
<1>4. Distinct'
  BY <1>1, <1>2, <1>3 DEF UnitInv, Distinct
<1>5. ReceiptHonest'
  BY <1>1, <1>2 DEF UnitInv, ReceiptHonest, Present
<1>6. ContentCertified'
  <2>1. \A id \in Commits : Role(id)' = Role(id) /\ Parent(id)' = Parent(id) /\ Parent(id) \in Commits \union {0}
    BY <1>2, <1>3 DEF Role, Parent
  <2>2. \A f \in certified : Role(Parent(f))' = "content" /\ (Parent(f) # 0)'
    BY <1>1, <1>2, <1>3, <2>1 DEF UnitInv, ContentCertified, Role
  <2>3. Parent(head)' = c.parent
    BY <1>2 DEF Parent
  <2>4. Role(c.parent) = Role(c.parent)'
    BY <1>2, <1>3 DEF Role
  <2>5. CASE certified' = certified
    BY <2>2, <2>5 DEF ContentCertified
  <2>6. CASE certified' = certified \union {head'} /\ c.parent = head /\ Role(head) = "content"
    <3>1. Role(Parent(head))' = "content" /\ Parent(head)' # 0
      BY <1>1, <1>2, <1>3, <2>3, <2>6 DEF Role
    <3> QED
      BY <2>2, <2>6, <3>1 DEF ContentCertified
  <2> QED
    BY <2>5, <2>6
<1> QED
  BY <1>4, <1>5, <1>6

\* A commit on top of the branch has a tree of its own.
LEMMA CommitData ==
  ASSUME UnitInv, NEW files \in SUBSET FileClasses, NEW mark \in BOOLEAN,
         AddCommit(files, mark), receipt' = receipt,
         \/ certified' = certified
         \/ certified' = certified \union {head'} /\ Role(head) = "content"
  PROVE  /\ Distinct' /\ ReceiptHonest' /\ ContentCertified'
         /\ head' = Len(made) + 1 /\ made'[head'].files = files /\ made'[head'].mark = mark
         /\ Parent(head)' = head /\ head' # 0
         /\ \A id \in Commits : made'[id] = made[id]
<1> DEFINE c == Commit(head, files, mark, Len(made) + 1)
<1>1. Grown(made) /\ head \in Commits
  BY DEF UnitInv, KeptInv, ResolutionTypeOK
<1>2. Len(made) \in Nat
  BY <1>1 DEF Grown
<1>3. /\ c.parent = head /\ c.files = files /\ c.mark = mark /\ c.tree = Len(made) + 1 /\ Added(c)
  BY <1>1, <1>2 DEF Commit, Added, AddCommit, CommitRecords, Commits
<1> HIDE DEF c
<1>4. \A a \in History[head] : made[a].tree # c.tree
  BY <1>1, <1>2, <1>3, HistoriesNow DEF Commits
<1>5. head' = Len(made) + 1
  BY DEF AddCommit, HeadMoves
<1>6. Distinct' /\ ReceiptHonest' /\ ContentCertified'
  BY <1>3, <1>4, <1>5, GrownData
<1>7. /\ \A id \in Commits : made'[id] = made[id]
      /\ made'[head'] = c /\ head' # 0
  BY <1>1, <1>2, <1>3, <1>5, CommitAdded
<1> QED
  BY <1>3, <1>5, <1>6, <1>7 DEF Parent

\* A pair stays one.
LEMMA PairStands ==
  ASSUME Grown(made), NEW c \in Commits, NEW f \in Commits, Pair(c, f),
         \A id \in Commits : made'[id] = made[id]
  PROVE  Pair(c, f)'
<1>1. f # 0 /\ made'[f] = made[f] /\ made'[c] = made[c]
  BY DEF Pair
<1> QED
  BY <1>1 DEF Pair, Role, Parent

\* What makes the next state one of an open unit.
LEMMA OpenNext ==
  ASSUME NEW c, NEW f, Pair(c, f)', Parent(head)' = f, made'[head'].files = {"content"},
         work'.commit = c, work'.matches, work'.baseline = c, ~receipt'.guardFailed,
         unit' = "open",
         Present' => \/ c # 0 /\ receipt'.commit = c /\ receipt'.tree = made'[c].tree
                     \/ receipt'.commit = head' \/ receipt'.tree = made'[head'].tree
  PROVE  UnitIsPair'
<1>1. c # 0
  BY DEF Pair
<1>2. Pair(work.commit, Parent(head))'
  BY DEF Pair, Role, Parent
<1>3. Present' => Names(work.commit)' \/ receipt'.commit = head' \/ receipt'.tree = made'[head'].tree
  BY DEF Names
<1> QED
  BY <1>1, <1>2, <1>3 DEF UnitIsPair

\* Each action leaves a unit lawful or calls it off.
LEMMA BuildContentUnit == ASSUME UnitInv, BuildContent PROVE UnitInv'
<1>1. KeptInv'
  BY BuildContentKept DEF UnitInv
<1>2. CASE /\ AddCommit({"content"}, FALSE) /\ work' = work
           /\ unit' = IF unit = "closed" THEN "open" ELSE "off"
  <2>1. /\ Distinct' /\ ReceiptHonest' /\ ContentCertified'
        /\ made'[head'].files = {"content"} /\ Parent(head)' = head
        /\ \A id \in Commits : made'[id] = made[id]
    BY <1>2, CommitData DEF BuildContent, FileClasses
  <2>2. UnitIsPair'
    <3>1. CASE repo.records /\ unit = "closed"
      <4>1. PICK c, f : c = work.commit /\ f = head
        OBVIOUS
      <4>2. /\ Pair(c, f) /\ Names(c) /\ Grown(made) /\ f \in Commits
            /\ work.matches /\ c # 0 /\ work.baseline = c /\ ~receipt.guardFailed
        BY <3>1, <4>1 DEF UnitInv, UnitIsPair, KeptInv, ResolutionTypeOK
      <4>3. c \in Commits
        BY <4>2, PairFacts
      <4>4. Pair(c, f)'
        BY <2>1, <4>2, <4>3, PairStands
      <4>5. c # 0 /\ receipt'.commit = c /\ receipt'.tree = made'[c].tree
        BY <2>1, <4>2, <4>3 DEF Names, BuildContent
      <4> QED
        BY <1>2, <2>1, <3>1, <4>1, <4>2, <4>4, <4>5, OpenNext DEF BuildContent
    <3>2. CASE ~(repo.records /\ unit = "closed")
      BY <1>2, <3>2 DEF UnitIsPair, BuildContent
    <3> QED
      BY <3>1, <3>2
  <2> QED
    BY <1>1, <2>1, <2>2 DEF UnitInv
<1>3. CASE AddStray({"content", "status"}, FALSE)
  <2>1. Distinct' /\ ReceiptHonest' /\ ContentCertified'
    BY <1>3, CommitData DEF BuildContent, AddStray, FileClasses
  <2>2. UnitIsPair'
    BY <1>3 DEF AddStray, UnitIsPair
  <2> QED
    BY <1>1, <2>1, <2>2 DEF UnitInv
<1> QED
  BY <1>2, <1>3 DEF BuildContent

LEMMA HandStatusUnit == ASSUME UnitInv, HandStatus PROVE UnitInv'
<1>1. KeptInv'
  BY HandStatusKept DEF UnitInv
<1>2. PICK mark \in BOOLEAN : AddStray({"status"}, mark)
  BY DEF HandStatus, UnitInv, KeptInv, ResolutionTypeOK, RepositoryRecords
<1>3. Distinct' /\ ReceiptHonest' /\ ContentCertified'
  BY <1>2, CommitData DEF HandStatus, AddStray, FileClasses
<1>4. UnitIsPair'
  BY <1>2 DEF AddStray, UnitIsPair
<1> QED
  BY <1>1, <1>3, <1>4 DEF UnitInv

LEMMA CommitReceiptUnit == ASSUME UnitInv, CommitReceipt PROVE UnitInv'
<1>1. KeptInv'
  BY CommitReceiptKept DEF UnitInv
<1>2. Distinct' /\ ReceiptHonest' /\ ContentCertified'
  BY CommitData DEF CommitReceipt, AddStray, FileClasses
<1>3. UnitIsPair'
  BY DEF CommitReceipt, AddStray, UnitIsPair
<1> QED
  BY <1>1, <1>2, <1>3 DEF UnitInv

LEMMA FinalizeUnit == ASSUME UnitInv, Finalize PROVE UnitInv'
<1> DEFINE files == IF repo.commits THEN {"status", "receipt"} ELSE {"status"}
<1>1. KeptInv' /\ Grown(made) /\ head \in Commits
  BY FinalizeKept DEF UnitInv, KeptInv, ResolutionTypeOK
<1>2. files \in SUBSET FileClasses /\ "status" \in files /\ "content" \notin files
  BY DEF FileClasses
<1>3. AddCommit(files, TRUE)
  BY DEF Finalize
<1>4. repo.commits => "receipt" \in files
  OBVIOUS
<1> HIDE DEF files
<1>5. /\ Distinct' /\ ReceiptHonest' /\ ContentCertified'
      /\ made'[head'].files = files /\ made'[head'].mark /\ Parent(head)' = head /\ head' # 0
      /\ \A id \in Commits : made'[id] = made[id]
  BY <1>2, <1>3, CommitData DEF Finalize
<1>6. UnitIsPair'
  <2>1. CASE unit' = "off"
    BY <2>1 DEF UnitIsPair
  <2>2. CASE unit' # "off"
    <3>1. PICK c, f : c = head /\ f = head'
      OBVIOUS
    <3>2. /\ unit' = "closed" /\ Parent(c) # 0
          /\ "receipt" \in made[c].files => repo.commits
      BY <2>2, <3>1 DEF Finalize
    <3>3. /\ work'.commit = c /\ work'.matches /\ repo' = repo /\ receipt' = receipt
          /\ repo.records => work'.baseline = c
          /\ Role(c) = "content" /\ Names(c) /\ receipt.passed
      BY <3>1 DEF Finalize
    <3>4. /\ c \in Commits /\ c # 0 /\ ~receipt.guardFailed /\ made'[c] = made[c]
      BY <1>1, <1>5, <3>1, <3>3 DEF Names, UnitInv, ReceiptHonest
    <3>5. Role(f)' = "finalizer" /\ Role(c)' = "content" /\ Parent(f)' = c /\ Parent(c)' # 0
      BY <1>2, <1>5, <3>1, <3>2, <3>3, <3>4 DEF Role, Parent
    <3>6. "receipt" \in made'[c].files => "receipt" \in made'[f].files
      BY <1>4, <1>5, <3>1, <3>2, <3>4
    <3>7. Pair(c, f)'
      BY <1>5, <3>1, <3>4, <3>5, <3>6 DEF Pair
    <3>8. Pair(work.commit, head)' /\ Parent(work.commit)' # 0
      BY <3>1, <3>3, <3>5, <3>7 DEF Pair, Role, Parent
    <3>9. Names(work.commit)'
      BY <3>3, <3>4 DEF Names
    <3> QED
      BY <3>2, <3>3, <3>4, <3>8, <3>9 DEF UnitIsPair
  <2> QED
    BY <2>1, <2>2
<1> QED
  BY <1>1, <1>5, <1>6 DEF UnitInv

\* Where no commit is made, what does not read the receipt stands.
LEMMA StillData ==
  ASSUME UnitInv, UNCHANGED <<made, head, certified>>
  PROVE  Distinct' /\ ContentCertified'
<1>1. History' = History /\ \A id : Role(id)' = Role(id) /\ Parent(id)' = Parent(id)
  BY HistoriesStay
<1> QED
  BY <1>1 DEF UnitInv, Distinct, ContentCertified, Role, Parent

\* What does not move HEAD, the status or the receipt leaves a unit as it was.
LEMMA StillUnit ==
  ASSUME UnitInv, KeptInv', UNCHANGED <<made, head, certified, work, receipt, unit>>,
         repo'.records = repo.records
  PROVE  UnitInv'
<1>1. Distinct' /\ ContentCertified'
  BY StillData
<1>2. ReceiptHonest'
  BY DEF UnitInv, ReceiptHonest, Present
<1>3. UnitIsPair'
  BY DEF UnitInv, UnitIsPair, Pair, Role, Parent, Names, Present
<1> QED
  BY <1>1, <1>2, <1>3 DEF UnitInv

\* The suite refuses no open unit.
LEMMA RunSuiteUnit == ASSUME UnitInv, RunSuite PROVE UnitInv'
<1>1. KeptInv' /\ Distinct' /\ ContentCertified'
  BY RunSuiteKept, StillData DEF UnitInv, RunSuite, plans
<1>2. PICK product \in BOOLEAN :
        LET refused == repo.guard /\ repo.guardInSuite /\ State = "ILLEGAL"
        IN receipt' = [commit |-> head, tree |-> made[head].tree,
                       passed |-> product /\ ~refused, guardFailed |-> refused]
  BY DEF RunSuite
<1>3. ReceiptHonest'
  BY <1>2 DEF ReceiptHonest, RunSuite
<1>4. UnitIsPair'
  <2>1. CASE repo.records /\ unit = "open"
    <3>1. State = "PRODUCING"
      BY <2>1, OpenSeen DEF Topology, AnalyzeFrom, Observed
    <3>2. ~receipt'.guardFailed /\ receipt'.commit = head
      BY <1>2, <3>1
    <3>3. PICK c, f : c = work.commit /\ f = Parent(head)
      OBVIOUS
    <3>4. /\ Pair(c, f) /\ made[head].files = {"content"}
          /\ work.matches /\ work.baseline = c
      BY <2>1, <3>3 DEF UnitInv, UnitIsPair
    <3>5. Pair(c, f)' /\ Parent(head)' = f
      BY <3>3, <3>4 DEF RunSuite, Pair, Role, Parent
    <3> QED
      BY <2>1, <3>2, <3>3, <3>4, <3>5, OpenNext DEF RunSuite
  <2>2. CASE ~(repo.records /\ unit = "open")
    BY <2>2 DEF RunSuite, UnitIsPair, UnitInv, KeptInv, ResolutionTypeOK
  <2> QED
    BY <2>1, <2>2
<1> QED
  BY <1>1, <1>3, <1>4 DEF UnitInv

\* A plan carried out opens a unit on the pair it was based on.
LEMMA ExecuteUnit == ASSUME UnitInv, Execute PROVE UnitInv'
<1> DEFINE new == Commit(approved.base, Folded, FALSE, made[approved.target].tree)
<1>1. /\ KeptInv' /\ Grown(made) /\ head \in Commits /\ Fits(approved)
      /\ certified \subseteq Commits
  BY ExecuteKept DEF UnitInv, KeptInv, ResolutionTypeOK, Execute, Lawful
<1>2. /\ Len(made) \in Nat /\ History[head] \subseteq Commits /\ 0 \notin Commits
      /\ History[approved.base] \subseteq History[head]
      /\ \A id \in Commits : made[id] \in CommitRecords /\ made[id].tree \in 1..id
  BY <1>1, HistoriesNow DEF Commits, Fits
<1>3. approved.base \in Commits /\ approved.target \in Commits /\ approved.base # 0
  BY <1>1, <1>2 DEF Fits
<1>4. Folded \in SUBSET FileClasses
  <2>1. Topology.range \subseteq Commits
    BY <1>2 DEF Topology, AnalyzeFrom, Observed, Since
  <2>2. \A id \in Topology.range : made[id].files \subseteq FileClasses
    BY <1>2, <2>1 DEF CommitRecords
  <2> QED
    BY <2>2 DEF Folded
<1>5. /\ new.parent = approved.base /\ new.files = Folded
      /\ new.tree = made[approved.target].tree /\ Added(new)
  BY <1>2, <1>3, <1>4 DEF Commit, Added, Execute, CommitRecords, Commits
<1> HIDE DEF new
<1>6. /\ \A id \in Commits : made'[id] = made[id]
      /\ made'[head'] = new /\ head' # 0 /\ head' = Len(made) + 1
  <2>1. head' = Len(made) + 1
    BY DEF Execute, HeadMoves
  <2> QED
    BY <1>1, <1>2, <1>5, <2>1, CommitAdded
<1>7. \A a \in History[new.parent] : made[a].tree # new.tree
  BY <1>1, <1>2, <1>5 DEF Fits, UnitInv, Distinct
<1>8. Distinct' /\ ReceiptHonest' /\ ContentCertified'
  BY <1>2, <1>5, <1>6, <1>7, GrownData DEF Execute
<1>9. UnitIsPair'
  <2>1. CASE Repaired(Folded)
    <3>1. PICK c, f : c = work.commit /\ f = approved.base
      OBVIOUS
    <3>2. /\ work.matches /\ Folded = {"content"} /\ Role(f) = "finalizer"
          /\ Parent(f) = c /\ work.baseline = c /\ ~receipt.guardFailed
          /\ "receipt" \in made[c].files => "receipt" \in made[f].files
          /\ ~Present \/ Names(c) \/ receipt.tree = made[approved.target].tree
      BY <2>1, <3>1 DEF Repaired
    <3>3. f \in Commits /\ f # 0 /\ made[f].parent = c /\ c \in 0..(f - 1)
      BY <1>1, <1>3, <3>1, <3>2, HistoriesNow DEF Parent
    <3>4. c # 0
      <4>1. SUFFICES ASSUME c = 0 PROVE FALSE
        OBVIOUS
      <4>2. History[f] = {f}
        BY <1>1, <3>3, <4>1, HistoriesNow
      <4>3. f = 1
        BY <3>3, <4>2 DEF UnitInv, KeptInv, Rooted
      <4> QED
        BY <3>2, <4>3 DEF UnitInv, KeptInv, Rooted, Role
    <3>5. c \in Commits
      BY <3>3, <3>4 DEF Commits
    <3>6. Role(c) = "content"
      BY <3>2, <3>4 DEF UnitInv, KeptInv, Certifies, ContentCertified
    <3>7. Pair(c, f)
      BY <3>2, <3>3, <3>4, <3>6 DEF Pair
    <3>8. Pair(c, f)'
      BY <1>1, <1>6, <3>3, <3>5, <3>7, PairStands
    <3>9. /\ Parent(head)' = f /\ made'[head'].files = {"content"}
          /\ made'[head'].tree = made[approved.target].tree
      BY <1>5, <1>6, <3>1, <3>2 DEF Parent
    <3>10. Present' => \/ c # 0 /\ receipt'.commit = c /\ receipt'.tree = made'[c].tree
                       \/ receipt'.tree = made'[head'].tree
      BY <1>6, <3>2, <3>5, <3>9 DEF Execute, Present, Names
    <3> QED
      BY <2>1, <3>1, <3>2, <3>8, <3>9, <3>10, OpenNext DEF Execute
  <2>2. CASE ~Repaired(Folded)
    BY <2>2 DEF Execute, UnitIsPair
  <2> QED
    BY <2>1, <2>2
<1> QED
  BY <1>1, <1>8, <1>9 DEF UnitInv

\* A unit built as the protocol says, or put right by an approved plan, is
\* stopped by no rule the repository may state, however long its history
\* (git_topology.py, protocol_resolver.py, deadlock_detector.py).
THEOREM WorkGoesOn == ResolutionSpec => []LawfulGoesOn
<1>1. ASSUME UnitInv, [ResolutionNext]_resolutionVars PROVE UnitInv'
  <2>1. CASE Push
    BY <1>1, <2>1, PushKept, StillUnit DEF Push, plans, ghosts, UnitInv
  <2>2. CASE Amend
    <3>1. repo'.records = repo.records
      BY <2>2, <1>1 DEF Amend, UnitInv, KeptInv, ResolutionTypeOK, RepositoryRecords
    <3> QED
      BY <1>1, <2>2, <3>1, AmendKept, StillUnit DEF Amend, plans, ghosts, UnitInv
  <2>3. CASE Report
    BY <1>1, <2>3, ReportKept, StillUnit DEF Report, ghosts, UnitInv
  <2>4. CASE Approve
    BY <1>1, <2>4, ApproveKept, StillUnit DEF Approve, ghosts, UnitInv
  <2>5. CASE UNCHANGED resolutionVars
    <3>1. KeptInv'
      BY <1>1, <2>5, StillKept DEF resolutionVars, UnitInv, KeptInv, ResolutionTypeOK
    <3> QED
      BY <1>1, <2>5, <3>1, StillUnit DEF resolutionVars
  <2> QED
    BY <1>1, <2>1, <2>2, <2>3, <2>4, <2>5, BuildContentUnit, HandStatusUnit, CommitReceiptUnit,
       RunSuiteUnit, FinalizeUnit, ExecuteUnit DEF ResolutionNext
<1> QED
  BY <1>1, InitUnit, UnitInvGoesOn, PTL DEF ResolutionSpec

-----------------------------------------------------------------------------
(* The locks.                                                              *)

\* The other half of HeldFromInside: whoever is inside a lock holds it, and
\* whoever is after it has opened the file.
InsideHolds ==
  \A p \in Processes :
    /\ pc[p] \in Holding => kernel[LockOf(p)] = p
    /\ pc[p] = "probing" => p \in Builders /\ kernel["finalizer"] = p
    /\ pc[p] \in {"session", "launching"} => p \in Builders
    /\ pc[p] = "try" => file[LockOf(p)] # Missing

IInv == TypeOK /\ HeldFromInside /\ OwnerIsNamed /\ InsideHolds

USE DEF Processes, Locks, LockOf, Goes, Free, Holding, Owning

LEMMA InitIInv == Init => IInv
BY OwnershipAssumption
   DEF Init, IInv, TypeOK, HeldFromInside, OwnerIsNamed, InsideHolds

LEMMA AcquiredIInv ==
  ASSUME NEW p \in Processes, IInv, Acquire(p)
  PROVE  IInv'
<1> USE OwnershipAssumption
<1>1. CASE Open(p)
  BY <1>1 DEF Open, IInv, TypeOK, HeldFromInside, OwnerIsNamed, InsideHolds
<1>2. CASE Lock(p)
  <2>1. /\ kernel' = [kernel EXCEPT ![LockOf(p)] = p] /\ kernel[LockOf(p)] = NoOne
        /\ pc' = [pc EXCEPT ![p] = "label"] /\ pc[p] = "try" /\ file' = file
    BY <1>2 DEF Lock
  <2>2. TypeOK'
    <3>1. kernel' \in [Locks -> Processes \cup {NoOne}]
      BY <2>1 DEF IInv, TypeOK
    <3>2. pc' \in [Processes -> Holding \cup {"off", "try"}]
      BY <2>1 DEF IInv, TypeOK
    <3>3. file[LockOf(p)] # Missing
      BY <2>1 DEF IInv, InsideHolds
    <3> QED
      BY <2>1, <3>1, <3>2, <3>3 DEF IInv, TypeOK
  <2>3. HeldFromInside'
    BY <2>1 DEF IInv, TypeOK, HeldFromInside
  <2>4. OwnerIsNamed'
    BY <2>1 DEF IInv, TypeOK, OwnerIsNamed
  <2>5. InsideHolds'
    BY <2>1 DEF IInv, TypeOK, InsideHolds
  <2> QED
    BY <2>2, <2>3, <2>4, <2>5 DEF IInv
<1>3. CASE Refuse(p)
  BY <1>3 DEF Refuse, IInv, TypeOK, HeldFromInside, OwnerIsNamed, InsideHolds
<1>4. CASE Label(p)
  BY <1>4 DEF Label, IInv, TypeOK, HeldFromInside, OwnerIsNamed, InsideHolds
<1>5. CASE Write(p)
  BY <1>5 DEF Write, IInv, TypeOK, HeldFromInside, OwnerIsNamed, InsideHolds
<1>6. CASE LabelFails(p)
  BY <1>6 DEF LabelFails, IInv, TypeOK, HeldFromInside, OwnerIsNamed, InsideHolds
<1> QED
  BY <1>1, <1>2, <1>3, <1>4, <1>5, <1>6 DEF Acquire

LEMMA ReleasedIInv ==
  ASSUME NEW p \in Processes, IInv, Release(p) \/ Crash(p)
  PROVE  IInv'
<1> USE OwnershipAssumption
<1>1. CASE Clear(p)
  BY <1>1 DEF Clear, IInv, TypeOK, HeldFromInside, OwnerIsNamed, InsideHolds
<1>2. CASE Unlock(p)
  BY <1>2 DEF Unlock, IInv, TypeOK, HeldFromInside, OwnerIsNamed, InsideHolds
<1>3. CASE Crash(p)
  BY <1>3 DEF Crash, IInv, TypeOK, HeldFromInside, OwnerIsNamed, InsideHolds
<1> QED
  BY <1>1, <1>2, <1>3 DEF Release

LEMMA SessionIInv ==
  ASSUME NEW b \in Builders, IInv, Session(b)
  PROVE  IInv'
<1> USE OwnershipAssumption
<1>1. CASE Connect(b) \/ Close(b) \/ SeeNoLock(b) \/ LaunchNothing(b)
  BY <1>1 DEF Connect, Close, SeeNoLock, LaunchNothing,
              IInv, TypeOK, HeldFromInside, OwnerIsNamed, InsideHolds
<1>2. CASE Probe(b)
  BY <1>2 DEF Probe, IInv, TypeOK, HeldFromInside, OwnerIsNamed, InsideHolds
<1>3. CASE Probed(b)
  BY <1>3 DEF Probed, IInv, TypeOK, HeldFromInside, OwnerIsNamed, InsideHolds
<1>4. CASE \E f \in Finalizers : Launch(b, f)
  BY <1>4 DEF Launch, IInv, TypeOK, HeldFromInside, OwnerIsNamed, InsideHolds
<1> QED
  BY <1>1, <1>2, <1>3, <1>4 DEF Session

LEMMA FinishedIInv ==
  ASSUME NEW f \in Finalizers, IInv, Finish(f)
  PROVE  IInv'
BY OwnershipAssumption DEF Finish, IInv, TypeOK, HeldFromInside, OwnerIsNamed, InsideHolds

THEOREM Invariance == Spec => []IInv
<1>1. IInv /\ UNCHANGED vars => IInv'
  BY DEF vars, IInv, TypeOK, HeldFromInside, OwnerIsNamed, InsideHolds
<1>2. IInv /\ [Next]_vars => IInv'
  BY <1>1, AcquiredIInv, ReleasedIInv, SessionIInv, FinishedIInv DEF Next
<1> QED
  BY <1>2, InitIInv, PTL DEF Spec

\* Type correctness, and no lock on a file that nobody else would open.
THEOREM TypeCorrect == Spec => []TypeOK
<1>1. IInv => TypeOK
  BY DEF IInv
<1> QED
  BY <1>1, Invariance, PTL

\* Every lock that is held is held from inside: none is leaked (acquire,
\* release and BuilderSession.close).
THEOREM NothingLeaks == Spec => []HeldFromInside
<1>1. IInv => HeldFromInside
  BY DEF IInv
<1> QED
  BY <1>1, Invariance, PTL

\* The record in the file is that of the owner while there is one.
THEOREM RecordNamesOwner == Spec => []OwnerIsNamed
<1>1. IInv => OwnerIsNamed
  BY DEF IInv
<1> QED
  BY <1>1, Invariance, PTL

-----------------------------------------------------------------------------
(* Ownership implements ExclusiveOwner.                                    *)

\* A step after which the same processes are inside changes no owner.
LEMMA SameOwners ==
  ASSUME \A p \in Processes : pc'[p] \in Holding <=> pc[p] \in Holding
  PROVE  Owners' = Owners
BY DEF Owners

\* A step that one process leaves with.
LEMMA OneLeaves ==
  ASSUME IInv, NEW p \in Processes, pc[p] \in Holding, pc' = [pc EXCEPT ![p] = "off"]
  PROVE  Promise!Leave(LockOf(p), p)
<1>1. \A l \in Locks : Owners'[l] = IF l = LockOf(p) THEN Owners[l] \ {p} ELSE Owners[l]
  BY DEF Owners, IInv, TypeOK
<1>2. /\ Owners = [l \in Locks |-> Owners[l]] /\ Owners' = [l \in Locks |-> Owners'[l]]
      /\ LockOf(p) \in Locks /\ p \in Owners[LockOf(p)]
  BY DEF Owners
<1>3. Owners' = [Owners EXCEPT ![LockOf(p)] = Owners[LockOf(p)] \ {p}]
  BY <1>1, <1>2
<1> QED
  BY <1>2, <1>3 DEF Promise!Leave

LEMMA OneTakes ==
  ASSUME IInv, NEW p \in Processes, Lock(p)
  PROVE  Promise!Take(LockOf(p), p)
<1>1. Owners[LockOf(p)] = {}
  BY OwnershipAssumption DEF Owners, Lock, IInv, InsideHolds
<1>2. \A l \in Locks : Owners'[l] = IF l = LockOf(p) THEN {p} ELSE Owners[l]
  <2>1. \A q \in Processes : pc'[q] = IF q = p THEN "label" ELSE pc[q]
    BY DEF Lock, IInv, TypeOK
  <2> HIDE DEF Processes, Locks, LockOf, Holding
  <2>2. \A l \in Locks, q \in Processes :
          /\ q \in Owners[l] <=> LockOf(q) = l /\ pc[q] \in Holding
          /\ q \in Owners'[l] <=> LockOf(q) = l /\ pc'[q] \in Holding
    BY DEF Owners
  <2>3. \A l \in Locks : Owners[l] \subseteq Processes /\ Owners'[l] \subseteq Processes
    BY DEF Owners
  <2>4. "label" \in Holding /\ LockOf(p) \in Locks
    BY DEF Holding, LockOf, Locks
  <2>5. ASSUME NEW l \in Locks, l # LockOf(p) PROVE Owners'[l] = Owners[l]
    <3>1. \A q \in Processes : q \in Owners'[l] <=> q \in Owners[l]
      BY <2>1, <2>2, <2>5
    <3> QED
      BY <2>3, <3>1
  <2>6. Owners'[LockOf(p)] = {p}
    <3>1. p \in Owners'[LockOf(p)]
      BY <2>1, <2>2, <2>4
    <3>2. ASSUME NEW q \in Processes, q # p PROVE q \notin Owners'[LockOf(p)]
      <4>1. q \notin Owners[LockOf(p)] /\ pc'[q] = pc[q]
        BY <1>1, <2>1, <3>2
      <4> QED
        BY <2>2, <2>4, <4>1
    <3> QED
      BY <2>3, <2>4, <3>1, <3>2
  <2> QED
    BY <2>5, <2>6
<1>3. Owners = [l \in Locks |-> Owners[l]] /\ Owners' = [l \in Locks |-> Owners'[l]]
  BY DEF Owners
<1>4. Owners' = [Owners EXCEPT ![LockOf(p)] = {p}]
  BY <1>2, <1>3
<1> QED
  BY <1>1, <1>4 DEF Promise!Take

LEMMA ProcessStep ==
  ASSUME IInv, NEW p \in Processes, Acquire(p) \/ Release(p) \/ Crash(p)
  PROVE  [Promise!Next]_Owners
<1>1. CASE Lock(p)
  BY <1>1, OneTakes DEF Promise!Next
<1>2. CASE LabelFails(p) \/ Unlock(p)
  BY <1>2, OneLeaves DEF LabelFails, Unlock, Promise!Next
<1>3. CASE Crash(p)
  <2>1. CASE pc[p] \in Holding
    BY <1>3, <2>1, OneLeaves DEF Crash, Promise!Next
  <2>2. CASE pc[p] \notin Holding
    BY <1>3, <2>2, SameOwners DEF Crash, IInv, TypeOK
  <2> QED
    BY <2>1, <2>2
<1>4. CASE Open(p) \/ Refuse(p) \/ Label(p) \/ Write(p) \/ Clear(p)
  BY <1>4, SameOwners DEF Open, Refuse, Label, Write, Clear, IInv, TypeOK
<1> QED
  BY <1>1, <1>2, <1>3, <1>4 DEF Acquire, Release

LEMMA OwnerStep ==
  ASSUME IInv, \/ \E b \in Builders : Session(b)
               \/ \E f \in Finalizers : Finish(f)
  PROVE  [Promise!Next]_Owners
<1>1. CASE \E b \in Builders : Session(b)
  <2>1. PICK b \in Builders : Session(b)
    BY <1>1
  <2>2. CASE \E f \in Finalizers : Launch(b, f)
    BY <2>2, SameOwners DEF Launch, IInv, TypeOK
  <2>3. CASE ~ \E f \in Finalizers : Launch(b, f)
    BY <2>1, <2>3, SameOwners
       DEF Session, Connect, Close, SeeNoLock, Probe, Probed, LaunchNothing, IInv, TypeOK
  <2> QED
    BY <2>2, <2>3
<1>2. CASE \E f \in Finalizers : Finish(f)
  BY <1>2, SameOwners DEF Finish, IInv, TypeOK
<1> QED
  BY <1>1, <1>2

\* Two builders never own one worktree and two finalizers never own one
\* repository: every step of Ownership takes or leaves a lock as ExclusiveOwner
\* allows, or changes no owner.
THEOREM OwnersExclude == Spec => OwnersAreExclusive
<1>1. Init => Promise!Init
  BY DEF Init, Promise!Init, Owners
<1>2. IInv /\ [Next]_vars => [Promise!Next]_Owners
  <2> SUFFICES ASSUME IInv, [Next]_vars PROVE [Promise!Next]_Owners
    OBVIOUS
  <2>1. CASE Next
    BY <2>1, ProcessStep, OwnerStep DEF Next
  <2>2. CASE UNCHANGED vars
    BY <2>2, SameOwners DEF vars
  <2> QED
    BY <2>1, <2>2
<1> QED
  BY <1>1, <1>2, Invariance, PTL DEF Spec, OwnersAreExclusive, Promise!Spec
=================================================================================
