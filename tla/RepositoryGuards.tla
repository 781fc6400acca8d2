-------------------------- MODULE RepositoryGuards --------------------------
(***************************************************************************)
(* The repository's own verification of a change                           *)
(* (neyma_product_driver/repo_verification.py): which of its test files    *)
(* are asked, and what their answers add up to.                            *)
(*                                                                         *)
(* Two questions are asked of them.  What does the repository guard about  *)
(* the kind of thing that changed (discover_verification)?  Which of its   *)
(* tests read this very file (discover_record_guards)?  A test file is a   *)
(* record of what these two read of it:                                    *)
(*   file      its path, and order, its place by length and then by name;  *)
(*   vendored  it lies in a directory that is not the repository's own;    *)
(*   names     how many tests it declares;                                 *)
(*   words     for a surface, how many words of its vocabulary it uses;    *)
(*   about     how many of its test names speak of a surface;              *)
(*   wide      how many of those speak of all of it;                       *)
(*   mentions  how often it names a file.                                  *)
(* What an execution answers is nondeterministic.                          *)
(***************************************************************************)
EXTENDS Naturals, FiniteSets

LOCAL INSTANCE FiniteSetsExt

CONSTANTS
  RepoTests,      \* the test files git tracks
  Toolchain,      \* what is found of "venv", an interpreter of its own, and
                  \* "config", a file that configures the tests
  GuardRefuses    \* the tests whose invocation the command guard refuses

ASSUME GuardsAssumption ==
  /\ IsFiniteSet(RepoTests)
  /\ Toolchain \subseteq {"venv", "config"}
  /\ GuardRefuses \subseteq RepoTests
  /\ \A t \in RepoTests :
       /\ t.vendored \in BOOLEAN
       /\ {t.names, t.order} \subseteq Nat
       /\ \A s \in DOMAIN t.about : /\ t.wide[s] <= t.about[s]
                                    /\ t.about[s] <= t.names
  /\ \A t, u \in RepoTests : t.order = u.order => t = u

(* detect_test_runner *)
RunnerFound == Toolchain # {}

(* _tracked_test_files, and _test_names: a file without a test is no guard.*)
OwnTests == {t \in RepoTests : ~t.vendored /\ t.names > 0}

(* The strongest n of some tests; the shorter path breaks a tie.           *)
Strongest(score, n) ==
  LET Before(t, u) == \/ score[t] > score[u]
                      \/ score[t] = score[u] /\ t.order < u.order
      tests == DOMAIN score
  IN  {t \in tests : Cardinality({u \in tests : Before(u, t)}) < n}

-----------------------------------------------------------------------------
(***************************************************************************)
(* The kind of thing that changed.  A surface is marked by the paths of    *)
(* its files, or by what they say.                                         *)
(***************************************************************************)
(* surfaces_touched, as the loop calls it, without the text of the diff.   *)
SurfacesTouched(files, byPath, byText) ==
  {s \in DOMAIN byPath : files \intersect (byPath[s] \union byText[s]) # {}}

(* _guard_score: density, not count; a test over the whole counts thrice.  *)
Weight(t, s) == t.about[s] + 2 * t.wide[s]

(* A wide guard speaks the surface's language, asserts over all of it at   *)
(* least once, and is mostly about it (min_density).                       *)
GuardsSurface(t, s) ==
  /\ t.words[s] >= 2
  /\ t.wide[s] > 0
  /\ 100 * Weight(t, s) >= 30 * t.names

(* In hundredths, for the surface it is found by; SURFACES has one row.    *)
GuardScore(t, surfaces) ==
  LET s == CHOOSE r \in surfaces : GuardsSurface(t, r)
  IN  (200 * Weight(t, s) + t.names) \div (2 * t.names)

DiscoverVerification(surfaces, n) ==
  LET found == {t \in OwnTests : \E s \in surfaces : GuardsSurface(t, s)}
  IN  IF RunnerFound THEN Strongest([t \in found |-> GuardScore(t, surfaces)], n)
                     ELSE {}

-----------------------------------------------------------------------------
(***************************************************************************)
(* The very files that changed.  A changed test is not its own guard.      *)
(***************************************************************************)
Mentioned(t, paths) == {p \in paths \intersect DOMAIN t.mentions : t.mentions[p] > 0}

DiscoverRecordGuards(paths, n) ==
  LET found == {t \in OwnTests : t.file \notin paths /\ Mentioned(t, paths) # {}}
      Mentions(t) == MapThenSumSet(LAMBDA p : t.mentions[p], Mentioned(t, paths))
  IN  IF RunnerFound THEN Strongest([t \in found |-> Mentions(t)], n) ELSE {}

-----------------------------------------------------------------------------
(***************************************************************************)
(* Their answers.  One that reached no assertion (a refused command, a     *)
(* timeout, a collection error) is a fact about the surroundings.          *)
(***************************************************************************)
GuardAnswers == {"passed", "failed", "infrastructure"}

(* run_verification *)
RunVerification(targets) ==
  {answer \in [targets -> GuardAnswers] :
     \A t \in targets \intersect GuardRefuses : answer[t] = "infrastructure"}

(* RepositoryVerification.product_failures *)
ProductFailures(answer) == {t \in DOMAIN answer : answer[t] = "failed"}

(* RepositoryVerification.blocks_acceptance: only a failure refuses the    *)
(* product.                                                                *)
BlocksAcceptance(answer) == ProductFailures(answer) # {}
=============================================================================
