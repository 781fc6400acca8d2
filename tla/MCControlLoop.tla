--------------------------- MODULE MCControlLoop ---------------------------
(***************************************************************************)
(* A small instance of ControlLoop for TLC: the tree the run starts on,    *)
(* two uncommitted edits of one guard and one module that differ only in   *)
(* content, and the second of them committed and then edited to change     *)
(* the module alone.                                                       *)
(***************************************************************************)
EXTENDS ControlLoop

MCHeadOf == [base |-> "h0", draft |-> "h0", redraft |-> "h0", committed |-> "h1"]

MCFilesOf == [base |-> {}, draft |-> {"guard", "module"},
              redraft |-> {"guard", "module"}, committed |-> {"module"}]

MCTrees == DOMAIN MCHeadOf

(* The module declares persisted data, though its path does not say so.    *)
MCSurfacePaths == [schema |-> {}]
MCSurfaceTexts == [schema |-> {"module"}]

Test(file, order, names, about, wide) ==
  [file |-> file, order |-> order, vendored |-> FALSE, names |-> names,
   words |-> [schema |-> 3], about |-> [schema |-> about],
   wide |-> [schema |-> wide], mentions |-> [module |-> 1]]

(* A standing guard, another that cannot be started, a weaker one beyond   *)
(* the bound, a feature suite that happens to assert on the schema, and    *)
(* somebody else's tests.                                                  *)
Unstartable == Test("unstartable", 2, 4, 3, 1)
MCRepoTests ==
  {Test("standing", 1, 10, 5, 2), Unstartable, Test("weaker", 3, 10, 2, 1),
   Test("feature", 4, 66, 6, 1),
   [Test("installed", 5, 2, 2, 2) EXCEPT !.vendored = TRUE]}
MCGuardRefuses == {Unstartable}
=============================================================================
