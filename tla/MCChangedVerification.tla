----------------------- MODULE MCChangedVerification -----------------------
(***************************************************************************)
(* A small instance of ChangedVerification for TLC: two tests, a script    *)
(* and a guard the repository keeps; an uncommitted edit, another edit on  *)
(* the same commit, a commit that deletes a guard, and an edit of the      *)
(* product alone.                                                          *)
(***************************************************************************)
EXTENDS ChangedVerification

MCHeadOf == [base |-> "h0", draft |-> "h0", redraft |-> "h0",
             committed |-> "h1", product |-> "h0"]

MCTrees == DOMAIN MCHeadOf

MCDiff ==
  [base |-> [changed |-> {}, gone |-> {}, unproved |-> {}, related |-> {},
             product |-> FALSE],
   draft |-> [changed |-> {"a", "b", "script"}, gone |-> {}, unproved |-> {},
              related |-> {}, product |-> FALSE],
   redraft |-> [changed |-> {"b", "script"}, gone |-> {}, unproved |-> {"b"},
                related |-> {}, product |-> FALSE],
   committed |-> [changed |-> {"a", "b"}, gone |-> {"b"}, unproved |-> {},
                  related |-> {"kept"}, product |-> TRUE],
   product |-> [changed |-> {}, gone |-> {}, unproved |-> {}, related |-> {},
                product |-> TRUE]]

MCGuards == {"a", "b", "kept", "script"}

MCRank == [a |-> 1, b |-> 2, kept |-> 3, script |-> 4]

\* The script is declared in one of two ways, or not at all; the last
\* environment has no test runner either.
MCScript == [declared |-> "once", redeclared |-> "anew", silent |-> None, bare |-> None]

MCEnvironments == DOMAIN MCScript

MCCommand ==
  [e \in MCEnvironments |->
     [g \in MCGuards |-> IF g = "script" THEN MCScript[e] ELSE "pytest"]]
=============================================================================
