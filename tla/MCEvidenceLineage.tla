-------------------------- MODULE MCEvidenceLineage --------------------------
(***************************************************************************)
(* A small instance of EvidenceLineage for TLC: a check that imports a     *)
(* library in one of its versions and not in the other.                    *)
(***************************************************************************)
EXTENDS EvidenceLineage, TLC

CONSTANTS check, lib, one, two, whole, alone, selected, generated

MCPaths == {check, lib}

MCContents == {one, two}

Tree(c, l) == check :> c @@ lib :> l

\* The library is edited under a check that imports it, and removed beside one
\* that does not.
MCTrees == {Tree(one, one), Tree(one, two), Tree(two, one), Tree(two, Absent)}

MCFirstTree == Tree(one, one)

MCLitter == {Tree(one, two)}

MCNeighbours == selected :> {generated} @@ generated :> {generated}

MCFirstDefinition == selected :> whole @@ generated :> whole

MCRuns == whole :> {check} @@ alone :> {lib}

MCMentions == whole :> {} @@ alone :> {}

MCImports ==
  [f \in MCPaths \X MCContents |-> IF f = <<check, one>> THEN {lib} ELSE {}]

MCLiterals == [f \in MCPaths \X MCContents |-> {}]
=============================================================================
