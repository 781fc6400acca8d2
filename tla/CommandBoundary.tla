-------------------------- MODULE CommandBoundary --------------------------
(***************************************************************************)
(* What a reviewing session may do (neyma_product_driver/command_guard.py  *)
(* and reviewer_boundary.py): the guard every command passes, the floor    *)
(* and the read-only vocabulary of the reviewer, and the tools beside the  *)
(* shell.                                                                  *)
(*                                                                         *)
(* A command text is a name; Text[t] holds what the patterns of the two    *)
(* files tell of it.  A payload inside it is a text of its own.            *)
(***************************************************************************)
EXTENDS Naturals, FiniteSets

CONSTANTS
  Texts,           \* the command texts a reviewer may write
  Text,            \* what the patterns tell of each
  MaxIndirection,  \* _MAX_INDIRECTION_DEPTH
  MaxCommands,     \* review.reviewer_max_commands; 0 is no limit
  HasVocabulary    \* the policy was given the approved commands

Heads == {"none", "git", "reader", "pytest", "python", "added", "other"}

CommandType ==
  [direct : {"none", "forbidden", "history", "github"},
   owns : BOOLEAN,               \* it moves a ref or replaces the worktree
   computed : BOOLEAN,           \* its name is computed
   decodes : BOOLEAN, piped : BOOLEAN, evals : BOOLEAN,
   inline : SUBSET Texts,        \* what -c and -e hand an interpreter
   substituted : SUBSET Texts,
   encoded : SUBSET Texts,       \* what its base64 fragments decode to
   interprets : BOOLEAN, code : {"none", "effect", "inlineOnly"},
   control : BOOLEAN, unbalanced : BOOLEAN, composed : BOOLEAN,
   mutates : BOOLEAN,            \* a family of _HARD_DENIALS
   redirects : BOOLEAN,
   path : {"plain", "secret", "control"},  \* the paths it names
   head : Heads, readOnly : BOOLEAN,
   approved : BOOLEAN, begins : SUBSET Texts, length : Nat]

(***************************************************************************)
(* The guard.                                                              *)
(***************************************************************************)
(* _direct_reason *)
Direct(c) == c.direct # "none"

(* _code_reason of an inline payload: the effects, and what only an inline *)
(* payload is refused for.                                                 *)
CodeReason(c) == c.code # "none"

(* _inline_payloads, _substitutions and _decode_base64_fragments *)
Payloads(c) ==
  c.inline \union c.substituted
  \union (IF c.decodes \/ c.evals THEN c.encoded ELSE {})

(* classify_command: direct, then through every indirection it can see.    *)
GuardRefuses[depth \in 0..MaxIndirection, t \in Texts] ==
  LET c == Text[t]
  IN \/ Direct(c)
     \/ c.computed
     \/ /\ depth < MaxIndirection
        /\ \/ c.decodes /\ c.piped
           \/ \E p \in Payloads(c) \ {t} :
                CodeReason(Text[p]) \/ GuardRefuses[depth + 1, p]
           \/ c.interprets /\ CodeReason(c)

(* classify_worktree_ownership, without an authorised amendment *)
MovesWorktree(t) == Text[t].owns

-----------------------------------------------------------------------------
(***************************************************************************)
(* The reviewer's policy.                                                  *)
(***************************************************************************)
(* _floor_reason: no vocabulary waives it.                                 *)
Floored(t) == Text[t].mutates \/ Text[t].redirects \/ Text[t].path # "plain"

(* _read_only_reason: a reading git subcommand without a writing option, a *)
(* test run, or a reader without its writing option.                       *)
ReadsOnly(t) ==
  \/ (Text[t].head \in {"git", "python", "reader"} /\ Text[t].readOnly)
  \/ Text[t].head \in {"pytest", "added"}

(* ApprovedCommands.approves, of a text the guard and the composition test *)
(* have let through: as written, or an approved text and an argument tail. *)
InVocabulary(t) ==
  /\ ~Text[t].control
  /\ \E a \in {t} \union Text[t].begins : Text[a].approved

(* ReviewerCommandPolicy.decide: the layer that refuses, or "allowed".     *)
Decide(t, allowedSoFar) ==
  IF Text[t].head = "none" THEN "composition"
  ELSE IF MaxCommands > 0 /\ allowedSoFar >= MaxCommands THEN "budget"
  ELSE IF GuardRefuses[0, t] \/ MovesWorktree(t) THEN "guard"
  ELSE IF Text[t].unbalanced \/ Text[t].composed THEN "composition"
  ELSE IF Floored(t) THEN "reviewer-floor"
  ELSE IF ReadsOnly(t) \/ (HasVocabulary /\ InVocabulary(t)) THEN "allowed"
  ELSE "vocabulary"

(***************************************************************************)
(* classify_reviewer_tool: the shell is the policy's to judge, if there is *)
(* one; three tools read, and read no secret; no other tool is a           *)
(* reviewer's.                                                             *)
(***************************************************************************)
ReadingTools == {"Read", "Grep", "Glob"}
ToolAllowed(tool, t, executes, allowedSoFar) ==
  \/ (tool = "Bash" /\ executes /\ Decide(t, allowedSoFar) = "allowed")
  \/ (tool \in ReadingTools /\ Text[t].path # "secret")

(* classify_verification_kind: a repository reader proves structure, any   *)
(* other head ran the product.                                             *)
Kind(t) == IF Text[t].head \in {"none", "git", "reader"}
           THEN "STRUCTURAL" ELSE "RUNTIME"
=============================================================================
