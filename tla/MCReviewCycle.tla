--------------------------- MODULE MCReviewCycle ---------------------------
(***************************************************************************)
(* A small instance of ReviewCycle for TLC.  The repository declares an    *)
(* oracle for its test suite and one for a state check; a probe is         *)
(* approved and has none.                                                  *)
(***************************************************************************)
EXTENDS ReviewCycle

Quiet == [nested |-> FALSE, ruleStated |-> TRUE, phaseRequested |-> FALSE,
          criterionPending |-> TRUE, highRisk |-> FALSE, warranted |-> FALSE,
          auditAsks |-> FALSE]

\* A task that owes nothing beside one nested unit under a stated rule.
MCSituations == {Quiet, [Quiet EXCEPT !.nested = TRUE]}

Plain == [direct |-> "none", owns |-> FALSE, computed |-> FALSE,
          decodes |-> FALSE, piped |-> FALSE, evals |-> FALSE,
          inline |-> {}, substituted |-> {}, encoded |-> {},
          interprets |-> FALSE, code |-> "none", control |-> FALSE,
          unbalanced |-> FALSE, composed |-> FALSE, mutates |-> FALSE,
          redirects |-> FALSE, path |-> "plain", head |-> "other",
          readOnly |-> FALSE, approved |-> FALSE, begins |-> {}, length |-> 1]

MCText == [t \in Texts |->
  CASE t = "suite" -> [Plain EXCEPT !.head = "pytest"]
    [] t = "suite one" -> [Plain EXCEPT !.head = "pytest", !.begins = {"suite"},
                                        !.length = 2]
    [] t = "probe" -> [Plain EXCEPT !.approved = TRUE]
    [] t = "state" -> [Plain EXCEPT !.head = "reader", !.readOnly = TRUE]
    [] t = "publish" -> [Plain EXCEPT !.direct = "forbidden"]
    [] t = "wrapped" -> [Plain EXCEPT !.inline = {"publish"}, !.approved = TRUE]
    [] OTHER -> [Plain EXCEPT !.mutates = TRUE]]

MCChecks == <<
  [text |-> "suite", state |-> FALSE, code |-> {0}, contains |-> {"passed"}, absent |-> {}],
  [text |-> "state", state |-> TRUE, code |-> {}, contains |-> {}, absent |-> {"pending"}]>>

Response(shape, code, exit, completed, output) ==
  [shape |-> shape, code |-> code, exit |-> exit, completed |-> completed,
   output |-> output, isError |-> FALSE, interrupted |-> ~completed]

\* Each with whether it comes through the failure hook.
Responses == {
  <<Response("dict", {0}, 0, TRUE, {"passed"}), FALSE>>,
  <<Response("text", {}, 0, TRUE, {"pending"}), FALSE>>,
  <<Response("dict", {1}, 1, TRUE, {"passed"}), FALSE>>,
  <<Response("unreadable", {}, 1, TRUE, {}), TRUE>>,
  <<Response("dict", {}, 0, FALSE, {"passed"}), FALSE>>}

Asks(tool, text, id) == [what |-> "asks", tool |-> tool, text |-> text, id |-> id]
Answers(ask, k, r) ==
  [what |-> "answers", tool |-> ask.tool, text |-> ask.text, id |-> ask.id,
   asked |-> k, response |-> r[1], failed |-> r[2]]

\* One or two commands, side by side or one after the other, with the ids of
\* their tool uses or without.
Pairs(a, b) ==
  UNION {{<<a, b, Answers(a, 1, r), Answers(b, 2, s)>>,
          <<a, b, Answers(b, 2, s), Answers(a, 1, r)>>,
          <<a, Answers(a, 1, r), b, Answers(b, 3, s)>>,
          <<a, b, Answers(b, 2, s)>>} : r \in Responses, s \in Responses}

MCTranscripts ==
  UNION {Pairs(Asks("Bash", t, i), Asks("Bash", u, 2 * i)) :
           t \in {"suite", "probe", "state"},
           u \in {"suite one", "probe", "state"}, i \in {0, 1}}
  \union {<<>>, <<Asks("Read", "state", 0)>>, <<Asks("Write", "edit", 0)>>,
          <<Asks("Bash", "edit", 0), Asks("Bash", "wrapped", 0)>>,
          <<Asks("Bash", "publish", 0), Asks("Bash", "state", 0),
            Asks("Bash", "state", 0), Asks("Bash", "suite", 0)>>}

NoneDeclared == [t \in Texts |-> NoOracle]
Easy == [NoneDeclared EXCEPT !["suite"] = Oracle(TRUE, {1}, {}, {}),
                             !["probe"] = Oracle(TRUE, {}, {"passed"}, {})]

Says(verdict, blocker, findings) ==
  [verdict |-> verdict, blocker |-> blocker, findings |-> findings,
   session |-> "reviewer", claims |-> TRUE, oracles |-> Easy,
   ends |-> "structured", valid |-> TRUE]

Cited == {[severity |-> "major", cites |-> TRUE]}
Opinion == {[severity |-> "blocker", cites |-> FALSE]}

MCReplies ==
  LET supports == Says("SUPPORTED", "NONE", {})
      refuses == Says("NOT_SUPPORTED", "PRODUCT_DEFECT", Cited)
  IN {supports, refuses,
      [supports EXCEPT !.session = "builder"],
      [supports EXCEPT !.claims = FALSE, !.oracles = NoneDeclared],
      [refuses EXCEPT !.ends = "timeout"],
      [supports EXCEPT !.ends = "text", !.valid = FALSE],
      Says("NOT_SUPPORTED", "NONE", Opinion),
      Says("INSUFFICIENT_EVIDENCE", "VERIFICATION_HARNESS", Opinion),
      Says("INSUFFICIENT_EVIDENCE", "PRODUCT_DEFECT", Cited),
      Says("INSUFFICIENT_EVIDENCE", "REPOSITORY_AUTHORITY", Cited),
      Says("NOT_SUPPORTED", "EXTERNAL_ACTION", {})}
=============================================================================
