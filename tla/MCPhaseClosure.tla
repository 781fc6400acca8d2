--------------------------- MODULE MCPhaseClosure ---------------------------
(***************************************************************************)
(* Model values for module PhaseClosure: one criterion of each kind, all   *)
(* required, a registry that opens, states other demands, names none, or   *)
(* scores the phase, and the replies that tell the rules apart.            *)
(***************************************************************************)
EXTENDS PhaseClosure

Unit(state, result, next, needs, blocked) ==
  [state |-> state, result |-> result, next |-> next, needs |-> needs,
   blocked |-> blocked]

(* The unit before this one is accepted and unlocked it; this one unlocks  *)
(* the next.                                                               *)
MCUnits == [u \in Units |->
  CASE u = "before" -> Unit("COMPLETE", "PASS", {Phase}, {}, FALSE)
    [] u = Phase -> Unit("READY", "PENDING", {"after"}, {"before"}, FALSE)
    [] OTHER -> Unit("WAITING", "PENDING", {}, {Phase}, FALSE)]

Open == [declared |-> TRUE, bar |-> 0, landed |-> TRUE, residual |-> "NONE",
         plain |-> TRUE, units |-> MCUnits]

MCRegistries == {Open,
                 [Open EXCEPT !.bar = 1, !.units["after"].blocked = TRUE],
                 [Open EXCEPT !.declared = FALSE],
                 [Open EXCEPT !.plain = FALSE, !.units["after"].state = "READY"],
                 [Open EXCEPT !.units["before"].state = "READY",
                              !.residual = "DEBT"]}

Region0 == {Claim(Phase, "READY", "region"), Claim("after", "WAITING", "region"),
            Claim(Phase, "READY", "prose")}
Table == {Claim(Phase, "READY", "row"), Claim("after", "WAITING", "row"),
          Claim(Phase, "WAITING", "history")}
Story == {Claim(Phase, "READY", "row"), Claim(Phase, "PENDING", "prose")}
MCDocuments == {Region0, Story}

Answer(ordinary, review) ==
  [c \in Criteria |-> IF c \in Ordinary THEN ordinary
                      ELSE IF c \in ReviewOnes THEN review ELSE "PASS"]

Says(scores, class, shows, inherited) ==
  [scores |-> scores, class |-> class, shows |-> shows,
   inherited |-> inherited]

MCReplies ==
  {Says(Answer("PASS", "PASS"), None, {}, FALSE),
   Says(Answer("PASS", "FAIL"), "PRODUCT_DEFECT", Ordinary, FALSE),
   Says(Answer("FAIL", "CANNOT_DETERMINE"), None, {}, FALSE),
   Says(Answer("CANNOT_DETERMINE", "PASS"), "NONBLOCKING_DEBT", {}, FALSE),
   Says(Answer("UNREAD", "PASS"), None, {}, FALSE)}

(* A test that reads the whole record, one that reads the document, and    *)
(* one that is about neither.                                              *)
Test(file, order, mentions) ==
  [file |-> file, order |-> order, vendored |-> FALSE, names |-> 2,
   words |-> <<>>, about |-> <<>>, wide |-> <<>>, mentions |-> mentions]
MCRepoTests ==
  {Test("whole", 1, [registry |-> 2, doc |-> 1]), Test("status", 2, [doc |-> 3]),
   Test("product", 3, [code |-> 4])}
=============================================================================
