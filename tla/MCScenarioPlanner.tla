------------------------- MODULE MCScenarioPlanner -------------------------
(***************************************************************************)
(* A scenario plan of three scenarios: two of one blocking category, where *)
(* the second can replace the first, and one that replaces the second.     *)
(* The oracle they run is repaired: its text changes and so does what it   *)
(* prints; then a second oracle is found to be the one that prints it.     *)
(***************************************************************************)
EXTENDS ScenarioPlanner

MCIds == {"a", "b", "c", "d"}
MCCategory == [id \in MCIds |-> IF id = "d" THEN "retry_safety" ELSE "regression"]
MCRank == [id \in MCIds |-> IF id = "c" THEN 0 ELSE IF id = "d" THEN 2 ELSE 1]
MCDescribes == [id \in MCIds |-> IF id = "c" THEN "leak" ELSE "scope"]

-----------------------------------------------------------------------------
Argument(option, value) == [option |-> option, value |-> value]
Entry(name, text, tail, exits, prints, claims) ==
  [name |-> name, text |-> text, tail |-> tail, exits |-> exits,
   prints |-> prints, claims |-> claims]

MCTexts == {"old", "new", "other"}
MCTails == {<<>>, <<Argument("fault", "late")>>, <<Argument("fault", "bogus")>>}
MCCommands == [text : MCTexts, tail : MCTails]

Loopback == Target("http", "localhost")
Elsewhere == Target("http", "example.com")
Path == Target("path", "")

Repository(entries, prints, branch, services) ==
  [entries |-> entries,
   app |-> Loopback,
   services |-> services,
   scenarios |-> {[run |-> Of(e), visible |-> {}, inspects |-> FALSE] : e \in entries},
   output |-> [c \in MCCommands |-> prints[c.text]],
   silent |-> {},
   refusalBranch |-> branch,
   text |-> {"unknown fault"}]

Control(text) ==
  Entry("", text, <<Argument("fault", "bogus")>>, {2}, {"unknown fault"}, {"validation"})

NoBranch == [t \in {} |-> {}]

(* As written; with the oracle repaired under its name; with what it used  *)
(* to print now a second oracle's.                                         *)
MCOriginal ==
  Repository({Entry("check", "old", <<>>, {0}, {"held"}, {}), Control("old"),
              Entry("", "old", <<Argument("fault", "late")>>, {0}, {}, {})},
             [old |-> {"held"}, new |-> {}, other |-> {}], NoBranch, {"app"})
MCRepaired ==
  Repository({Entry("check", "new", <<>>, {0}, {"kept"}, {}), Control("new")},
             [old |-> {"held"}, new |-> {"kept"}, other |-> {}], NoBranch, {"app"})
MCMoved ==
  Repository({Entry("check", "old", <<>>, {0}, {"kept"}, {}),
              Entry("second", "other", <<>>, {0}, {"held", "spare"}, {})},
             [old |-> {"kept"}, new |-> {}, other |-> {"held", "spare"}], NoBranch, {})
MCRepositories == {MCOriginal, MCRepaired, MCMoved}

-----------------------------------------------------------------------------
Plain ==
  [run |-> Command("old", <<>>), exit |-> 0, outcome |-> "none",
   expects |-> {"held"}, observes |-> {"held"}, evidence |-> {}, requires |-> {},
   source |-> "", cited |-> Uncited, extra |-> <<>>,
   owned |-> {}, owner |-> "", repaired |-> FALSE,
   acts |-> {}, services |-> {}, inspects |-> FALSE]

(* What each proposal says of itself; the second was not in the task's     *)
(* scope before the first was held.                                        *)
Candidate(id, body, replaces) ==
  [id |-> id, readable |-> TRUE, body |-> body, replaces |-> replaces,
   requirement |-> "unit", principle |-> "rubric", because |-> TRUE,
   restores |-> TRUE, mentions |-> {}, scoped |-> id # "b",
   cites |-> {<<"regression", "scope">>},
   answers |-> IF id = "c" THEN {"a"} ELSE {"anchor"}]
Unreadable(id) == [Candidate(id, Plain, {}) EXCEPT !.readable = FALSE]
Answer(candidates, risks) == [candidates |-> candidates, risks |-> risks]

CitesCheck == [Plain EXCEPT !.cited = Command("old", <<>>)]
WithArgument ==
  [CitesCheck EXCEPT !.run = Command("old", <<Argument("fault", "late")>>),
                     !.extra = <<Argument("fault", "late")>>, !.outcome = "permitted"]
Refuses == [CitesCheck EXCEPT !.run = Command("old", <<Argument("fault", "bogus")>>)]

Spare == [CitesCheck EXCEPT !.expects = {"spare"}, !.observes = {"spare"}]

(* A proposal that restarts the product and asks it, and what is wrong with*)
(* each of those before it in the same answer.                             *)
Ask(url, path) == [kind |-> "request", url |-> url, path |-> path]
Visit(goto) == [kind |-> "browser", goto |-> goto]
Restart(service) == [kind |-> "service", service |-> service]
Fixture(what) == [kind |-> "fixture", file |-> what]
Wait(bounded) == [kind |-> "wait", bounded |-> bounded]

Asks ==
  [CitesCheck EXCEPT !.outcome = "permitted", !.services = {"app"}, !.inspects = TRUE,
                     !.acts = {Restart("app"), Ask(Nowhere, Path), Ask(Loopback, Nowhere),
                               Visit(Path), Visit(Loopback), Fixture("data"), Wait(TRUE)}]
Good == Candidate("d", Asks, {})
Doing(act) == Candidate("d", [Asks EXCEPT !.acts = {act}], {})

Unsafe ==
  << Doing(Ask(Elsewhere, Nowhere)), Doing(Ask(Loopback, Path)), Doing(Ask(Nowhere, Elsewhere)),
     Doing(Visit(Elsewhere)), Doing(Visit(Target("double", ""))), Doing(Restart("other")),
     Doing(Fixture("program")), Doing(Wait(FALSE)),
     Candidate("d", [Asks EXCEPT !.services = {"app", "other"}], {}),
     Candidate("d", [Asks EXCEPT !.run = Command("unknown", <<>>)], {}),
     [Good EXCEPT !.mentions = {"credential"}] >>

Idle ==
  << [Good EXCEPT !.requirement = "invented"], [Good EXCEPT !.principle = "invented"],
     [Good EXCEPT !.because = FALSE], [Good EXCEPT !.restores = FALSE],
     [Good EXCEPT !.body.inspects = FALSE],
     [Candidate("b", CitesCheck, {}) EXCEPT !.body.observes = {}],
     Good, [Good EXCEPT !.body.source = "second"] >>

MCAnswers ==
  { Answer(<<>>, {}),
    Answer(<<Candidate("a", CitesCheck, {})>>, {}),
    Answer(<<Candidate("a", Refuses, {})>>, {Risk("regression", "scope", 2)}),
    Answer(<<Candidate("a", WithArgument, {}), Candidate("c", Spare, {})>>,
           {Risk("regression", "drift", 2)}),
    Answer(<<Candidate("b", CitesCheck, {"a"})>>, {}),
    Answer(<<Candidate("c", CitesCheck, {"b"})>>, {}),
    Answer(<<Unreadable("b")>>, {}),
    Answer(Unsafe \o Idle, {}) }
=============================================================================
