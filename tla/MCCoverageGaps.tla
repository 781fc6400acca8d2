--------------------------- MODULE MCCoverageGaps ---------------------------
(***************************************************************************)
(* Model values for module CoverageGaps.                                   *)
(***************************************************************************)
EXTENDS CoverageGaps, TLC

Risk(key, names, restates, refers) ==
  [key |-> key, category |-> "k", names |-> names, restates |-> restates,
   structural |-> refers # {}, refers |-> refers, blocks |-> TRUE]

(* The second declares it restates a risk nobody registered; the third is  *)
(* worded as the second is and declared to restate the first.              *)
MCRegister == <<Risk("r1", {"a", "b"}, None, {"m"}), Risk("r2", {"a"}, "r0", {}),
                Risk("r3", {"a"}, "r1", {})>>

MCOperates == [t \in Tests |-> IF t = "catches" THEN {"guard"} ELSE {}]
MCMentions == [s \in Scripts |-> {"guard"}]

MCTrees == {[t \in Tests \union Scripts |-> IF t = "guard" THEN g ELSE c] :
              g \in 1..2, c \in 0..1}
MCFirstTree == [t \in Tests \union Scripts |-> IF t = "guard" THEN 1 ELSE 0]

-----------------------------------------------------------------------------
(* Operations.  Texts are named for what they tell.                        *)
Command(name, run, exit, contains, outcome, refusal, placeholders) ==
  [kind |-> "command", name |-> name, run |-> run, exit |-> exit,
   contains |-> contains, outcome |-> outcome, refusal |-> refusal,
   placeholders |-> placeholders, expandsApproved |-> TRUE]
StateCheck(name, run, contains, notContains) ==
  [kind |-> "state_check", name |-> name, run |-> run, contains |-> contains,
   notContains |-> notContains, placeholders |-> {}, expandsApproved |-> TRUE]
Request(status, contains) ==
  [kind |-> "request", status |-> status, contains |-> contains]

(* The battery is two commands of one name; the probe asks nothing; both   *)
(* are claimed to verify the risk, by a text only the battery declares.    *)
Regression ==
  [steps |-> <<>>,
   commands |-> <<Command("battery", "migrate", 0, {}, None, {}, {}),
                  Command("battery", "check", None, {"migrated"}, None, {}, {}),
                  Command("probe", "look", None, {}, None, {}, {})>>,
   requests |-> <<Request(200, {})>>, browser |-> None,
   states |-> <<StateCheck("rows", "select", {"row"}, {"orphan"})>>,
   mode |-> "backend", url |-> "app", services |-> {"api"}, readiness |-> {"http"},
   files |-> {"seed"}, visible |-> {"migrated"}, forbidden |-> {"traceback"},
   verifies |-> {[category |-> "k", checks |-> {"battery"},
                  observations |-> {"canonical"}],
                 [category |-> "k", checks |-> {"probe"}, observations |-> {}]}]

MCBase == [services |-> {"api"}, readiness |-> {"http"}, url |-> "app"]
MCApproved == {"migrate", "check", "submit"}

Generated(id, category, rank, actions) ==
  [id |-> id, key |-> id, category |-> category, rank |-> rank, replaces |-> FALSE,
   mode |-> "backend", setup |-> {}, services |-> {"api"}, actions |-> actions,
   states |-> <<>>, visible |-> {}, forbidden |-> {"traceback"}]

(* A refusal that must be reached, and survive a restart.                  *)
Recovery ==
  <<[kind |-> "fixture", fixture |-> "form"],
    Command(None, "submit", None, {}, "refused", {"not allowed"}, {"form"}),
    [kind |-> "restart_service", service |-> "api"],
    [kind |-> "parallel_requests", requests |-> <<Request(200, {"row"}), Request(409, {})>>]>>

(* What the operator sees, in a browser.                                   *)
Page == <<[kind |-> "browser", steps |-> <<[goto |-> TRUE, text |-> "total"]>>],
          [kind |-> "wait"]>>

P == <<"suite", 0, "regression">>
G == <<"suite", 1, "recovery">>
B == <<"suite", 2, "page">>
W == <<"suite", 3, "wave">>

MCPermanent == <<[id |-> P, key |-> P, scenario |-> Regression]>>
MCPlan == <<Generated(G, "g", 0, Recovery), Generated(B, "p", 1, Page)>>
MCWave == [c \in Covers |->
             Generated(W, c, 1, <<Command(None, "submit", None, {}, "permitted", {}, {})>>)]

-----------------------------------------------------------------------------
(* Worlds: everything is well, but for what the changes say.               *)
Exits(code, prints) ==
  [end |-> "exits", code |-> code, prints |-> prints, signature |-> FALSE]
TimesOut == [end |-> "times_out", code |-> 0, prints |-> {"not allowed"}, signature |-> FALSE]
Serves(status, prints) == [answered |-> TRUE, status |-> status, prints |-> prints]
Well(answers) ==
  [setup |-> <<Exits(0, {"canonical"})>>, files |-> {"seed"}, polls |-> <<{}, {"http"}>>,
   died |-> {}, raises |-> {}, answers |-> answers]

PWell == Well(<<Exits(0, {"canonical"}), Exits(0, {"migrated"}), Exits(0, {}),
                Serves(200, {}), Exits(1, {"row"})>>)
GWell == Well(<<[written |-> TRUE], Exits(2, {"not allowed"}), [polls |-> <<{"http"}>>],
                <<Serves(200, {"row"}), Serves(409, {})>>>>)
BWell == Well(<<[installed |-> TRUE, opens |-> TRUE, closes |-> TRUE, raises |-> {},
                 pages |-> [k \in 0..1 |-> {"total"}], console |-> {}], [x |-> 0]>>)

World(p, g, b) ==
  [of |-> (P :> p @@ G :> g @@ B :> b), budget |-> 9, unwritable |-> {}, records |-> <<>>]

(* The battery does not print what the claim requires; the setup does.     *)
Silent == World([PWell EXCEPT !.answers[1].prints = {}], GWell, BWell)
Measured == World(PWell, GWell, BWell)
(* The first battery command fails, the second does not, and the budget is *)
(* exhausted before the rest.                                              *)
Broken == [World([PWell EXCEPT !.answers[1].code = 1, !.answers[5].prints = {"orphan"},
                               !.files = {}], GWell, BWell) EXCEPT !.budget = 1]
(* Measured, but with nothing to show for it; or with a record another     *)
(* scenario's directory turns out to hold; and nothing measured.           *)
Unshown == [World(PWell, [GWell EXCEPT !.answers[2] = TimesOut],
                  [BWell EXCEPT !.answers[1].opens = FALSE]) EXCEPT !.unwritable = {P}]
Collides == [World(PWell, [GWell EXCEPT !.answers[1].written = FALSE, !.raises = {3}], BWell)
               EXCEPT !.records = (B :> P)]
Unready == World([PWell EXCEPT !.setup[1].code = 1], [GWell EXCEPT !.died = {"api"}],
                 [BWell EXCEPT !.answers[1].installed = FALSE])

GuardRun(passed, test) ==
  [reads |-> {"a", "b"}, passed |-> passed, executable |-> TRUE,
   negative |-> TRUE, control |-> TRUE, test |-> test]
Structure == [names |-> {"a", "b", "m"}, positive |-> TRUE, failing |-> TRUE]
Scan(status) == {[path |-> "m", status |-> status, control |-> TRUE]}

Meets(world) == [world |-> world, guards |-> <<>>, modules |-> {}, scan |-> {},
                 passedScripts |-> {}]

MCMeasurements ==
  {Meets(Silent),
   [Meets(Silent) EXCEPT !.guards = <<GuardRun(TRUE, None)>>],
   [Meets(Silent) EXCEPT !.guards = <<GuardRun(TRUE, Structure)>>, !.modules = {"m"},
                         !.scan = Scan("IMPORT_REACHABLE")],
   [Meets(Measured) EXCEPT !.guards = <<GuardRun(FALSE, None)>>],
   Meets(Measured),
   [Meets(Broken) EXCEPT !.scan = Scan("DARK"), !.modules = {"m"}],
   Meets(Unshown), Meets(Collides), Meets(Unready)}

MCWaveWorlds ==
  {[of |-> (W :> Well(<<answer>>)), budget |-> 9, unwritable |-> {}, records |-> <<>>] :
     answer \in {Exits(0, {}), Exits(1, {}), [Exits(1, {}) EXCEPT !.signature = TRUE]}}
=============================================================================
