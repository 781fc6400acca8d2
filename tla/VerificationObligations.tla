---------------------- MODULE VerificationObligations ----------------------
(***************************************************************************)
(* The gaps in a run's verification that are routed to the builder by      *)
(* identity, and what answers them (neyma_product_driver/                  *)
(* verification_obligations.py).                                           *)
(*                                                                         *)
(* An obligation speaks for the wordings of one risk.  Each routing opens  *)
(* a window on the tree it was made on; the next tree that is judged       *)
(* closes it and binds the tests that moved in between.  The driver runs   *)
(* the bound tests itself, once for a tree and a command.                  *)
(*                                                                         *)
(* A tree is a function from the tests and the executable checks to a      *)
(* version, 0 when there is none.  Names are read as the code reads them:  *)
(* NamedControls are the tests whose names mark a control, Operates says   *)
(* which tests the body of a test invokes, Mentions which a battery names. *)
(***************************************************************************)
EXTENDS Naturals, Sequences, FiniteSets, SequencesExt

CONSTANTS
  Tests, NamedControls, Operates,  \* the collected tests
  Scripts, Mentions,               \* the executable checks
  None

ASSUME ObligationsAssumption ==
  /\ NamedControls \subseteq Tests
  /\ Operates \in [Tests -> SUBSET Tests]
  /\ Mentions \in [Scripts -> SUBSET Tests]
  /\ Tests \intersect Scripts = {}

Present(tree) == {t \in DOMAIN tree : tree[t] > 0}

(* What moved between two trees and is still there.                        *)
Moved(from, to) == {t \in Present(to) : from[t] # to[t]}

-----------------------------------------------------------------------------
(* A risk names subjects under a category; a later wave may declare that   *)
(* it restates an earlier one, and refers to modules (module ScenarioGate).*)

IsRisk(r) ==
  r = [key |-> r.key, category |-> r.category, names |-> r.names,
       restates |-> r.restates, structural |-> r.structural, refers |-> r.refers,
       blocks |-> r.blocks]

(* obligation_identity *)
Identity(risk) == IF risk.names = {} THEN None ELSE <<risk.category, risk.names>>

(* _lineage_key *)
LineageKey(risk) == IF risk.restates # None THEN risk.restates ELSE risk.key

(* _resolve_lineage: a declared restatement is kept if what it names is    *)
(* registered, of the same category, and what the rewording names is named *)
(* there; then it is one of the root of the chain.                         *)
Resolved(risk, register) ==
  LET parents == {r \in ToSet(register) : r.key = risk.restates}
      roots == {r \in ToSet(register) : \E p \in parents : r.key = LineageKey(p)}
      lawful == {r \in roots : r.category = risk.category /\ risk.names \subseteq r.names}
  IN [risk EXCEPT !.restates = IF lawful = {} THEN None ELSE (CHOOSE r \in lawful : TRUE).key]

(* _merge_risks: what is registered word for word adds nothing.            *)
Merged(register, risk) ==
  IF \E i \in DOMAIN register : register[i].key = risk.key THEN register
  ELSE Append(register, Resolved(risk, register))

SameObligation(risk, other) ==
  \/ LineageKey(other) = LineageKey(risk)
  \/ Identity(risk) # None /\ Identity(other) = Identity(risk)

(* obligation_group *)
Group(risk, register) ==
  {risk} \union {register[i] : i \in
                   {j \in DOMAIN register : SameObligation(risk, register[j])}}

KeysOf(risks) == {r.key : r \in risks}

Window(tree) == [routed |-> tree, answered |-> None, moved |-> {}]

Opened(risk, keys) ==
  [keys |-> keys, category |-> risk.category, names |-> risk.names,
   windows |-> <<>>, executions |-> <<>>]

(* find_obligation: the first that speaks for the risk.                    *)
FindObligation(obligations, key) ==
  LET found == {i \in DOMAIN obligations : key \in obligations[i].keys}
  IN IF found = {} THEN 0 ELSE CHOOSE i \in found : \A j \in found : i <= j

Extended(o, keys) == [o EXCEPT !.keys = @ \union keys]

(* route: the first obligation that shares a key is extended, otherwise    *)
(* one is opened.  A window that is still open on the same tree is the     *)
(* same request.                                                           *)
Reopened(o, tree) ==
  LET last == o.windows[Len(o.windows)]
  IN IF o.windows # <<>> /\ last.answered = None /\ last.routed = tree
     THEN o ELSE [o EXCEPT !.windows = Append(@, Window(tree))]

Route(obligations, risk, register, tree) ==
  LET keys == KeysOf(Group(risk, register))
      sharing == {i \in DOMAIN obligations : obligations[i].keys \intersect keys # {}}
      first == CHOOSE i \in sharing : \A j \in sharing : i <= j
  IN IF sharing = {}
     THEN Append(obligations, Reopened(Opened(risk, keys), tree))
     ELSE [obligations EXCEPT ![first] =
             Reopened(Extended(@, keys), tree)]

(* A faulty variant: the category of a wording is enough.                  *)
AdoptByCategory(o, register) ==
  [o EXCEPT !.keys = @ \union {r.key : r \in
      {register[i] : i \in {j \in DOMAIN register :
                               register[j].category = o.category}}}]

(* adopt_wordings: a declared restatement of a key, then an equal set of   *)
(* subjects under the same category.                                       *)
Adopt(o, register) ==
  LET risks == {register[i] : i \in DOMAIN register}
      restated == {r \in risks : r.restates \in o.keys}
      worded == {r \in risks : /\ o.names # {}
                              /\ Identity(r) = <<o.category, o.names>>}
  IN Extended(o, KeysOf(restated) \union KeysOf(worded))

(* A faulty variant: every window is measured again on the judged tree.    *)
AnswerAgain(window, tree, readable) ==
  IF window.routed = tree THEN window
  ELSE [window EXCEPT !.answered = tree,
                      !.moved = IF readable THEN Moved(window.routed, tree) ELSE {}]

(* answer: an open window is closed by the first other tree.  What cannot  *)
(* be compared binds nothing and closes it too.                            *)
Answer(window, tree, readable) ==
  IF window.answered # None \/ window.routed = tree THEN window
  ELSE [window EXCEPT !.answered = tree,
                      !.moved = IF readable THEN Moved(window.routed, tree) ELSE {}]

Answered(o, tree, readable) ==
  [o EXCEPT !.windows = [i \in DOMAIN @ |-> Answer(@[i], tree, readable)]]

-----------------------------------------------------------------------------
(* bound_tests and bound_scripts *)
Bound(o) == UNION {o.windows[i].moved : i \in DOMAIN o.windows}
BoundTests(o) == Bound(o) \intersect Tests
BoundScripts(o) == Bound(o) \intersect Scripts

(* bound_nodes: what is bound and still there.                             *)
BoundNodes(o, tree) == BoundTests(o) \intersect Present(tree)

(* What a run of some nodes can report: each passes, fails, or is skipped  *)
(* or not reported; or nothing reached an assertion.                       *)
RunResults(nodes) ==
  {[passed |-> nodes \ (failed \union skipped), failed |-> failed,
    infrastructure |-> FALSE] : failed, skipped \in SUBSET nodes}
  \union {[passed |-> {}, failed |-> {}, infrastructure |-> TRUE]}

Executed(o, tree) ==
  \E i \in DOMAIN o.executions :
     /\ o.executions[i].tree = tree
     /\ o.executions[i].nodes = BoundNodes(o, tree)

(* execute: once per tree and command, and only with nodes and a runner.   *)
Executes(o, tree, runner) ==
  /\ runner
  /\ BoundNodes(o, tree) # {}
  /\ ~Executed(o, tree)

Executions(o, tree, runner) ==
  IF ~Executes(o, tree, runner) THEN {o}
  ELSE {[o EXCEPT !.executions = Append(@,
           [tree |-> tree, nodes |-> BoundNodes(o, tree), result |-> r])] :
              r \in RunResults(BoundNodes(o, tree))}

-----------------------------------------------------------------------------
(***************************************************************************)
(* bound_evidence.                                                         *)
(***************************************************************************)
Here(o, tree) == {i \in DOMAIN o.executions : o.executions[i].tree = tree}
LastHere(o, tree) ==
  o.executions[CHOOSE i \in Here(o, tree) : \A j \in Here(o, tree) : j <= i].result

(* Which bound nodes are controls: by their names, and when every name     *)
(* says so, by what their bodies operate.                                  *)
ControlsAmong(nodes) ==
  LET operators == {t \in nodes : Operates[t] \intersect (nodes \ {t}) # {}}
  IN IF nodes \subseteq NamedControls /\ operators # {} /\ operators # nodes
     THEN operators ELSE nodes \intersect NamedControls

(* A bound guard that something bound in the same answers can turn red.    *)
Discriminated(o, tree, passedScripts) ==
  LET nodes == BoundNodes(o, tree)
      controls == ControlsAmong(nodes)
  IN {g \in nodes \ controls :
        \/ \E c \in controls : g \in Operates[c]
        \/ \E s \in BoundScripts(o) \intersect passedScripts : g \in Mentions[s]}

BoundVerdict(o, tree, passedScripts) ==
  LET ran == Here(o, tree) # {} /\ BoundTests(o) # {}
      result == LastHere(o, tree)
      refuted == ran /\ ~result.infrastructure /\ result.failed # {}
  IN [refuted |-> refuted,
      guards |-> IF /\ ran
                    /\ ~result.infrastructure
                    /\ ~refuted
                    /\ BoundNodes(o, tree) \subseteq result.passed
                 THEN Discriminated(o, tree, passedScripts) ELSE {}]

Discharges(verdict) == verdict.guards # {}
=============================================================================
