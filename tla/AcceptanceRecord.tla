-------------------------- MODULE AcceptanceRecord --------------------------
(***************************************************************************)
(* The acceptance record a closure may write                               *)
(* (neyma_product_driver/acceptance_record.py, acceptance_commit.py, and   *)
(* the status regions of status_authority.py): what the repository itself  *)
(* shows of how an accepted unit looks, the change of its registry that    *)
(* follows from it, and the documents that restate the registry.           *)
(*                                                                         *)
(* A registry maps each unit to its state, the result of its required      *)
(* criteria, the units it unlocks, the units it needs and whether it has   *)
(* open blockers.  A document is a set of claims, each of a unit, a token  *)
(* and the form it is written in: a row of a marked region, a row of any   *)
(* other table, a sentence, or history.                                    *)
(***************************************************************************)
EXTENDS Naturals, FiniteSets

CONSTANTS
  Units,          \* the units the registry declares
  Phase           \* the one that is being accepted

ASSUME RecordAssumption == Phase \in Units

Tokens == {"COMPLETE", "ACCEPTED", "READY", "WAITING"}
Results == {"PENDING", "PASS", "FAIL"}
Forms == {"region", "row", "prose", "history"}

UnitType ==
  [state : Tokens, result : Results, next : SUBSET Units,
   needs : SUBSET Units, blocked : BOOLEAN]

AcceptedStates == {"COMPLETE", "ACCEPTED"}
IsAccepted(units, u) == units[u].state \in AcceptedStates

ClaimType == [unit : Units, token : Tokens \union Results, form : Forms]

Claim(u, token, form) == [unit |-> u, token |-> token, form |-> form]

-----------------------------------------------------------------------------
(***************************************************************************)
(* What an acceptance looks like here.                                     *)
(***************************************************************************)
Exemplars(units) == {u \in Units \ {Phase} : IsAccepted(units, u)}

StateVotes(units) == {units[u].state : u \in Exemplars(units)}

(* The criteria are scored as in the unit this one follows, if there is    *)
(* one, else as in all of them.                                            *)
PassTokens(units) ==
  LET before == {u \in Exemplars(units) : Phase \in units[u].next}
  IN {units[u].result : u \in IF before # {} THEN before ELSE Exemplars(units)}

(* What an accepted unit's successors are called while they are not.       *)
SuccessorTokens(units) ==
  {units[s].state : s \in {t \in Units :
     /\ ~IsAccepted(units, t)
     /\ \E u \in Exemplars(units) : t \in units[u].next}}

(* derive_convention: stated if every vote agrees.                         *)
StatesConvention(units) ==
  /\ Cardinality(StateVotes(units)) = 1
  /\ Cardinality(PassTokens(units)) = 1

Only(votes) == CHOOSE v \in votes : TRUE

-----------------------------------------------------------------------------
(***************************************************************************)
(* The registry's edits.                                                   *)
(***************************************************************************)
(* _plan_successor: a unit this one unlocks is advanced when the           *)
(* repository has one word for it and nothing else holds the unit back.    *)
Advanced(units) ==
  IF Cardinality(SuccessorTokens(units)) # 1 THEN {}
  ELSE {s \in units[Phase].next :
          /\ ~IsAccepted(units, s)
          /\ \A d \in units[s].needs : d = Phase \/ IsAccepted(units, d)
          /\ ~units[s].blocked}

RecordedUnits(units) ==
  [u \in Units |->
     IF u = Phase
     THEN [units[u] EXCEPT !.state = Only(StateVotes(units)),
                           !.result = Only(PassTokens(units))]
     ELSE IF u \in Advanced(units)
     THEN [units[u] EXCEPT !.state = Only(SuccessorTokens(units))]
     ELSE units[u]]

(* _facts_from_edits: the tokens this acceptance moves, unit by unit.      *)
Fact(u, before, after) == [unit |-> u, before |-> before, after |-> after]
Facts(before, after) ==
  {f \in {Fact(u, before[u].state, after[u].state) : u \in Units}
         \union {Fact(Phase, before[Phase].result, after[Phase].result)} :
     f.before # f.after}

-----------------------------------------------------------------------------
(***************************************************************************)
(* The documents that restate it.                                          *)
(***************************************************************************)
Region(doc) == {c \in doc : c.form = "region"}

(* bounded_live_projection: a marked region whose every row says what the  *)
(* registry says.                                                          *)
Projects(doc, units) ==
  /\ Region(doc) # {}
  /\ \A c \in Region(doc) : c.token = units[c.unit].state

(* What a document says now; outside its region a projection narrates.     *)
LiveClaims(doc, units) ==
  IF Projects(doc, units) THEN Region(doc)
  ELSE {c \in doc : c.form # "history"}

Stale(doc, units, facts) ==
  {c \in LiveClaims(doc, units) :
     \E f \in facts : f.unit = c.unit /\ f.before = c.token}

(* reconcile_restatement: what is not a status cell of a row of its own    *)
(* cannot be moved by a machine, and stays stale.                          *)
Movable(c) == c.form # "prose"

(* A faulty variant: a sentence is left as it is and nobody is told.       *)
NothingStuck(doc, units, facts) == {}

Stuck(doc, units, facts) == {c \in Stale(doc, units, facts) : ~Movable(c)}

(* _plan_restatements: a projection is rendered anew; elsewhere the stale  *)
(* rows are moved, all of them or none.                                    *)
Restated(doc, units, facts, after) ==
  IF Projects(doc, units)
  THEN {IF c.form = "region" THEN [c EXCEPT !.token = after[c.unit].state]
        ELSE c : c \in doc}
  ELSE IF Stuck(doc, units, facts) # {} THEN doc
  ELSE {IF Movable(c) /\ c \in Stale(doc, units, facts)
        THEN [c EXCEPT !.token =
                (CHOOSE f \in facts : f.unit = c.unit /\ f.before = c.token).after]
        ELSE c : c \in doc}

(* Whether what a document says of the registry is so (DeclaredRow).       *)
Agrees(doc, units) ==
  \A c \in LiveClaims(doc, units) :
     c.token \in {units[c.unit].state}
                 \union (IF c.unit = Phase THEN {units[c.unit].result} ELSE {})
=============================================================================
