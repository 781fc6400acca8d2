------------------------ MODULE ChangedVerification ------------------------
(***************************************************************************)
(* Operating the verification a diff changed                               *)
(* (neyma_product_driver/changed_verification.py and the step of the       *)
(* driver's loop that calls it, _changed_surface_verification in cli.py).  *)
(*                                                                         *)
(* A change that edits guards (tests, declared verification scripts) owes  *)
(* an observation of each.  They are operated in bounded passes: a pass    *)
(* carries what this very tree has answered already, executes the next few *)
(* that are owed and is persisted before the next one starts.  The record  *)
(* is held across iterations and restarts, and overrides the evaluator.    *)
(* Module ControlLoop sees the whole step as one measurement with one      *)
(* answer; here the answer is built guard by guard.                        *)
(*                                                                         *)
(* A working tree is a model value: commit and content.  What the driver's *)
(* surroundings supply, the test runner and the invocations somebody       *)
(* declared for scripts, is an environment, which may change at any turn.  *)
(* What an execution answers is nondeterministic.                          *)
(***************************************************************************)
EXTENDS Naturals, FiniteSets

CONSTANTS
  Trees,          \* the working trees the builder can leave
  FirstTree,      \* the one the run starts on
  HeadOf,         \* the commit a tree stands on
  Diff,           \* what a tree changed since the task began
  Guards,         \* verification files
  Rank,           \* the order of their paths, in which git lists them
  Environments,   \* what surrounds the driver
  HasRunner,      \* the environments in which a test runner is found
  Commands,       \* exact invocations
  Command,        \* how an environment runs a guard, None if nothing says so
  None,           \* no record, no command
  MaxChanged,     \* config.changed_verification.max_changed_guards
  MaxRelated,     \* config.changed_verification.max_related_guards
  MaxIterations,  \* config.max_iterations
  MaxProcesses    \* bound of the model: the first process and its resumes

(***************************************************************************)
(* A diff: the guards it edits, those of them it deletes, those that       *)
(* assert an absence nothing shows they can still detect, the repository's *)
(* own guards over the other files, and whether it touches product files.  *)
(***************************************************************************)
ASSUME ChangedAssumption ==
  /\ FirstTree \in Trees
  /\ Diff \in [Trees -> [changed : SUBSET Guards, gone : SUBSET Guards,
                         unproved : SUBSET Guards, related : SUBSET Guards,
                         product : BOOLEAN]]
  /\ \A t \in Trees : /\ Diff[t].gone \subseteq Diff[t].changed
                      /\ Diff[t].related \cap Diff[t].changed = {}
                      /\ Cardinality(Diff[t].related) <= MaxRelated
  /\ Rank \in [Guards -> Nat]
  /\ \A g, h \in Guards : Rank[g] = Rank[h] => g = h
  /\ IsFiniteSet(Guards)
  /\ HasRunner \subseteq Environments
  /\ None \notin Commands
  /\ Command \in [Environments -> [Guards -> Commands \cup {None}]]
  /\ {MaxChanged, MaxRelated} \subseteq Nat
  /\ {MaxIterations, MaxProcesses} \subseteq Nat \ {0}

VARIABLES
  tree,       \* the working tree
  env,        \* its surroundings
  held,       \* obligation["value"], when it is applicable
  saved,      \* state.verification_obligation on disk, when it is applicable
  prior,      \* the record a pass carries from
  left,       \* how many passes the step may take, the present one included
  stalled,    \* a pass of this step got no changed guard to an assertion
  raised,     \* the step ended in an exception
  pc, status, attempt, processes

records == <<held, saved>>
step    == <<prior, left, stalled, raised>>
process == <<status, attempt, processes>>

vars == <<tree, env, records, step, pc, process>>

Outcomes  == {"pass", "fail", "infra"}
Decisions == {"ACCEPT", "FIX", "ASK_USER", "BLOCKED"}
Statuses  == {"RUNNING", "ACCEPTED", "NEEDS_USER", "BLOCKED", "MAX_ITERATIONS",
              "STOPPED", "ERROR"}
Working   == {"build", "enter", "pass", "again", "judge"}

\* One execution of a guard, with the tree it ran on.
Result == [command : Commands, on : Trees, outcome : Outcomes]

\* The record: the tree and surroundings its guards were selected in, and the
\* results of those that were executed.
Record == [tree : Trees, env : Environments,
           results : [Guards -> Result \cup {None}]]

ASSUME NoneAssumption == None \notin Result \cup Record

-----------------------------------------------------------------------------
(* Selection: every guard the diff changed, and a few over its other files. *)

Empty(t) == Diff[t].changed = {} /\ ~Diff[t].product

Present(t) == Diff[t].changed \ Diff[t].gone

Selected(t, e) ==
  IF e \in HasRunner
    THEN {g \in Present(t) \cup Diff[t].related : Command[e][g] # None}
    ELSE {}

\* Without a guard to run nothing is looked at: a deleted guard is excused
\* only when there was a runner.
NotApplicable(t, e) == IF e \in HasRunner THEN Diff[t].gone ELSE {}

Gaps(t, e) == IF Selected(t, e) = {} THEN {} ELSE Diff[t].unproved \cap Selected(t, e)

-----------------------------------------------------------------------------
(* What a record says.                                                     *)

Executed(r) == {g \in Guards : r.results[g] # None}
With(r, o)  == {g \in Executed(r) : r.results[g].outcome = o}
Concluded(r) == With(r, "pass") \cup With(r, "fail")

Pending(r) == Selected(r.tree, r.env) \ Executed(r)

Unobserved(r) ==
  Diff[r.tree].changed \ (Executed(r) \cup NotApplicable(r.tree, r.env))

\* Faulty: a changed guard nothing could select is nobody's business.
ClaimBlockedBySelected(r) ==
  \/ With(r, "fail") # {} \/ With(r, "infra") # {}
  \/ Pending(r) # {}
  \/ Gaps(r.tree, r.env) # {}

BlocksClaim(r) ==
  \/ With(r, "fail") # {} \/ With(r, "infra") # {}
  \/ Pending(r) # {} \/ Unobserved(r) # {}
  \/ Gaps(r.tree, r.env) # {}

-----------------------------------------------------------------------------
(* One bounded pass.                                                       *)

\* The first n of a set of guards, in the order of their paths.
FirstOf(S, n) == {g \in S : Cardinality({h \in S : Rank[h] < Rank[g]}) < n}

\* Faulty: a refusal is asked again.
PassesAnswered(r, g, e) ==
  r.results[g].outcome = "pass" /\ r.results[g].command = Command[e][g]

\* An answer stands for the same invocation, if it reached an assertion.
Answered(r, g, e) ==
  r.results[g].outcome # "infra" /\ r.results[g].command = Command[e][g]

\* The same commit, the same changed files and the same content.
SameTree(r, t) == r # None /\ r.tree = t

Carried(r, t, e) ==
  IF SameTree(r, t) THEN {g \in Executed(r) \cap Selected(t, e) : Answered(r, g, e)}
                    ELSE {}

Batch(wanted, t) ==
  LET most == IF MaxChanged = 0 THEN 1 ELSE MaxChanged
  IN  FirstOf(wanted \cap Diff[t].changed, most)
        \cup FirstOf(wanted \ Diff[t].changed, MaxRelated)

\* Faulty: the bound on a pass is a bound on the run.
OnePass(t) == 1

\* A pass for each changed path, and one more.
PassesFor(t) == Cardinality(Diff[t].changed) + 1

\* Faulty: a pass that got nowhere is not counted.
PassUncounted(n) == n

AfterPass(n) == n - 1

-----------------------------------------------------------------------------
(* The run around the step.                                                *)

NoStep == prior' = None /\ left' = 0 /\ stalled' = FALSE /\ raised' = FALSE

Init ==
  /\ tree = FirstTree /\ env \in Environments
  /\ held = None /\ saved = None
  /\ prior = None /\ left = 0 /\ stalled = FALSE /\ raised = FALSE
  /\ pc = "build" /\ status = "RUNNING" /\ attempt = 1 /\ processes = 1

End(st) ==
  /\ status' = st
  /\ pc' = "ended"
  /\ UNCHANGED <<attempt, processes>>

\* A turn leaves any tree; what surrounds the driver may change meanwhile.
BuilderTurn ==
  /\ pc = "build"
  /\ tree' \in Trees
  /\ env' \in Environments
  /\ pc' = "enter"
  /\ NoStep
  /\ UNCHANGED <<records, process>>

\* Nothing changed: the record is left alone, and kept if its commit is HEAD.
NothingChanged ==
  /\ pc = "enter"
  /\ Empty(tree)
  /\ saved' = IF held # None /\ HeadOf[held.tree] = HeadOf[tree] THEN held ELSE saved
  /\ pc' = "judge"
  /\ UNCHANGED <<tree, env, held, step, process>>

Settled == SameTree(held, tree) /\ ~BlocksClaim(held)

\* This very tree was observed already, with nothing left open.
AlreadyObserved ==
  /\ pc = "enter"
  /\ ~Empty(tree)
  /\ Settled
  /\ saved' = held
  /\ pc' = "judge"
  /\ UNCHANGED <<tree, env, held, step, process>>

\* No guard changed: the obligation goes, and from the disk too if a scan of
\* the product modules left a record of another kind in its place.
NoGuardChanged ==
  /\ pc = "enter"
  /\ ~Empty(tree)
  /\ Diff[tree].changed = {}
  /\ held' = None
  /\ saved' \in {saved, None}
  /\ pc' = "judge"
  /\ UNCHANGED <<tree, env, step, process>>

StartPasses ==
  /\ pc = "enter"
  /\ Diff[tree].changed # {}
  /\ ~Settled
  /\ prior' = IF SameTree(held, tree) THEN held ELSE None
  /\ left' = PassesFor(tree)
  /\ pc' = "pass"
  /\ UNCHANGED <<tree, env, records, stalled, raised, process>>

Owed == Selected(tree, env) \ Carried(prior, tree, env)

\* The record a pass makes: what it carries, and what its batch answers.
Operated(batch, answer) ==
  [tree |-> tree, env |-> env,
   results |-> [g \in Guards |->
     IF g \in Carried(prior, tree, env) THEN prior.results[g]
     ELSE IF g \in batch
       THEN [command |-> Command[env][g], on |-> tree, outcome |-> answer[g]]
     ELSE None]]

(***************************************************************************)
(* verify_changed_surface once, and what the loop around it does with the  *)
(* record: hold it, persist it, and go on while something is owed, this    *)
(* pass ran something and passes remain.                                   *)
(***************************************************************************)
Pass ==
  /\ pc = "pass"
  /\ LET batch == Batch(Owed, tree) IN
     \E answer \in [batch -> Outcomes] :
       LET record  == Operated(batch, answer)
           more    == Pending(record) # {} /\ batch # {} /\ left > 1
           changed == batch \cap Diff[tree].changed
       IN  /\ held' = record
           /\ saved' = record
           /\ stalled' = (stalled \/ /\ changed # {}
                                     /\ \A g \in changed : answer[g] = "infra")
           /\ pc' = IF more THEN "again" ELSE "judge"
  /\ UNCHANGED <<tree, env, prior, left, raised, process>>

\* The record just persisted is what the next pass carries from.
NextPass ==
  /\ pc = "again"
  /\ prior' = held
  /\ left' = AfterPass(left)
  /\ pc' = "pass"
  /\ UNCHANGED <<tree, env, records, stalled, raised, process>>

\* A pass raises: what is held, of whatever tree, is the answer.
PassRaises ==
  /\ pc = "pass"
  /\ raised' = TRUE
  /\ saved' = IF held = None THEN saved ELSE held
  /\ pc' = "judge"
  /\ UNCHANGED <<tree, env, held, prior, left, stalled, process>>

\* What was observed overrides what was decided, unless the founder is asked.
Precedence(r, d) ==
  IF r # None /\ BlocksClaim(r) /\ d # "ASK_USER" THEN "FIX" ELSE d

\* The decision of the other layers, the record's precedence, and the route.
Judge ==
  /\ pc = "judge"
  /\ \E d \in Decisions :
       LET decision == Precedence(held, d) IN
       \/ decision = "ACCEPT"   /\ End("ACCEPTED")
       \/ decision = "ASK_USER" /\ End("NEEDS_USER")
       \/ decision = "BLOCKED"  /\ End("BLOCKED")
       \/ decision = "FIX" /\ attempt >= MaxIterations /\ End("MAX_ITERATIONS")
       \/ /\ decision = "FIX" /\ attempt < MaxIterations
          /\ attempt' = attempt + 1
          /\ pc' = "build"
          /\ UNCHANGED <<status, processes>>
  /\ UNCHANGED <<tree, env, records, step>>

\* The process dies at any point; an execution that was not persisted is lost.
Crash ==
  /\ pc \in Working
  /\ processes < MaxProcesses
  /\ pc' = "down"
  /\ status' \in {status, "STOPPED", "ERROR"}
  /\ UNCHANGED <<tree, env, records, step, attempt, processes>>

\* The obligation comes back with the identity of the tree it was taken on.
Resume ==
  /\ pc \in {"down", "ended"}
  /\ processes < MaxProcesses
  /\ held' = saved
  /\ pc' = "build" /\ status' = "RUNNING" /\ attempt' = 1
  /\ processes' = processes + 1
  /\ NoStep
  /\ UNCHANGED <<tree, env, saved>>

Step == \/ BuilderTurn \/ NothingChanged \/ AlreadyObserved \/ NoGuardChanged
        \/ StartPasses \/ Pass \/ NextPass \/ PassRaises \/ Judge

Next == Step \/ Crash \/ Resume

\* One coroutine: a step that can be taken is taken.  Executions have a time
\* limit, so a pass ends.
Spec == Init /\ [][Next]_vars /\ WF_vars(Step)

-----------------------------------------------------------------------------
(* Properties.                                                             *)

\* Every variable holds a value of its type.
TypeOK ==
  /\ tree \in Trees /\ env \in Environments
  /\ held \in Record \cup {None}
  /\ saved \in Record \cup {None}
  /\ prior \in Record \cup {None}
  /\ left \in 0..(Cardinality(Guards) + 1)
  /\ {stalled, raised} \subseteq BOOLEAN
  /\ pc \in Working \cup {"down", "ended"}
  /\ status \in Statuses
  /\ attempt \in 1..MaxIterations
  /\ processes \in 1..MaxProcesses

(***************************************************************************)
(* An accepted run observed every guard its change edited and did not      *)
(* delete: each was executed on the accepted tree itself and passed,       *)
(* however many passes, iterations and restarts that took, unless the step *)
(* raised (_apply_changed_verification_precedence over a record            *)
(* verify_changed_surface built).                                          *)
(***************************************************************************)
AcceptedIsOperated ==
  status = "ACCEPTED" /\ ~raised =>
    \A g \in Present(tree) :
      /\ held # None /\ g \in Executed(held)
      /\ held.results[g].on = tree
      /\ held.results[g].outcome = "pass"

(***************************************************************************)
(* A record answers the question it names: each of its results was taken   *)
(* on the record's own tree by the invocation its surroundings declared    *)
(* when it was made, carried results included ("what this same tree        *)
(* already answered, command for command").                                *)
(***************************************************************************)
AnswersItsOwnQuestion ==
  held # None =>
    \A g \in Executed(held) :
      /\ held.results[g].on = held.tree
      /\ held.results[g].command = Command[held.env][g]

(***************************************************************************)
(* A guard that reached an assertion is not asked again while the tree and *)
(* its invocation stand: no later pass, iteration or restart turns its     *)
(* refusal into a pass, drops it, or re-runs what is settled ("never       *)
(* re-running one this same tree already answered").                       *)
(***************************************************************************)
Stands(r, s) ==
  s.tree = r.tree =>
    \A g \in Concluded(r) \cap Selected(s.tree, s.env) :
      Command[s.env][g] = r.results[g].command =>
        g \in Executed(s) /\ s.results[g] = r.results[g]

ConclusionsStand ==
  [][held # None /\ held' # None => Stands(held, held')]_vars

(***************************************************************************)
(* The passes of one step reach every selected guard, if each of them got  *)
(* one guard as far as an assertion: the bound on a pass is never a bound  *)
(* on what is operated (verify_changed_surface, and the number of passes   *)
(* _changed_surface_verification allows).                                  *)
(***************************************************************************)
PassesReachAll ==
  pc = "judge" /\ ~raised /\ ~stalled /\ held # None /\ held.tree = tree
    => Pending(held) = {}

\* Every process that is not killed comes to an end, however many guards
\* cannot be executed: a pass that stalls does not become a spin.
EveryProcessEnds == [](pc # "ended" => <>(pc \in {"ended", "down"}))
=============================================================================
