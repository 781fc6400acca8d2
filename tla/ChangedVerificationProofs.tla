--------------------- MODULE ChangedVerificationProofs ---------------------
(***************************************************************************)
(* What is proved of ChangedVerification for any trees, guards,            *)
(* environments and bounds.                                                *)
(***************************************************************************)
EXTENDS ChangedVerification, FiniteSetTheorems, WellFoundedInduction, TLAPS

USE ChangedAssumption, NoneAssumption

-----------------------------------------------------------------------------
(* The first few of a set of guards.                                       *)

LEMMA SubsetsFinite ==
  ASSUME NEW S \in SUBSET Guards
  PROVE  IsFiniteSet(S) /\ Cardinality(S) \in Nat
BY FS_Subset, FS_CardinalityType

\* Some guard of a set comes first.
LEMMA SomeGuardIsFirst ==
  ASSUME NEW S \in SUBSET Guards, S # {}
  PROVE  \E g \in S : \A h \in S : ~(Rank[h] < Rank[g])
<1> DEFINE T == {Rank[g] : g \in S}
<1>1. T \subseteq Nat /\ T # {}
  OBVIOUS
<1>2. PICK x \in T : \A y \in T : ~(<<y, x>> \in OpToRel(<, Nat))
  BY <1>1, WFMin, NatLessThanWellFounded
<1>3. PICK g \in S : Rank[g] = x
  OBVIOUS
<1>4. \A h \in S : ~(Rank[h] < Rank[g])
  BY <1>1, <1>2, <1>3 DEF OpToRel
<1> QED
  BY <1>4

\* A bound of one or more takes at least one guard of a set that has any.
LEMMA FirstOfSome ==
  ASSUME NEW S \in SUBSET Guards, S # {}, NEW n \in Nat \ {0}
  PROVE  FirstOf(S, n) # {}
<1>1. PICK g \in S : \A h \in S : ~(Rank[h] < Rank[g])
  BY SomeGuardIsFirst
<1> DEFINE before == {h \in S : Rank[h] < Rank[g]}
<1>2. before = {}
  BY <1>1
<1> HIDE DEF before
<1>3. Cardinality(before) < n
  BY <1>2, FS_EmptySet
<1> QED
  BY <1>3 DEF FirstOf, before

\* A set within the bound is taken whole.
LEMMA FirstOfAll ==
  ASSUME NEW S \in SUBSET Guards, NEW n \in Nat, Cardinality(S) <= n
  PROVE  FirstOf(S, n) = S
<1>1. ASSUME NEW g \in S PROVE Cardinality({h \in S : Rank[h] < Rank[g]}) < n
  <2> DEFINE B == {h \in S : Rank[h] < Rank[g]}
  <2>1. g \notin B
    OBVIOUS
  <2>2. B \in SUBSET (S \ {g})
    BY <2>1
  <2>3. IsFiniteSet(S) /\ Cardinality(S) \in Nat
    BY SubsetsFinite
  <2> HIDE DEF B
  <2>4. IsFiniteSet(S \ {g}) /\ Cardinality(S \ {g}) = Cardinality(S) - 1
    BY <2>3, FS_RemoveElement
  <2>5. Cardinality(B) <= Cardinality(S \ {g}) /\ IsFiniteSet(B)
    BY <2>2, <2>4, FS_Subset
  <2>6. Cardinality(B) \in Nat
    BY <2>5, FS_CardinalityType
  <2> QED
    BY <2>3, <2>4, <2>5, <2>6 DEF B
<1> QED
  BY <1>1 DEF FirstOf

\* A pass only executes what is owed; something of what the change edited,
\* if any of it is owed; and all that is owed of the repository's own.
LEMMA BatchFacts ==
  ASSUME NEW t \in Trees, NEW e \in Environments, NEW W \in SUBSET Selected(t, e)
  PROVE  /\ Batch(W, t) \subseteq W
         /\ W \cap Diff[t].changed # {} => Batch(W, t) \cap Diff[t].changed # {}
         /\ W \ Diff[t].changed \subseteq Batch(W, t)
<1> DEFINE most == IF MaxChanged = 0 THEN 1 ELSE MaxChanged
<1>1. most \in Nat \ {0}
  OBVIOUS
<1>2. /\ W \in SUBSET Guards
      /\ W \ Diff[t].changed \subseteq Diff[t].related
      /\ Diff[t].related \in SUBSET Guards
  BY DEF Selected, Present
<1>3. Batch(W, t) = FirstOf(W \cap Diff[t].changed, most)
                      \cup FirstOf(W \ Diff[t].changed, MaxRelated)
  BY DEF Batch
<1>4. /\ FirstOf(W \cap Diff[t].changed, most) \subseteq W \cap Diff[t].changed
      /\ FirstOf(W \ Diff[t].changed, MaxRelated) \subseteq W \ Diff[t].changed
  BY DEF FirstOf
<1> HIDE DEF most
<1>5. W \cap Diff[t].changed # {} => FirstOf(W \cap Diff[t].changed, most) # {}
  BY <1>1, <1>2, FirstOfSome
<1>6. FirstOf(W \ Diff[t].changed, MaxRelated) = W \ Diff[t].changed
  <2>1. Cardinality(W \ Diff[t].changed) <= Cardinality(Diff[t].related)
    BY <1>2, SubsetsFinite, FS_Subset
  <2>2. Cardinality(W \ Diff[t].changed) \in Nat /\ Cardinality(Diff[t].related) \in Nat
    BY <1>2, SubsetsFinite
  <2>3. Cardinality(W \ Diff[t].changed) <= MaxRelated
    BY <2>1, <2>2
  <2> QED
    BY <1>2, <2>3, FirstOfAll
<1> QED
  BY <1>3, <1>4, <1>5, <1>6

-----------------------------------------------------------------------------
(* The inductive invariant.                                                *)

\* A record answers its own question, guard by guard, and only about guards
\* that were selected in a change that edited some.
Sound(r) ==
  /\ Diff[r.tree].changed # {}
  /\ \A g \in Executed(r) :
       /\ g \in Selected(r.tree, r.env)
       /\ r.results[g].on = r.tree
       /\ r.results[g].command = Command[r.env][g]

RecordsSound ==
  /\ held # None => Sound(held)
  /\ saved # None => Sound(saved)
  /\ prior # None => Sound(prior)

\* An interruption loses nothing that is held.
SavedIsHeld == held # None => saved = held

\* Between the passes of a step the record is the one they build; the first
\* pass carries from what is held of this tree or from nothing.
StepInv ==
  /\ pc = "pass" =>
       /\ Diff[tree].changed # {}
       /\ left \in 1..(Cardinality(Guards) + 1)
       /\ prior = IF SameTree(held, tree) THEN held ELSE None
  /\ pc = "again" =>
       /\ Diff[tree].changed # {}
       /\ left \in 2..(Cardinality(Guards) + 1)
       /\ held # None /\ held.tree = tree /\ held.env = env
  /\ pc = "judge" /\ ~raised /\ Diff[tree].changed # {} =>
       held # None /\ held.tree = tree

\* An accepted run has ended on a record that supports the claim.
AcceptedInv ==
  status = "ACCEPTED" =>
    /\ pc = "ended"
    /\ held # None => ~BlocksClaim(held)
    /\ ~raised /\ Diff[tree].changed # {} => held # None /\ held.tree = tree

IInv == TypeOK /\ RecordsSound /\ SavedIsHeld /\ StepInv /\ AcceptedInv

LEMMA GuardsCounted == Cardinality(Guards) \in Nat
BY FS_CardinalityType

LEMMA FirstValues ==
  /\ 0 \in 0..(Cardinality(Guards) + 1)
  /\ 1 \in 1..MaxIterations /\ 1 \in 1..MaxProcesses
BY GuardsCounted

LEMMA CarriedFacts ==
  ASSUME IInv, pc = "pass"
  PROVE  /\ Carried(prior, tree, env) \subseteq Selected(tree, env)
         /\ Owed \in SUBSET Selected(tree, env)
         /\ \A g \in Carried(prior, tree, env) :
              /\ prior # None /\ prior = held /\ prior.tree = tree
              /\ prior.results[g] \in Result
              /\ prior.results[g].on = tree
              /\ prior.results[g].command = Command[env][g]
              /\ prior.results[g].outcome # "infra"
<1>1. Carried(prior, tree, env) \subseteq Selected(tree, env)
  BY DEF Carried
<1>2. Owed \in SUBSET Selected(tree, env)
  BY DEF Owed
<1>3. ASSUME NEW g \in Carried(prior, tree, env)
      PROVE  /\ prior # None /\ prior = held /\ prior.tree = tree
             /\ g \in Executed(prior) /\ Answered(prior, g, env)
  BY <1>3 DEF Carried, IInv, StepInv, SameTree
<1>4. ASSUME NEW g \in Carried(prior, tree, env)
      PROVE  prior.results[g] \in Result /\ prior.results[g].on = prior.tree
  BY <1>3 DEF IInv, TypeOK, Record, Executed, RecordsSound, Sound
<1> QED
  BY <1>1, <1>2, <1>3, <1>4 DEF Answered

\* What a pass makes of what it carries and what it executes.
LEMMA OperatedFacts ==
  ASSUME IInv, pc = "pass",
         NEW B, B = Batch(Owed, tree), NEW answer \in [B -> Outcomes],
         NEW r, r = Operated(B, answer)
  PROVE  /\ r \in Record /\ r # None /\ Sound(r)
         /\ r.tree = tree /\ r.env = env
         /\ B \subseteq Owed
         /\ Executed(r) = Carried(prior, tree, env) \cup B
         /\ \A g \in Carried(prior, tree, env) : r.results[g] = prior.results[g]
         /\ \A g \in B : /\ r.results[g].outcome = answer[g]
                         /\ r.results[g].command = Command[env][g]
<1> DEFINE C == Carried(prior, tree, env)
<1>1. tree \in Trees /\ env \in Environments /\ Diff[tree].changed # {}
  BY DEF IInv, TypeOK, StepInv
<1>2. /\ C \subseteq Selected(tree, env)
      /\ Owed \in SUBSET Selected(tree, env)
      /\ Owed \cap C = {}
      /\ \A g \in C : /\ prior.results[g] \in Result
                      /\ prior.results[g].on = tree
                      /\ prior.results[g].command = Command[env][g]
  BY CarriedFacts DEF Owed
<1>3. B \subseteq Owed
  BY <1>1, <1>2, BatchFacts
<1>4. Selected(tree, env) \subseteq Guards
        /\ \A g \in Selected(tree, env) : Command[env][g] \in Commands
  BY <1>1 DEF Selected, Present
<1> DEFINE f == [g \in Guards |->
                   IF g \in C THEN prior.results[g]
                   ELSE IF g \in B
                     THEN [command |-> Command[env][g], on |-> tree,
                           outcome |-> answer[g]]
                   ELSE None]
<1>5. r = [tree |-> tree, env |-> env, results |-> f]
  BY DEF Operated
<1> HIDE DEF C
<1>7. \A g \in C : f[g] = prior.results[g] /\ f[g] \in Result
  BY <1>2, <1>4
<1>8. \A g \in B : /\ g \in Guards
                  /\ f[g] = [command |-> Command[env][g], on |-> tree,
                             outcome |-> answer[g]]
                  /\ f[g] \in Result
  BY <1>1, <1>2, <1>3, <1>4 DEF Result, Outcomes
<1>9. \A g \in Guards \ (C \cup B) : f[g] = None
  OBVIOUS
<1>10. f \in [Guards -> Result \cup {None}]
  BY <1>7, <1>8, <1>9
<1> HIDE DEF f
<1>11. /\ r \in Record /\ r # None
       /\ r.tree = tree /\ r.env = env /\ r.results = f
  <2>1. r \in Record
    BY <1>1, <1>5, <1>10 DEF Record
  <2> QED
    BY <1>5, <2>1
<1>12. Executed(r) = C \cup B
  <2>1. \A x \in Result : x # None
    OBVIOUS
  <2>2. C \subseteq Guards /\ B \subseteq Guards
    BY <1>2, <1>4, <1>8
  <2>3. \A g \in Guards : f[g] # None <=> g \in C \cup B
    BY <1>7, <1>8, <1>9, <2>1
  <2> QED
    BY <1>11, <2>2, <2>3 DEF Executed
<1>13. ASSUME NEW g \in B
       PROVE  /\ f[g].outcome = answer[g] /\ f[g].on = tree
              /\ f[g].command = Command[env][g]
  <2>1. f[g] = [command |-> Command[env][g], on |-> tree, outcome |-> answer[g]]
    BY <1>8
  <2> QED
    BY ONLY <2>1
<1>14. Sound(r)
  <2>1. \A g \in C : /\ g \in Selected(tree, env)
                    /\ f[g].on = tree /\ f[g].command = Command[env][g]
    BY <1>2, <1>7
  <2>2. \A g \in B : /\ g \in Selected(tree, env)
                    /\ f[g].on = tree /\ f[g].command = Command[env][g]
    BY <1>2, <1>3, <1>13
  <2> QED
    BY <1>1, <1>11, <1>12, <2>1, <2>2 DEF Sound
<1> QED
  BY <1>3, <1>7, <1>11, <1>12, <1>13, <1>14 DEF C

LEMMA InitIInv == Init => IInv
BY FirstValues
   DEF Init, IInv, TypeOK, RecordsSound, SavedIsHeld, StepInv, AcceptedInv,
       Working, Statuses

\* What a pass leaves behind.
LEMMA PassFacts ==
  ASSUME IInv, Pass
  PROVE  /\ held' \in Record /\ held' # None /\ saved' = held' /\ Sound(held')
         /\ held'.tree = tree /\ held'.env = env
         /\ stalled' \in BOOLEAN
         /\ pc' \in {"again", "judge"}
         /\ pc' = "again" => left > 1
<1>1. PICK answer \in [Batch(Owed, tree) -> Outcomes] :
        LET record == Operated(Batch(Owed, tree), answer) IN
        /\ held' = record /\ saved' = record
        /\ stalled' \in BOOLEAN
        /\ pc' = IF Pending(record) # {} /\ Batch(Owed, tree) # {} /\ left > 1
                   THEN "again" ELSE "judge"
  BY DEF Pass, IInv, TypeOK
<1>2. pc = "pass"
  BY DEF Pass
<1>3. held' \in Record /\ held' # None /\ Sound(held') /\ held'.tree = tree /\ held'.env = env
  BY <1>1, <1>2, OperatedFacts
<1> QED
  BY <1>1, <1>3

LEMMA PassIInv ==
  ASSUME IInv, Pass
  PROVE  IInv'
<1>1. UNCHANGED <<tree, env, prior, left, raised, process>> /\ pc = "pass"
  BY DEF Pass
<1>2. TypeOK'
  BY <1>1, PassFacts DEF IInv, TypeOK, process, Working
<1>3. RecordsSound'
  BY <1>1, PassFacts DEF IInv, RecordsSound
<1>4. SavedIsHeld'
  BY PassFacts DEF SavedIsHeld
<1>5. StepInv'
  <2>1. left' = left /\ left \in 1..(Cardinality(Guards) + 1) /\ Diff[tree].changed # {}
    BY <1>1 DEF IInv, StepInv
  <2> QED
    BY <1>1, <2>1, PassFacts, GuardsCounted DEF StepInv
<1>6. AcceptedInv'
  BY <1>1 DEF IInv, AcceptedInv, process
<1> QED
  BY <1>2, <1>3, <1>4, <1>5, <1>6 DEF IInv

LEMMA StepIInv ==
  ASSUME IInv, [Next]_vars
  PROVE  IInv'
<1> USE DEF records, step, process
<1>1. CASE BuilderTurn
  BY <1>1, FirstValues
     DEF BuilderTurn, NoStep, IInv, TypeOK, RecordsSound, SavedIsHeld, StepInv,
         AcceptedInv, Working
<1>2. CASE NothingChanged
  <2>1. Diff[tree].changed = {}
    BY <1>2 DEF NothingChanged, Empty
  <2> QED
    BY <1>2, <2>1
       DEF NothingChanged, IInv, TypeOK, RecordsSound, SavedIsHeld, StepInv,
           AcceptedInv, Working
<1>3. CASE AlreadyObserved
  BY <1>3
     DEF AlreadyObserved, Settled, SameTree, IInv, TypeOK, RecordsSound,
         SavedIsHeld, StepInv, AcceptedInv, Working
<1>4. CASE NoGuardChanged
  BY <1>4
     DEF NoGuardChanged, IInv, TypeOK, RecordsSound, SavedIsHeld, StepInv,
         AcceptedInv, Working
<1>5. CASE StartPasses
  <2>1. left' \in 1..(Cardinality(Guards) + 1)
    <3>1. Diff[tree].changed \in SUBSET Guards
      BY DEF IInv, TypeOK
    <3>2. /\ Cardinality(Diff[tree].changed) \in Nat
          /\ Cardinality(Diff[tree].changed) <= Cardinality(Guards)
      BY <3>1, SubsetsFinite, FS_Subset
    <3> QED
      BY <1>5, <3>2, GuardsCounted DEF StartPasses, PassesFor
  <2>2. /\ pc = "enter" /\ pc' = "pass" /\ Diff[tree].changed # {}
        /\ UNCHANGED <<tree, env, held, saved, stalled, raised, status, attempt, processes>>
        /\ prior' = IF SameTree(held, tree) THEN held ELSE None
    BY <1>5 DEF StartPasses
  <2>3. TypeOK'
    BY <2>1, <2>2, GuardsCounted DEF IInv, TypeOK, Working
  <2>4. RecordsSound' /\ SavedIsHeld'
    BY <2>2 DEF IInv, RecordsSound, SavedIsHeld
  <2>5. StepInv'
    BY <2>1, <2>2 DEF StepInv, SameTree
  <2>6. AcceptedInv'
    BY <2>2 DEF IInv, AcceptedInv
  <2> QED
    BY <2>3, <2>4, <2>5, <2>6 DEF IInv
<1>6. CASE Pass
  BY <1>6, PassIInv
<1>7. CASE NextPass
  <2>1. /\ pc = "again" /\ pc' = "pass" /\ prior' = held /\ left' = left - 1
        /\ UNCHANGED <<tree, env, held, saved, stalled, raised, status, attempt, processes>>
    BY <1>7 DEF NextPass, AfterPass
  <2>2. left \in 2..(Cardinality(Guards) + 1) /\ SameTree(held, tree) /\ Diff[tree].changed # {}
    BY <2>1 DEF IInv, StepInv, SameTree
  <2>3. left' \in 1..(Cardinality(Guards) + 1)
    BY <2>1, <2>2, GuardsCounted
  <2>4. TypeOK'
    BY <2>1, <2>3, GuardsCounted DEF IInv, TypeOK, Working
  <2>5. RecordsSound' /\ SavedIsHeld'
    BY <2>1 DEF IInv, RecordsSound, SavedIsHeld
  <2>6. StepInv'
    BY <2>1, <2>2, <2>3 DEF StepInv, SameTree
  <2>7. AcceptedInv'
    BY <2>1 DEF IInv, AcceptedInv
  <2> QED
    BY <2>4, <2>5, <2>6, <2>7 DEF IInv
<1>8. CASE PassRaises
  BY <1>8
     DEF PassRaises, IInv, TypeOK, RecordsSound, SavedIsHeld, StepInv, AcceptedInv, Working
<1>9. CASE Judge
  <2>1. PICK d \in Decisions :
          LET decision == Precedence(held, d) IN
          \/ decision = "ACCEPT"   /\ End("ACCEPTED")
          \/ decision = "ASK_USER" /\ End("NEEDS_USER")
          \/ decision = "BLOCKED"  /\ End("BLOCKED")
          \/ decision = "FIX" /\ attempt >= MaxIterations /\ End("MAX_ITERATIONS")
          \/ /\ decision = "FIX" /\ attempt < MaxIterations
             /\ attempt' = attempt + 1
             /\ pc' = "build"
             /\ UNCHANGED <<status, processes>>
    BY <1>9 DEF Judge
  <2>2. pc = "judge" /\ status # "ACCEPTED" /\ UNCHANGED <<tree, env, records, step>>
    BY <1>9 DEF Judge, IInv, AcceptedInv
  <2>3. TypeOK'
    BY <2>1, <2>2 DEF End, IInv, TypeOK, Working, Statuses
  <2>4. RecordsSound' /\ SavedIsHeld'
    BY <2>2 DEF IInv, RecordsSound, SavedIsHeld
  <2>5. pc' \in {"build", "ended"}
    BY <2>1 DEF End
  <2>6. StepInv'
    BY <2>5 DEF StepInv
  <2>7. AcceptedInv'
    <3>1. ASSUME status' = "ACCEPTED"
          PROVE  pc' = "ended" /\ (held # None => ~BlocksClaim(held))
      BY <2>1, <2>2, <3>1 DEF End, Precedence
    <3>2. (held # None => ~BlocksClaim(held)) => (held # None => ~BlocksClaim(held))'
      BY <2>2
         DEF BlocksClaim, With, Executed, Pending, Unobserved, Gaps, Selected,
             Present, NotApplicable
    <3> QED
      BY <2>2, <3>1, <3>2 DEF AcceptedInv, IInv, StepInv
  <2> QED
    BY <2>3, <2>4, <2>6, <2>7 DEF IInv
<1>10. CASE Crash
  BY <1>10
     DEF Crash, IInv, TypeOK, RecordsSound, SavedIsHeld, StepInv, AcceptedInv,
         Working, Statuses
<1>11. CASE Resume
  <2>1. /\ held' = saved /\ saved' = saved /\ prior' = None /\ left' = 0
        /\ stalled' = FALSE /\ raised' = FALSE /\ tree' = tree /\ env' = env
        /\ pc' = "build" /\ status' = "RUNNING" /\ attempt' = 1
        /\ processes' = processes + 1 /\ processes < MaxProcesses
    BY <1>11 DEF Resume, NoStep
  <2>2. processes' \in 1..MaxProcesses
    BY <2>1 DEF IInv, TypeOK
  <2>3. TypeOK'
    BY <2>1, <2>2, FirstValues DEF IInv, TypeOK, Working, Statuses
  <2> QED
    BY <2>1, <2>3 DEF IInv, RecordsSound, SavedIsHeld, StepInv, AcceptedInv
<1>12. CASE UNCHANGED vars
  BY <1>12
     DEF vars, IInv, TypeOK, RecordsSound, SavedIsHeld, StepInv, AcceptedInv,
         Sound, SameTree, BlocksClaim, With, Executed, Pending, Unobserved, Gaps,
         Selected, Present, NotApplicable
<1> QED
  BY <1>1, <1>2, <1>3, <1>4, <1>5, <1>6, <1>7, <1>8, <1>9, <1>10, <1>11, <1>12
     DEF Next, Step

LEMMA Invariance == Spec => []IInv
<1>1. IInv /\ [Next]_vars => IInv'
  BY StepIInv
<1> QED
  BY InitIInv, <1>1, PTL DEF Spec

-----------------------------------------------------------------------------
(* The theorems.                                                           *)

\* Every variable keeps its type: a guard is only ever executed by an
\* invocation somebody declared.
THEOREM TypeCorrect == Spec => []TypeOK
<1>1. IInv => TypeOK
  BY DEF IInv
<1> QED
  BY Invariance, <1>1, PTL

\* The claim an accepted run makes was observed, on the accepted tree, for
\* every guard the change edited and kept.
THEOREM AcceptanceIsOperated == Spec => []AcceptedIsOperated
<1>1. IInv => AcceptedIsOperated
  <2> SUFFICES ASSUME IInv, status = "ACCEPTED", ~raised, NEW g \in Present(tree)
               PROVE  /\ held # None /\ g \in Executed(held)
                      /\ held.results[g].on = tree
                      /\ held.results[g].outcome = "pass"
    BY DEF AcceptedIsOperated
  <2>1. held # None /\ held.tree = tree /\ ~BlocksClaim(held)
    BY DEF Present, IInv, AcceptedInv
  <2>2. g \in Executed(held)
    BY <2>1 DEF BlocksClaim, Unobserved, NotApplicable, Present
  <2>3. held.results[g].on = tree /\ held.results[g] \in Result
    BY <2>1, <2>2 DEF IInv, TypeOK, Record, RecordsSound, Sound, Executed
  <2>4. held.results[g].outcome \in Outcomes \ {"fail", "infra"}
    BY <2>1, <2>2, <2>3 DEF BlocksClaim, With, Result
  <2> QED
    BY <2>1, <2>2, <2>3, <2>4 DEF Outcomes
<1> QED
  BY Invariance, <1>1, PTL

\* A record, carried results included, answers the question it names.
THEOREM RecordsAnswerTheirQuestion == Spec => []AnswersItsOwnQuestion
<1>1. IInv => AnswersItsOwnQuestion
  BY DEF IInv, RecordsSound, Sound, AnswersItsOwnQuestion
<1> QED
  BY Invariance, <1>1, PTL

LEMMA StandsBySelf ==
  ASSUME NEW r \in Record
  PROVE  Stands(r, r)
BY DEF Stands, Concluded, With

\* What a pass makes of the record it carries from keeps its conclusions.
LEMMA PassStands ==
  ASSUME IInv, Pass, held # None
  PROVE  Stands(held, held')
<1>1. pc = "pass"
  BY DEF Pass
<1>2. PICK answer \in [Batch(Owed, tree) -> Outcomes] :
        held' = Operated(Batch(Owed, tree), answer)
  BY DEF Pass
<1>3. /\ held'.tree = tree /\ held'.env = env
      /\ Executed(held') = Carried(prior, tree, env) \cup Batch(Owed, tree)
      /\ \A g \in Carried(prior, tree, env) : held'.results[g] = prior.results[g]
  BY <1>1, <1>2, OperatedFacts
<1> SUFFICES ASSUME held'.tree = held.tree,
                    NEW g \in Concluded(held) \cap Selected(tree, env),
                    Command[env][g] = held.results[g].command
             PROVE  g \in Executed(held') /\ held'.results[g] = held.results[g]
  BY <1>3 DEF Stands
<1>4. prior = held /\ SameTree(prior, tree)
  BY <1>1, <1>3 DEF IInv, StepInv, SameTree
<1>5. g \in Executed(held) /\ held.results[g].outcome # "infra"
  BY DEF Concluded, With
<1>6. g \in Carried(prior, tree, env)
  BY <1>4, <1>5 DEF Carried, Answered
<1> QED
  BY <1>3, <1>4, <1>6

\* No later pass, iteration or restart asks again what reached an assertion.
THEOREM ConclusionsKept == Spec => ConclusionsStand
<1>1. ASSUME IInv, [Next]_vars, held # None, held' # None
      PROVE  Stands(held, held')
  <2>1. held \in Record
    BY <1>1 DEF IInv, TypeOK
  <2>2. CASE Pass
    BY <1>1, <2>2, PassStands
  <2>3. CASE ~Pass
    <3>1. held' = held
      BY <1>1, <2>3
         DEF Next, Step, BuilderTurn, NothingChanged, AlreadyObserved, NoGuardChanged,
             StartPasses, NextPass, PassRaises, Judge, Crash, Resume, vars, records,
             IInv, SavedIsHeld
    <3> QED
      BY <2>1, <3>1, StandsBySelf
  <2> QED
    BY <2>2, <2>3
<1>2. IInv /\ [Next]_vars => [held # None /\ held' # None => Stands(held, held')]_vars
  BY <1>1
<1> QED
  BY Invariance, <1>2, PTL DEF Spec, ConclusionsStand

-----------------------------------------------------------------------------
(* The passes reach every selected guard, if each of them advances.        *)

\* What a pass that carries from a record would still owe of the change.
OwedFrom(r) == (Selected(tree, env) \cap Diff[tree].changed) \ Carried(r, tree, env)

\* More passes remain than guards are owed, as long as none has stalled.
ProgressInv ==
  /\ pc = "pass" /\ ~stalled => Cardinality(OwedFrom(prior)) < left
  /\ pc = "again" /\ ~stalled => Cardinality(OwedFrom(held)) < left - 1
  /\ PassesReachAll

LEMMA OwedFromFinite ==
  ASSUME IInv, NEW r
  PROVE  /\ OwedFrom(r) \in SUBSET Guards
         /\ IsFiniteSet(OwedFrom(r)) /\ Cardinality(OwedFrom(r)) \in Nat
<1>1. OwedFrom(r) \in SUBSET Guards
  BY DEF OwedFrom, IInv, TypeOK
<1> QED
  BY <1>1, SubsetsFinite

\* A pass owes less than the one before it, or has stalled, or is the last.
LEMMA PassProgress ==
  ASSUME IInv, ProgressInv, Pass, ~stalled'
  PROVE  /\ pc' = "judge" => Pending(held') = {}
         /\ pc' = "again" => Cardinality(OwedFrom(held)') < left - 1
<1> DEFINE B == Batch(Owed, tree)
           K == B \cap Diff[tree].changed
<1>1. PICK answer \in [B -> Outcomes] :
        /\ held' = Operated(B, answer)
        /\ stalled' = (stalled \/ (K # {} /\ \A g \in K : answer[g] = "infra"))
        /\ pc' = IF Pending(held') # {} /\ B # {} /\ left > 1 THEN "again" ELSE "judge"
  BY DEF Pass
<1>2. pc = "pass" /\ ~stalled /\ UNCHANGED <<tree, env>>
  BY <1>1 DEF Pass
<1>3. /\ held' # None /\ held'.tree = tree /\ held'.env = env
      /\ B \subseteq Owed
      /\ Executed(held') = Carried(prior, tree, env) \cup B
      /\ \A g \in Carried(prior, tree, env) : held'.results[g] = prior.results[g]
      /\ \A g \in B : /\ held'.results[g].outcome = answer[g]
                      /\ held'.results[g].command = Command[env][g]
  BY <1>1, <1>2, OperatedFacts
<1>4. /\ tree \in Trees /\ env \in Environments
      /\ Owed \in SUBSET Selected(tree, env)
      /\ Owed = Selected(tree, env) \ Carried(prior, tree, env)
  BY <1>2, CarriedFacts DEF Owed, IInv, TypeOK
<1>5. /\ Owed \cap Diff[tree].changed # {} => K # {}
      /\ Owed \ Diff[tree].changed \subseteq B
  BY <1>4, BatchFacts
<1>6. Pending(held') = Owed \ B
  BY <1>3, <1>4 DEF Pending
<1>7. OwedFrom(prior) = Owed \cap Diff[tree].changed
  BY <1>4 DEF OwedFrom
<1>8. Cardinality(OwedFrom(prior)) < left /\ left \in Nat
  BY <1>2 DEF ProgressInv, IInv, TypeOK
<1>9. CASE K = {}
  <2>1. Pending(held') = {}
    BY <1>5, <1>6, <1>9
  <2> QED
    BY <1>1, <2>1
<1>10. CASE K # {}
  <2>1. PICK g \in K : answer[g] # "infra"
    BY <1>1, <1>2, <1>10
  <2>2. g \in OwedFrom(prior)
    BY <1>3, <1>7
  <2>3. IsFiniteSet(OwedFrom(prior)) /\ Cardinality(OwedFrom(prior)) \in Nat
    BY OwedFromFinite
  <2>4. /\ IsFiniteSet(OwedFrom(prior) \ {g})
        /\ Cardinality(OwedFrom(prior) \ {g}) = Cardinality(OwedFrom(prior)) - 1
    BY <2>2, <2>3, FS_RemoveElement
  <2>5. Cardinality(OwedFrom(prior)) # 0
    BY <2>2, <2>3, FS_EmptySet
  <2>6. left > 1
    <3> DEFINE n == Cardinality(OwedFrom(prior))
    <3>1. n \in Nat /\ n # 0 /\ n < left /\ left \in Nat
      BY <1>8, <2>3, <2>5
    <3> HIDE DEF n
    <3> QED
      BY <3>1
  <2>7. pc' = "judge" => Pending(held') = {}
    BY <1>1, <1>10, <2>6
  <2>8. OwedFrom(held)' \subseteq OwedFrom(prior) \ {g}
    <3>1. OwedFrom(held)' =
            (Selected(tree, env) \cap Diff[tree].changed) \ Carried(held', tree, env)
      BY <1>2 DEF OwedFrom, Carried, Selected, Present, SameTree, Executed, Answered
    <3>2. g \in Carried(held', tree, env)
      BY <1>3, <1>4, <2>1 DEF Carried, SameTree, Answered
    <3>3. Carried(prior, tree, env) \subseteq Carried(held', tree, env)
      <4> SUFFICES ASSUME NEW x \in Carried(prior, tree, env)
                   PROVE  x \in Carried(held', tree, env)
        OBVIOUS
      <4>1. /\ x \in Selected(tree, env)
            /\ held'.results[x].outcome # "infra"
            /\ held'.results[x].command = Command[env][x]
        BY <1>2, <1>3, CarriedFacts
      <4> QED
        BY <1>3, <4>1 DEF Carried, SameTree, Answered
    <3> QED
      BY <3>1, <3>2, <3>3 DEF OwedFrom
  <2>9. Cardinality(OwedFrom(held)') <= Cardinality(OwedFrom(prior) \ {g})
    BY <2>4, <2>8, FS_Subset
  <2>10. Cardinality(OwedFrom(held)') \in Nat
    BY <2>4, <2>8, FS_Subset, FS_CardinalityType
  <2>11. Cardinality(OwedFrom(held)') < left - 1
    BY <1>8, <2>3, <2>4, <2>9, <2>10
  <2> QED
    BY <2>7, <2>11
<1> QED
  BY <1>9, <1>10

LEMMA ProgressStep ==
  ASSUME IInv, IInv', ProgressInv, [Next]_vars
  PROVE  ProgressInv'
<1> USE DEF records, step, process, ProgressInv
<1>1. CASE BuilderTurn
  BY <1>1 DEF BuilderTurn, PassesReachAll
<1>2. CASE NothingChanged
  <2>1. held # None => held.tree # tree
    BY <1>2 DEF NothingChanged, Empty, IInv, RecordsSound, Sound
  <2> QED
    BY <1>2, <2>1 DEF NothingChanged, PassesReachAll
<1>3. CASE AlreadyObserved
  <2>1. Pending(held) = {} /\ held' = held
    BY <1>3 DEF AlreadyObserved, Settled, SameTree, BlocksClaim
  <2>2. Pending(held') = {}
    BY <2>1
  <2> QED
    BY <1>3, <2>2 DEF AlreadyObserved, PassesReachAll
<1>4. CASE NoGuardChanged
  BY <1>4 DEF NoGuardChanged, PassesReachAll
<1>5. CASE StartPasses
  <2>1. Diff[tree].changed \in SUBSET Guards
    BY DEF IInv, TypeOK
  <2>2. IsFiniteSet(Diff[tree].changed) /\ Cardinality(Diff[tree].changed) \in Nat
    BY <2>1, SubsetsFinite
  <2>3. OwedFrom(prior)' \subseteq Diff[tree].changed
    BY <1>5 DEF StartPasses, OwedFrom
  <2>4. /\ Cardinality(OwedFrom(prior)') <= Cardinality(Diff[tree].changed)
        /\ Cardinality(OwedFrom(prior)') \in Nat
    BY <2>2, <2>3, FS_Subset, FS_CardinalityType
  <2>5. Cardinality(OwedFrom(prior)') < Cardinality(Diff[tree].changed) + 1
    BY <2>2, <2>4
  <2>6. /\ pc' = "pass" /\ left' = Cardinality(Diff[tree].changed) + 1
    BY <1>5 DEF StartPasses, PassesFor
  <2> QED
    BY <2>5, <2>6 DEF PassesReachAll
<1>6. CASE Pass
  <2>1. pc' \in {"again", "judge"} /\ left' = left
    BY <1>6, PassFacts DEF Pass
  <2> QED
    BY <1>6, <2>1, PassProgress DEF PassesReachAll
<1>7. CASE NextPass
  <2>1. /\ pc = "again" /\ pc' = "pass" /\ prior' = held /\ left' = left - 1
        /\ UNCHANGED <<tree, env, stalled>>
    BY <1>7 DEF NextPass, AfterPass
  <2>2. OwedFrom(prior)' = OwedFrom(held)
    BY <2>1 DEF OwedFrom, Carried, Selected, Present, SameTree, Executed, Answered
  <2> QED
    BY <2>1, <2>2 DEF PassesReachAll
<1>8. CASE PassRaises
  BY <1>8 DEF PassRaises, PassesReachAll
<1>9. CASE Judge
  BY <1>9 DEF Judge, End, PassesReachAll
<1>10. CASE Crash
  BY <1>10 DEF Crash, PassesReachAll
<1>11. CASE Resume
  BY <1>11 DEF Resume, PassesReachAll
<1>12. CASE UNCHANGED vars
  <2>1. /\ UNCHANGED <<tree, env, held, prior, left, stalled, raised, pc>>
        /\ OwedFrom(prior)' = OwedFrom(prior) /\ OwedFrom(held)' = OwedFrom(held)
    BY <1>12 DEF vars, OwedFrom, Carried, Selected, Present, SameTree, Executed, Answered
  <2>2. Pending(held') = Pending(held)
    BY <2>1 DEF Pending, Selected, Present, Executed
  <2> QED
    BY <2>1, <2>2 DEF PassesReachAll
<1> QED
  BY <1>1, <1>2, <1>3, <1>4, <1>5, <1>6, <1>7, <1>8, <1>9, <1>10, <1>11, <1>12
     DEF Next, Step

\* However many guards a change edits and however few one pass executes, the
\* passes of a step reach every selected guard if each of them advances.
THEOREM EverySelectedGuardIsReached == Spec => []PassesReachAll
<1>1. Init => ProgressInv
  BY DEF Init, ProgressInv, PassesReachAll
<1>2. IInv /\ IInv' /\ ProgressInv /\ [Next]_vars => ProgressInv'
  BY ProgressStep
<1>3. ProgressInv => PassesReachAll
  BY DEF ProgressInv
<1> QED
  BY Invariance, <1>1, <1>2, <1>3, PTL DEF Spec
=============================================================================
