------------------------- MODULE ScenarioValidation -------------------------
(***************************************************************************)
(* What a generated scenario runs and measures, and what a resume makes of *)
(* one whose measuring instrument has changed                              *)
(* (neyma_product_driver/scenario_validation.py, invocation_grammar.py,    *)
(* outcome_contract.py, refusal_semantics.py and scenario_plan.py).        *)
(*                                                                         *)
(* A command is a program text and the arguments after it.  The repository *)
(* says of the commands a human wrote down: their name, the exit codes and *)
(* the literals they were reviewed to produce, the risks they establish.   *)
(* A body is what a generated scenario runs and asserts of it.  Where the  *)
(* code treats the fields of a scenario one by one, a body has one.        *)
(***************************************************************************)
EXTENDS Integers, Sequences, FiniteSets, SequencesExt

NoExit == -1     \* no exit code is asserted
Unnamed == ""

Command(text, tail) == [text |-> text, tail |-> tail]
Uncited == Command("", <<>>)   \* the text was typed, no command was cited
Of(entry) == Command(entry.text, entry.tail)

(* What a scenario runs and asserts, and what it was built on.  A proposal *)
(* has no provenance yet.                                                  *)
IsBody(b) ==
  b = [run |-> b.run, exit |-> b.exit, outcome |-> b.outcome, expects |-> b.expects,
       observes |-> b.observes, evidence |-> b.evidence, requires |-> b.requires,
       source |-> b.source, cited |-> b.cited, extra |-> b.extra, owned |-> b.owned,
       owner |-> b.owner, repaired |-> b.repaired, acts |-> b.acts,
       services |-> b.services, inspects |-> b.inspects]
IsProposal(b) == IsBody(b) /\ b.owner = Unnamed /\ ~b.repaired

(* One command and arguments after it: the shape that is approved.         *)
Narrows(outer, inner) ==
  /\ outer.text = inner.text
  /\ Len(inner.tail) < Len(outer.tail)
  /\ IsPrefix(inner.tail, outer.tail)

(* ApprovedCommands.approves *)
Approves(repo, c) == \E e \in repo.entries : c = Of(e) \/ Narrows(c, Of(e))

(* by_name: a name that two commands answer to identifies neither.         *)
Named(repo, name) ==
  LET those == {Of(e) : e \in {x \in repo.entries : x.name = name /\ name # Unnamed}}
  IN IF \A c, d \in those : c = d THEN those ELSE {}

(* name_for *)
NameFor(repo, c) ==
  LET those == {e \in repo.entries : Of(e) = c /\ Named(repo, e.name) # {}}
  IN IF those = {} THEN Unnamed ELSE (CHOOSE e \in those : TRUE).name

-----------------------------------------------------------------------------
(***************************************************************************)
(* Attribution: which command has a basis for printing a literal.          *)
(***************************************************************************)
(* established_observations_from: exact, never by prefix.                  *)
Established(repo, c) == UNION {e.prints : e \in {x \in repo.entries : Of(x) = c}}
EstablishedByName(repo, name) == UNION {Established(repo, c) : c \in Named(repo, name)}

Bound(repo) == {e \in repo.entries : e.prints # {}}

(* contested_producers: the literal belongs to other commands, and this one *)
(* is itself one a human wrote the output of, or a selection of such a one.*)
Contested(repo, c, literal) ==
  LET elsewhere == {Of(e) : e \in {x \in Bound(repo) : literal \in x.prints}} \ {c}
      forms == {Of(e) : e \in Bound(repo)}
      above == {f \in forms : Narrows(c, f)}
  IN IF literal \in Established(repo, c) THEN {}
     ELSE IF c \in forms THEN elsewhere
     ELSE {p \in elsewhere : \E f \in above : p = f \/ Narrows(p, f)}

(* ApprovedInvocationProbe: what the command printed when it was asked.    *)
Determined(repo, c) == Approves(repo, c) /\ c \notin repo.silent
Prints(repo, c, literal) == literal \in repo.output[c]

(* cross_contract_observations *)
CrossContract(repo, body) ==
  {l \in body.expects : /\ Contested(repo, body.run, l) # {}
                        /\ ~(Determined(repo, body.run) /\ Prints(repo, body.run, l))}

(* unattributed_observations *)
Unattributed(repo, body) ==
  body.observes \ ((body.expects \ CrossContract(repo, body))
                     \union Established(repo, body.run))

(* coherence_problems *)
Coherent(repo, body) == CrossContract(repo, body) = {} /\ Unattributed(repo, body) = {}

-----------------------------------------------------------------------------
(***************************************************************************)
(* The argument grammar of the programs a human wrote down.  An argument is *)
(* an option with its value.                                               *)
(***************************************************************************)
Refusal(e) == e.exits # {} /\ 0 \notin e.exits

(* base_of: the shortest approved command it extends that is no refusal.   *)
Bases(repo, c) ==
  LET those == {e \in repo.entries : ~Refusal(e) /\ Narrows(c, Of(e))}
  IN {Of(e) : e \in {x \in those : \A y \in those : Len(x.tail) <= Len(y.tail)}}

Members(repo, base) == {e \in repo.entries : Of(e) = base \/ Narrows(Of(e), base)}
Arguments(c, base) == {c.tail[i] : i \in (Len(base.tail) + 1)..Len(c.tail)}

(* vocabulary *)
Vouched(repo, base) ==
  UNION {{a.value : a \in Arguments(Of(e), base)} \union e.prints :
           e \in {x \in Members(repo, base) : ~Refusal(x)}}

Unvouched(repo, base, e) ==
  {a \in Arguments(Of(e), base) : a.value \notin Vouched(repo, base)}

Controls(repo, base) == {e \in Members(repo, base) : Refusal(e)}

(* The refusal controls an argument meets: those that single it out, or    *)
(* those that prove its option's values a closed set it is outside of.     *)
ControlsOf(repo, base, a) ==
  LET single == {e \in Controls(repo, base) :
                   \E u \in Unvouched(repo, base, e) :
                     Unvouched(repo, base, e) = {u} /\ u.value = a.value}
  IN IF single # {} THEN single
     ELSE {e \in Controls(repo, base) :
             /\ a.value \notin Vouched(repo, base)
             /\ \E u \in Unvouched(repo, base, e) : u.option = a.option}

(* Does the operation measure the refusal itself?                          *)
AssertsRefusal(body, controls) ==
  IF body.exit # NoExit
  THEN body.exit \in UNION {e.exits : e \in controls}
  ELSE (body.expects \union body.evidence) \intersect UNION {e.prints : e \in controls} # {}

(* The groups of refusal controls the body's invocation carries.           *)
Refusing(repo, c) ==
  IF \E e \in repo.entries : Of(e) = c
  THEN {{e} : e \in {x \in repo.entries : Of(x) = c /\ Refusal(x)}}
  ELSE LET extended == {{e} : e \in {x \in repo.entries : Refusal(x) /\ Narrows(c, Of(x))}}
       IN IF extended # {} THEN extended
          ELSE {ControlsOf(repo, base, a) : base \in Bases(repo, c),
                                            a \in UNION {Arguments(c, b) : b \in Bases(repo, c)}}
                 \ {{}}

(* InvocationGrammar.problems *)
Impossible(repo, body, category) ==
  \/ \E group \in Refusing(repo, body.run) : ~AssertsRefusal(body, group)
  \/ \E e \in repo.entries : /\ Of(e) = body.run /\ ~Refusal(e)
                             /\ e.exits # {} /\ body.exit # NoExit
                             /\ body.exit \notin e.exits
  \/ /\ Refusing(repo, body.run) # {}
     /\ category \notin UNION {e.claims : e \in UNION Refusing(repo, body.run)}

-----------------------------------------------------------------------------
(***************************************************************************)
(* The outcome contract.                                                   *)
(***************************************************************************)
(* semantics_problems: a program that runs an operation the repository     *)
(* exercises only as a refusal may be expected to be permitted only where  *)
(* it catches the refusal and the body asserts what only that branch says. *)
Contradicted(repo, body) ==
  /\ body.outcome = "permitted"
  /\ body.run.text \in DOMAIN repo.refusalBranch
  /\ body.expects \intersect repo.refusalBranch[body.run.text] = {}

(* contract_problems *)
Unlawful(repo, body) ==
  \/ Contradicted(repo, body)
  \/ body.outcome = "none" /\ body.evidence # {}
  \/ body.outcome = "permitted" /\ (body.exit \notin {NoExit, 0} \/ body.evidence # {})
  \/ /\ body.outcome = "refused"
     /\ \/ body.exit = 0
        \/ body.evidence = {}
        \/ ~(body.evidence \subseteq repo.text)
        \/ "refused" \notin body.requires
  \/ \E required \in body.requires : body.outcome # required

(* undeclared_refusal can hold it: no outcome declared, success expected.  *)
Undeclared(body) == body.outcome = "none" /\ body.exit = 0

-----------------------------------------------------------------------------
(***************************************************************************)
(* What a proposal becomes when it is written down: the command it cites,  *)
(* by its text and by its name, and the literals the command it runs was   *)
(* reviewed to print (bind_citations and bind_observations).  A proposal   *)
(* that copies a command's text instead of citing it records no citation.  *)
(***************************************************************************)
BindCitation(repo, body) ==
  IF \E e \in repo.entries : Of(e) = body.cited
  THEN [body EXCEPT !.source = NameFor(repo, body.cited)]
  ELSE [body EXCEPT !.cited = Uncited, !.extra = <<>>]

BindObservations(repo, body) ==
  LET owned == body.expects \intersect Established(repo, body.run)
  IN IF NameFor(repo, body.run) = Unnamed \/ owned = {} THEN body
     ELSE [body EXCEPT !.owned = owned, !.owner = NameFor(repo, body.run)]

Bind(repo, body) == BindObservations(repo, BindCitation(repo, body))

(* invocation_reasons and outcome_reasons: the refusals that say the       *)
(* generator asked for what no correct product does.                       *)
Misjudged(repo, body, category) == Impossible(repo, body, category) \/ Unlawful(repo, body)

-----------------------------------------------------------------------------
(***************************************************************************)
(* What a resume makes of a body.  A result is the body and whether it     *)
(* could be made to measure something the repository vouches for.          *)
(***************************************************************************)
Result(body, ok) == [body |-> body, ok |-> ok]

(* compile_to_scenario: what it runs is approved and what it needs is      *)
(* declared.                                                               *)
Compiles(repo, body) == Approves(repo, body.run) /\ body.services \subseteq repo.services

(* rebind_to_approved: by the text it cited while that stands, and by the  *)
(* name when the text was repaired.                                        *)
Rebind(repo, body) ==
  LET exact == {c \in {Of(e) : e \in repo.entries} : c = body.cited}
      current == IF exact # {} THEN exact ELSE Named(repo, body.source)
      base == CHOOSE c \in current : TRUE
      after == Command(base.text, base.tail \o body.extra)
  IN IF Compiles(repo, body) THEN Result(body, TRUE)
     ELSE IF current = {} \/ after = body.run \/ ~Approves(repo, after)
     THEN Result(body, FALSE)
     ELSE Result([body EXCEPT !.run = after, !.repaired = TRUE], TRUE)

(* _cannot_produce *)
CannotProduce(repo, body, literal, now, silence) ==
  /\ literal \notin now
  /\ IF Determined(repo, body.run) THEN ~Prints(repo, body.run, literal) ELSE silence

(* rebind_observations_to_approved: the literals the source owned and no   *)
(* longer prints give way to what it is now reviewed to print.  Where no   *)
(* ownership was recorded, a command that was once rebound makes suspect   *)
(* what no command of the repository prints.                               *)
Rematerialize(repo, body) ==
  LET recorded == body.owner # Unnamed
      name == IF recorded THEN body.owner ELSE body.source
      now == EstablishedByName(repo, name)
      stale == {l \in body.expects :
                  IF recorded
                  THEN l \in body.owned /\ CannotProduce(repo, body, l, now, TRUE)
                  ELSE /\ body.repaired /\ now # {}
                       /\ l \notin UNION {e.prints : e \in repo.entries}
                       /\ CannotProduce(repo, body, l, now, FALSE)}
      kept == body.expects \ stale
  IN IF stale = {} THEN Result(body, TRUE)
     ELSE IF now = {} THEN Result(body, FALSE)
     ELSE Result([body EXCEPT
                    !.expects = kept \union now,
                    !.owner = name,
                    !.owned = now,
                    !.observes = IF @ \intersect stale = {} THEN @
                                 ELSE (@ \ stale) \union (now \ kept)],
                 TRUE)

(* reconstruct_miscited_commands: when all that is contested belongs to    *)
(* one command alone, and so does the rest, that is the one that is run.   *)
Reconstruct(repo, body) ==
  LET contested == {l \in body.expects : Contested(repo, body.run, l) # {}}
      owners == {c \in UNION {Contested(repo, body.run, l) : l \in contested} :
                   \A l \in contested : c \in Contested(repo, body.run, l)}
      owner == CHOOSE c \in owners : TRUE
  IN IF contested = {} THEN Result(body, TRUE)
     ELSE IF \/ Cardinality(owners) # 1
             \/ ~(body.expects \subseteq Established(repo, owner))
             \/ NameFor(repo, owner) = Unnamed
     THEN Result(body, FALSE)
     ELSE Result([body EXCEPT !.run = owner, !.source = NameFor(repo, owner),
                              !.cited = owner, !.extra = <<>>,
                              !.owned = body.expects, !.owner = NameFor(repo, owner)],
                 TRUE)

(* _recohere *)
Recohered(repo, fresh) ==
  LET rebuilt(r) == Result(r.body, r.ok /\ Coherent(repo, r.body))
  IN IF ~fresh.ok \/ Coherent(repo, fresh.body) THEN fresh
     ELSE rebuilt(Reconstruct(repo, fresh.body))
Recohere(repo, body) == Recohered(repo, Rematerialize(repo, body))

(* The order of a resume (restore_from_store): refused as impossible       *)
(* before anything else is asked of it, held if it contradicts the         *)
(* repository, then made to run what is approved now, then to measure what *)
(* that prints, and refused again if that made it an impossible one.       *)
Remade(body, after) ==
  [kind |-> IF after = body THEN "fine" ELSE "rebound", body |-> after]

Settled(repo, body, category, again) ==
  IF ~again.ok THEN [kind |-> "lost", body |-> again.body]
  ELSE IF Impossible(repo, again.body, category) THEN [kind |-> "impossible", body |-> body]
  ELSE Remade(body, again.body)

(* A faulty variant: what was rebound is not made to measure what it now   *)
(* prints.                                                                 *)
ReboundOnly(repo, body, category, rebound) ==
  IF ~rebound.ok THEN [kind |-> "lost", body |-> body]
  ELSE IF rebound.body # body THEN Remade(body, rebound.body)
  ELSE Settled(repo, body, category, Recohere(repo, rebound.body))

Rebound(repo, body, category, rebound) ==
  IF ~rebound.ok THEN [kind |-> "lost", body |-> body]
  ELSE IF Impossible(repo, rebound.body, category) THEN [kind |-> "impossible", body |-> body]
  ELSE IF ~Compiles(repo, rebound.body) THEN [kind |-> "lost", body |-> body]
  ELSE Settled(repo, body, category, Recohere(repo, rebound.body))

Reading(repo, body, category, met) ==
  IF Impossible(repo, body, category) THEN [kind |-> "impossible", body |-> body]
  ELSE IF met \/ Contradicted(repo, body) THEN [kind |-> "held", body |-> body]
  ELSE Rebound(repo, body, category, Rebind(repo, body))
=============================================================================
