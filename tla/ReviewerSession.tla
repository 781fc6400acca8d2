-------------------------- MODULE ReviewerSession --------------------------
(***************************************************************************)
(* One session of the independent reviewer                                 *)
(* (neyma_product_driver/reviewer.py and reviewer_evidence.py): what its   *)
(* hooks admit and record, what the harness makes of each command, and the *)
(* review that is bound to it.                                             *)
(*                                                                         *)
(* A session is a transcript, the order in which the reviewer asked for    *)
(* tools and the answers came back.  Tools of one turn run side by side,   *)
(* so an answer may come after a later request, and two requests of one    *)
(* text may be open at once.  Output is the set of words found in it.      *)
(***************************************************************************)
EXTENDS CommandBoundary, Sequences

CONSTANTS
  Transcripts,     \* what may happen in a session
  Replies,         \* what a reviewer may answer
  Checks,          \* the commands and state checks of its scenario files
  ExecutionAvailable, \* config.review.reviewer_can_execute
  NoOracle         \* nothing was declared for a command

Verdicts == {"SUPPORTED", "NOT_SUPPORTED", "INSUFFICIENT_EVIDENCE"}

BlockerKinds == {"NONE", "PRODUCT_DEFECT", "VERIFICATION_HARNESS",
                 "REVIEWER_CAPABILITY", "REPOSITORY_AUTHORITY", "EXTERNAL_ACTION"}

(* What the runtime is trusted for, of an answer the hooks hear of: what   *)
(* is readable and is not reported to have failed ran to its end, and left *)
(* the code it shows, or none but 0 where it shows none.                   *)
Truthful(r, failed) ==
  LET code == IF r.shape = "dict" THEN r.code ELSE {}
  IN \/ failed \/ r.shape = "unreadable"
     \/ r.shape = "dict" /\ (r.interrupted \/ (r.isError /\ code = {}))
     \/ r.completed /\ (IF code = {} THEN r.exit = 0 ELSE code = {r.exit})

(* A transcript is a sequence of requests and answers; no two requests     *)
(* share the id of a tool use (0: it carries none).                        *)
Transcript(t) ==
  /\ t \in Seq({t[k] : k \in DOMAIN t})
  /\ \A k \in DOMAIN t :
       /\ t[k].what \in {"asks", "answers"}
       /\ t[k].what = "answers" => Truthful(t[k].response, t[k].failed)
       /\ \A j \in DOMAIN t :
            t[j].what = "asks" /\ t[k].what = "asks" /\ t[j].id = t[k].id /\ t[k].id # 0
              => j = k

ASSUME SessionAssumption ==
  /\ ExecutionAvailable \in BOOLEAN
  /\ \A r \in Replies : r.verdict \in Verdicts /\ r.blocker \in BlockerKinds
  /\ \A t \in Transcripts : Transcript(t)

(***************************************************************************)
(* An oracle, and the harness's reading of a tool response.                *)
(***************************************************************************)
(* An exit code is a set: of one code, or of none where there is none.     *)
(* EvidenceExpectation *)
Oracle(named, code, contains, absent) ==
  [named |-> named, code |-> code, contains |-> contains, absent |-> absent]

Deterministic(o) ==
  /\ o # NoOracle
  /\ o.named
  /\ o.code # {} \/ o.contains # {} \/ o.absent # {}

(* observation_from_tool_response: a response that carries no code and     *)
(* reports no failure is read as a success, one that cannot be read is     *)
(* not.                                                                    *)
Observation(e) ==
  LET r == e.response
      seen == r.shape # "unreadable"
      code == IF r.shape = "dict" THEN r.code ELSE {}
      failed == \/ e.failed
                \/ r.shape = "dict" /\ r.interrupted
                \/ r.shape = "dict" /\ r.isError /\ code = {}
  IN [code |-> IF code = {} /\ ~failed /\ seen THEN {0} ELSE code,
      output |-> r.output, failed |-> failed, result |-> seen \/ failed]

(* evaluate_expectation *)
Met(o, obs) ==
  /\ o.code # {} => obs.code = o.code
  /\ o.contains \subseteq obs.output
  /\ o.absent \intersect obs.output = {}
  /\ o.contains \union o.absent # {} => obs.output # {}

(* classify_evidence *)
Classify(t, allowed, obs, o) ==
  IF ~allowed THEN "REFUSED"
  ELSE IF obs = {} \/ \E b \in obs : ~b.result THEN "OBSERVATION_MISSING"
  ELSE LET b == CHOOSE x \in obs : TRUE
           announced == Deterministic(o) /\ o.code # {}
       IN IF b.failed \/ (~announced /\ b.code \notin {{}, {0}})
          THEN "COMMAND_ERRORED"
          ELSE IF ~Deterministic(o) THEN "REVIEWER_INSPECTED"
          ELSE IF ~Met(o, b) THEN "EXPECTATION_FAILED"
          ELSE IF Kind(t) = "RUNTIME" THEN "RUNTIME_REPRODUCED"
          ELSE "STRUCTURAL_VERIFIED"

-----------------------------------------------------------------------------
(***************************************************************************)
(* The oracles the repository declares.                                    *)
(***************************************************************************)
(* expectations_from_scenarios: a command's own code and words, or those of *)
(* a state check, which must succeed.                                      *)
DeclaredPairs ==
  [i \in DOMAIN Checks |->
     [text |-> Checks[i].text,
      oracle |-> IF Checks[i].state
                 THEN Oracle(TRUE, {0}, Checks[i].contains, Checks[i].absent)
                 ELSE Oracle(TRUE, Checks[i].code, Checks[i].contains, {})]]

(* DeclaredExpectations: the first deterministic oracle of a text stands.  *)
DeclaredTexts == {DeclaredPairs[i].text : i \in
                    {j \in DOMAIN DeclaredPairs : Deterministic(DeclaredPairs[j].oracle)}}
FirstDeclared(t) ==
  LET own == SelectSeq(DeclaredPairs,
                       LAMBDA p : p.text = t /\ Deterministic(p.oracle))
  IN own[1].oracle

(* DeclaredExpectations.for_command: its own, or the longest it extends.   *)
ForCommand(t) ==
  LET keys == ({t} \union Text[t].begins) \intersect DeclaredTexts
  IN IF keys = {} THEN NoOracle
     ELSE FirstDeclared(CHOOSE k \in keys :
                          \A l \in keys : Text[l].length <= Text[k].length)

(* The oracle a command is measured against: the repository's, and the     *)
(* reviewer's own only where the repository declares none.                 *)
OracleFor(t, reply) ==
  LET declared == ForCommand(t)
  IN IF declared # NoOracle THEN declared ELSE reply.oracles[t]

-----------------------------------------------------------------------------
(***************************************************************************)
(* The hooks.                                                              *)
(***************************************************************************)
AllowedCount(executions) ==
  Cardinality({i \in DOMAIN executions : executions[i].allowed})

(* _pre_tool_use_hook and ReviewerCommandPolicy.record: every shell request *)
(* is written down with its verdict; _can_use_tool denies what no hook saw. *)
Requested(executions, e) ==
  IF e.tool # "Bash" \/ ~ExecutionAvailable THEN executions
  ELSE Append(executions,
              [text |-> e.text, id |-> e.id, observed |-> {},
               allowed |-> ToolAllowed("Bash", e.text, ExecutionAvailable,
                                       AllowedCount(executions))])

(* A faulty variant: an answer goes to the newest request still open.      *)
NewestOpen(executions, e) ==
  {i \in DOMAIN executions : executions[i].observed = {}}

(* ReviewerCommandPolicy.observe: whose answer this is, by its id, else    *)
(* the open requests of its text; the newest of them takes it.             *)
Answered(executions, e) ==
  LET byId == {i \in DOMAIN executions : e.id # 0 /\ executions[i].id = e.id}
  IN IF byId # {} THEN byId
     ELSE {i \in DOMAIN executions : /\ executions[i].text = e.text
                                     /\ executions[i].observed = {}}

(* _observe, from either of the two hooks that run after a tool.           *)
Observed(executions, e) ==
  LET mine == Answered(executions, e)
      newest == CHOOSE i \in mine : \A j \in mine : j <= i
  IN IF e.tool # "Bash" \/ ~ExecutionAvailable \/ mine = {} THEN executions
     ELSE [executions EXCEPT ![newest].observed = {Observation(e)}]

Taken(executions, e) ==
  IF e.what = "asks" THEN Requested(executions, e) ELSE Observed(executions, e)

(* The executions after each of the first steps of a session, and those it *)
(* leaves behind.                                                          *)
After(transcript) ==
  LET after[k \in 0..Len(transcript)] ==
        IF k = 0 THEN <<>> ELSE Taken(after[k - 1], transcript[k])
  IN after
Executions(transcript) == After(transcript)[Len(transcript)]

(***************************************************************************)
(* What the driver's runtime does with the session's hooks: a tool runs    *)
(* only if the request was admitted, and answers it once.                  *)
(***************************************************************************)
RunsOnlyAdmitted(transcript) ==
  \A k \in DOMAIN transcript : transcript[k].what = "answers" =>
    LET e == transcript[k]
    IN /\ e.asked \in 1..(k - 1)
       /\ transcript[e.asked].what = "asks"
       /\ transcript[e.asked].tool = e.tool
       /\ transcript[e.asked].text = e.text
       /\ transcript[e.asked].id = e.id
       /\ \A j \in 1..(k - 1) : transcript[j].what = "answers"
                                  => transcript[j].asked # e.asked
       /\ ToolAllowed(e.tool, e.text, ExecutionAvailable,
                      AllowedCount(Executions(SubSeq(transcript, 1, e.asked - 1))))

-----------------------------------------------------------------------------
(***************************************************************************)
(* The review.                                                             *)
(***************************************************************************)
Kinds == {"RUNTIME", "STRUCTURAL"}
Bases == Kinds \union {"FAILED", "INSPECTED", "CORROBORATED"}

(* IndependentReviewerSession.evidence_for: a status for each execution.   *)
Evidence(executions, reply) ==
  {Classify(executions[i].text, executions[i].allowed, executions[i].observed,
            OracleFor(executions[i].text, reply)) : i \in DOMAIN executions}

(* EvidenceLedger.basis: the strongest thing the statuses support.         *)
Basis(statuses) ==
  IF "RUNTIME_REPRODUCED" \in statuses THEN "RUNTIME"
  ELSE IF "STRUCTURAL_VERIFIED" \in statuses THEN "STRUCTURAL"
  ELSE IF statuses \intersect {"EXPECTATION_FAILED", "COMMAND_ERRORED",
                               "OBSERVATION_MISSING"} # {} THEN "FAILED"
  ELSE IF "REVIEWER_INSPECTED" \in statuses THEN "INSPECTED"
  ELSE "CORROBORATED"

(* _collect, parse_review and review: how a session's answer ends.  What   *)
(* is not a review, an error and a session out of time are insufficient    *)
(* evidence, and what was run is bound to them like to any other.          *)
Silent(reply) ==
  [verdict |-> "INSUFFICIENT_EVIDENCE", blocker |-> "NONE", findings |-> {},
   session |-> reply.session, claims |-> FALSE,
   oracles |-> [t \in Texts |-> NoOracle]]
Collected(reply) ==
  CASE reply.ends = "structured" -> IF reply.valid THEN reply ELSE Silent(reply)
    [] reply.ends = "text" -> IF reply.valid THEN reply ELSE Silent(reply)
    [] OTHER -> Silent(reply)

(* grounded_findings: it names a place, and it is a blocker or a major.    *)
Grounded(findings) ==
  \E n \in findings : n.cites /\ n.severity \in {"blocker", "major"}

(* What the answers that really came back established, request by request, *)
(* against the oracle in force: kept to hold the record against.           *)
Measured(transcript, reply) ==
  {k \in Kinds : \E i \in DOMAIN transcript :
     LET e == transcript[i]
         o == OracleFor(e.text, reply)
     IN /\ e.what = "answers" /\ e.tool = "Bash" /\ Kind(e.text) = k
        /\ Deterministic(o)
        /\ ~e.failed /\ e.response.completed
        /\ {e.response.exit} = (IF o.code = {} THEN {0} ELSE o.code)
        /\ o.contains \subseteq e.response.output
        /\ o.absent \intersect e.response.output = {}}

(* IndependentReviewerSession.bind: the answer with what the harness holds *)
(* of the session; a claim to have reproduced is only ever corrected down. *)
Bind(reply, transcript) ==
  LET said == Collected(reply)
      executions == Executions(transcript)
      statuses == Evidence(executions, said)
      executed == \E i \in DOMAIN executions : executions[i].allowed
  IN [verdict |-> said.verdict, blocker |-> said.blocker,
      grounded |-> Grounded(said.findings), executed |-> executed,
      ownSession |-> said.session = "builder",
      reproduced |-> said.claims /\ executed /\ "RUNTIME_REPRODUCED" \in statuses,
      basis |-> Basis(statuses),
      measured |-> Measured(transcript, said)]

(* What a session can return to the loop.                                  *)
Reviews == {Bind(reply, transcript) :
              reply \in Replies,
              transcript \in {t \in Transcripts : RunsOnlyAdmitted(t)}}
=============================================================================
