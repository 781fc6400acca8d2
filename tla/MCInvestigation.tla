------------------------- MODULE MCInvestigation -------------------------
(***************************************************************************)
(* A small instance: three explanations of a red suite, five probes, a     *)
(* repository that may move twice.                                         *)
(***************************************************************************)
EXTENDS Investigation

Predicts(key, value, equal) == [key |-> key, value |-> value, equal |-> equal]
Signal(key, value) == [key |-> key, value |-> value]

\* Two explanations share the red suite and disagree on the commit topology; the
\* third is the builder's story of a blocked socket.
MCHypotheses ==
    <<[prior |-> 300, predicts |-> {Predicts("suite", "red", TRUE), Predicts("gate", "failed", TRUE),
                                    Predicts("topology", "bad", TRUE)}],
      [prior |-> 300, predicts |-> {Predicts("suite", "red", TRUE), Predicts("topology", "bad", FALSE)}],
      [prior |-> 480, predicts |-> {Predicts("claim", "socket", TRUE), Predicts("socket", "true", TRUE),
                                    Predicts("finalizer", "failed", TRUE)}]>>

Design(name, kind, has, consequential, absent) ==
    [name |-> name, kind |-> kind, has |-> has, readOnly |-> TRUE,
     consequential |-> consequential, absent |-> absent]

Classify == Design("classify", "CLASSIFY_COMMITS", {}, FALSE, {})
Grep == Design("grep", "COMMAND", {"readonly tool"}, FALSE, {Signal("socket", "false")})
Build == Design("make", "COMMAND", {}, FALSE, {})
Reset == Design("reset", "COMMAND", {"readonly tool"}, TRUE, {})

MCProbes == {Classify, Grep, Build, Reset}
MCTrees == {"before", "after"}

Observed(reliability, signals) == [reliability |-> reliability, signals |-> signals]
MCFacts == [before |-> <<Observed("DIRECT", {Signal("suite", "red")}),
                         Observed("DIRECT", {Signal("gate", "failed")})>>,
            after |-> <<Observed("DIRECT", {Signal("suite", "green")}),
                        Observed("DERIVED", {Signal("finalizer", "executed")})>>]
MCClaims == <<Observed("REPORTED", {Signal("claim", "socket")})>>

\* The commit topology is what the tree says it is; the socket check is flaky.
MCAnswers ==
    [p \in MCProbes |->
        [t \in MCTrees |->
            IF p = Classify THEN {{Signal("topology", IF t = "before" THEN "bad" ELSE "good")}}
            ELSE {{Signal("socket", "true")}, {}}]]

Quiet == [explicit |-> FALSE, contradictions |-> FALSE, status |-> "CONSISTENT",
          environmentBlocked |-> FALSE, deadlocked |-> FALSE, conflicting |-> FALSE,
          unprovenBlocker |-> FALSE, scenarioPassed |-> FALSE, canonicalRed |-> FALSE,
          sameFailureTwice |-> FALSE, lowConfidence |-> FALSE, claimsEnvironment |-> FALSE,
          suiteFailed |-> FALSE, claimsSuccess |-> FALSE, safety |-> FALSE]

MCTriggers ==
    {Quiet, [Quiet EXCEPT !.explicit = TRUE], [Quiet EXCEPT !.deadlocked = TRUE, !.status = "DEADLOCK"],
     [Quiet EXCEPT !.suiteFailed = TRUE, !.claimsSuccess = TRUE, !.safety = TRUE]}
=============================================================================
