------------------------ MODULE MCProtocolResolution ------------------------
(***************************************************************************)
(* Two repositories: one whose finalizer records the baseline and commits  *)
(* the receipt, one that measures every unit from its root.  Their         *)
(* documents state the strict protocol, contradict it, or authorize        *)
(* finalization by hand.                                                   *)
(***************************************************************************)
EXTENDS ProtocolResolution

Rule(kind, source, at, max, says) ==
  [kind |-> kind, source |-> source, at |-> at, max |-> max, says |-> says,
   rank |-> Rank("protocol", source, <<>>, FALSE), historical |-> FALSE, retires |-> ""]

MCStrict ==
  {Rule("COMMIT_TOPOLOGY", "protocol", 1, 1, {"metadata"}),
   Rule("FINALIZER_OWNERSHIP", "protocol", 2, 0, {"exclusive"}),
   Rule("CANONICAL_SUITE_GATE", "protocol", 3, 0, {"gates"}),
   Rule("RECEIPT_FRESHNESS", "protocol", 4, 0, {"must_match_head"}),
   Rule("STATUS_REALITY_GUARD", "protocol", 5, 0, {})}
MCContradicted ==
  MCStrict \union {Rule("COMMIT_TOPOLOGY", "manual", 6, 2, {}),
                   Rule("MANUAL_FINALIZATION_ALLOWED", "manual", 7, 0, {"authorized"})}
MCAmendments == {MCStrict, MCContradicted}

MCRecording ==
  [rules |-> MCStrict, order |-> <<>>, tag |-> 0, readable |-> TRUE, records |-> TRUE,
   commits |-> TRUE, stamped |-> FALSE, guard |-> TRUE, guardInSuite |-> TRUE,
   guardReads |-> TRUE]
MCFromRoot ==
  [MCRecording EXCEPT !.tag = 1, !.records = FALSE, !.commits = FALSE, !.stamped = TRUE]
MCRepositories == {MCRecording, MCFromRoot}
=============================================================================
