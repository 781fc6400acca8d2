---------------------------- MODULE AppendOnlyRun ----------------------------
(***************************************************************************)
(* What the evidence of a run promises, without saying how: a number, once *)
(* claimed, belongs to the session that claimed it; numbers are claimed in *)
(* ascending order, whoever claims them; a file of an iteration is written *)
(* by the session that owns the number; and nothing that was written is    *)
(* ever replaced or removed.                                               *)
(*                                                                         *)
(* It stands for the contract of EvidenceStore.allocate_iteration and      *)
(* next_iteration (evidence.py); EvidenceStore implements it.              *)
(***************************************************************************)
EXTENDS Naturals

CONSTANTS Kinds, Sayings

VARIABLES
  claimed,  \* who owns which number
  written   \* the files of the iterations

ledger == <<claimed, written>>

Init ==
  /\ claimed = {}
  /\ written = {}

Claim ==
  /\ \E c \in claimed' :
       /\ claimed' = claimed \cup {c}
       /\ \A earlier \in claimed : earlier.number < c.number
  /\ UNCHANGED written

Write ==
  /\ \E f \in written' :
       /\ written' = written \cup {f}
       /\ f.kind \in Kinds /\ f.says \in Sayings
       /\ [number |-> f.number, by |-> f.by] \in claimed
       /\ \A g \in written : g.kind = f.kind => g.number # f.number
  /\ UNCHANGED claimed

Next == Claim \/ Write

Spec == Init /\ [][Next]_ledger
=============================================================================
