------------------------- MODULE ReviewedAcceptance -------------------------
(***************************************************************************)
(* What the review cycle promises, without saying how: the run has one     *)
(* tree it claims, a set of trees that an independent session vouches for  *)
(* at this moment, and it may close as accepted only if no review is owed  *)
(* or the claimed tree is vouched for.  Claiming a tree drops every other  *)
(* voucher, and a voucher can only be given to the tree that is claimed.   *)
(*                                                                         *)
(* It stands for the contract stated over cli.py's review step and         *)
(* review_cycle.py's ledger; ReviewCycle implements it.                    *)
(***************************************************************************)
CONSTANTS Trees, NoTree

VARIABLES
  subject,  \* the tree the run claims, NoTree before the first claim
  vouched,  \* trees with a standing independent review in support
  owed,     \* whether the task owes a review, on the facts as last read
  outcome   \* "open", "accepted" or "closed"

promise == <<subject, vouched, owed, outcome>>

Init ==
  /\ subject = NoTree
  /\ vouched = {}
  /\ owed \in BOOLEAN
  /\ outcome = "open"

\* The facts a requirement rests on are read again.
Reassess ==
  /\ outcome = "open"
  /\ owed' \in BOOLEAN
  /\ UNCHANGED <<subject, vouched, outcome>>

\* Claim a tree, possibly the same; vouchers for the others are gone.
Claim(t) ==
  /\ outcome = "open"
  /\ subject' = t
  /\ vouched' = vouched \cap {t}
  /\ outcome' \in {"open", "closed"}
  /\ UNCHANGED owed

\* A reviewer answers: the claimed tree may gain a voucher, nothing loses one.
Answer ==
  /\ outcome = "open"
  /\ subject # NoTree
  /\ vouched' \in {vouched, vouched \cup {subject}}
  /\ outcome' \in {"open", "closed"}
  /\ UNCHANGED <<subject, owed>>

Accept ==
  /\ outcome = "open"
  /\ owed => subject \in vouched
  /\ outcome' = "accepted"
  /\ UNCHANGED <<subject, vouched, owed>>

Close ==
  /\ outcome = "open"
  /\ outcome' = "closed"
  /\ UNCHANGED <<subject, vouched, owed>>

\* Another process takes the run up: nothing is vouched for any more.
Reopen ==
  /\ outcome # "open"
  /\ subject' = NoTree
  /\ vouched' = {}
  /\ outcome' = "open"
  /\ UNCHANGED owed

Next ==
  \/ Reassess
  \/ \E t \in Trees : Claim(t)
  \/ Answer
  \/ Accept
  \/ Close
  \/ Reopen

Spec == Init /\ [][Next]_promise
=============================================================================
