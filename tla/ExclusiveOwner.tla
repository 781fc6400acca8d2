---------------------------- MODULE ExclusiveOwner ----------------------------
(***************************************************************************)
(* What a repository lock promises: a lock is taken only while nobody owns *)
(* it, and owned until its owner leaves or dies.  Ownership implements it. *)
(***************************************************************************)
CONSTANTS Locks, Processes

VARIABLE owners  \* for each lock, the processes that own it

Init == owners = [l \in Locks |-> {}]

Take(l, p) ==
  /\ owners[l] = {}
  /\ owners' = [owners EXCEPT ![l] = {p}]

Leave(l, p) ==
  /\ p \in owners[l]
  /\ owners' = [owners EXCEPT ![l] = owners[l] \ {p}]

Next == \E l \in Locks, p \in Processes : Take(l, p) \/ Leave(l, p)

Spec == Init /\ [][Next]_owners
=============================================================================
