------------------------------- MODULE Ownership -------------------------------
(***************************************************************************)
(* Who owns a repository (neyma_product_driver/ownership.py): the lock of  *)
(* the builder's worktree, taken around a builder session (builder.py),    *)
(* and the lock of the finalizer, which the command guard probes before a  *)
(* builder may launch one (command_guard.py).                              *)
(*                                                                         *)
(* A lock is a file.  The kernel knows which open descriptor holds it and  *)
(* frees it when that process dies; the record in the file names the owner *)
(* for humans and decides nothing.  Nobody deletes the file.               *)
(***************************************************************************)
CONSTANTS
  Builders,    \* processes with a builder session
  Finalizers,  \* processes that finalize the repository
  NoOne,
  Missing,     \* the lock file was never created
  Unreadable   \* its content is empty or torn

Processes == Builders \cup Finalizers

Locks == {"worktree", "finalizer"}

LockOf(p) == IF p \in Builders THEN "worktree" ELSE "finalizer"

ASSUME OwnershipAssumption ==
  /\ Builders \cap Finalizers = {}
  /\ {NoOne, Missing, Unreadable} \cap Processes = {}
  /\ Missing # Unreadable

VARIABLES
  kernel,  \* the process whose descriptor holds each lock
  file,    \* the process each lock's file names
  pc       \* where each process is

vars == <<kernel, file, pc>>

\* Inside the lock, from the kernel's yes to the release.
Holding == {"label", "write", "begin", "session", "probing", "launching", "clear",
            "unlock"}

\* After acquire() has returned and before release() is called.
Owning == {"begin", "session", "probing", "launching"}

Goes(p, place) == pc' = [pc EXCEPT ![p] = place]

Free(p) == [l \in Locks |-> IF kernel[l] = p THEN NoOne ELSE kernel[l]]

-----------------------------------------------------------------------------
(* RepoLock.acquire.                                                       *)

\* Open without truncating, creating it if need be.
Open(p) ==
  /\ pc[p] = "off"
  /\ file' = [file EXCEPT ![LockOf(p)] = IF @ = Missing THEN Unreadable ELSE @]
  /\ Goes(p, "try")
  /\ UNCHANGED kernel

\* Reclaiming a lock whose record does not say who owns it.
LockUnlessNamed(p) ==
  /\ pc[p] = "try"
  /\ kernel[LockOf(p)] = NoOne \/ file[LockOf(p)] = Unreadable
  /\ kernel' = [kernel EXCEPT ![LockOf(p)] = p]
  /\ Goes(p, "label")
  /\ UNCHANGED file

Lock(p) ==
  /\ pc[p] = "try"
  /\ kernel[LockOf(p)] = NoOne
  /\ kernel' = [kernel EXCEPT ![LockOf(p)] = p]
  /\ Goes(p, "label")
  /\ UNCHANGED file

\* LockHeld is raised: never blocks, never steals.
Refuse(p) ==
  /\ pc[p] = "try"
  /\ kernel[LockOf(p)] # NoOne
  /\ Goes(p, "off")
  /\ UNCHANGED <<kernel, file>>

Label(p) ==
  /\ pc[p] = "label"
  /\ file' = [file EXCEPT ![LockOf(p)] = Unreadable]
  /\ Goes(p, "write")
  /\ UNCHANGED kernel

Write(p) ==
  /\ pc[p] = "write"
  /\ file' = [file EXCEPT ![LockOf(p)] = p]
  /\ Goes(p, "begin")
  /\ UNCHANGED kernel

\* The error passes on with the lock still taken.
LabelRaises(p) ==
  /\ pc[p] \in {"label", "write"}
  /\ Goes(p, "off")
  /\ UNCHANGED <<kernel, file>>

\* An unlabelled lock is not left held.
LabelFails(p) ==
  /\ pc[p] \in {"label", "write"}
  /\ kernel' = Free(p)
  /\ Goes(p, "off")
  /\ UNCHANGED file

-----------------------------------------------------------------------------
(* RepoLock.release.                                                       *)

\* The record is cleared while the lock is still held; a failure to clear it
\* is ignored.
Clear(p) ==
  /\ pc[p] = "clear"
  /\ file' \in {file, [file EXCEPT ![LockOf(p)] = Unreadable]}
  /\ Goes(p, "unlock")
  /\ UNCHANGED kernel

Unlock(p) ==
  /\ pc[p] = "unlock"
  /\ kernel' = Free(p)
  /\ Goes(p, "off")
  /\ UNCHANGED file

-----------------------------------------------------------------------------
(* The owners.                                                             *)

\* BuilderSession.__aenter__: connect under the lock, or release it and raise.
Connect(b) ==
  /\ pc[b] = "begin"
  /\ \E next \in {"session", "clear"} : Goes(b, next)
  /\ UNCHANGED <<kernel, file>>

\* close(): whatever disconnecting does, the worktree is released.
Close(b) ==
  /\ pc[b] = "session"
  /\ Goes(b, "clear")
  /\ UNCHANGED <<kernel, file>>

\* finalizer_lock: the finalizer ends, or raises.
Finish(f) ==
  /\ pc[f] = "begin"
  /\ Goes(f, "clear")
  /\ UNCHANGED <<kernel, file>>

\* held_by_other: without a file that can be opened, nobody holds the lock.
SeeNoLock(b) ==
  /\ pc[b] = "session"
  /\ Goes(b, "launching")
  /\ UNCHANGED <<kernel, file>>

\* Otherwise ask the kernel, by taking the lock.  A refusal denies the launch,
\* and the session goes on.
Probe(b) ==
  /\ pc[b] = "session"
  /\ file["finalizer"] # Missing
  /\ kernel["finalizer"] = NoOne
  /\ kernel' = [kernel EXCEPT !["finalizer"] = b]
  /\ Goes(b, "probing")
  /\ UNCHANGED file

Probed(b) ==
  /\ pc[b] = "probing"
  /\ kernel' = [kernel EXCEPT !["finalizer"] = NoOne]
  /\ Goes(b, "launching")
  /\ UNCHANGED file

\* The command is classified further, and may run.
Launch(b, f) ==
  /\ pc[b] = "launching"
  /\ pc[f] = "off"
  /\ file' = [file EXCEPT !["finalizer"] = IF @ = Missing THEN Unreadable ELSE @]
  /\ pc' = [pc EXCEPT ![b] = "session", ![f] = "try"]
  /\ UNCHANGED kernel

LaunchNothing(b) ==
  /\ pc[b] = "launching"
  /\ Goes(b, "session")
  /\ UNCHANGED <<kernel, file>>

\* The kernel releases what a dead process held; the record stays.
Crash(p) ==
  /\ pc[p] # "off"
  /\ kernel' = Free(p)
  /\ Goes(p, "off")
  /\ UNCHANGED file

-----------------------------------------------------------------------------
Init ==
  /\ kernel = [l \in Locks |-> NoOne]
  /\ file = [l \in Locks |-> Missing]
  /\ pc = [p \in Processes |-> "off"]

Acquire(p) == Open(p) \/ Lock(p) \/ Refuse(p) \/ Label(p) \/ Write(p) \/ LabelFails(p)

Release(p) == Clear(p) \/ Unlock(p)

Session(b) ==
  \/ Connect(b) \/ Close(b) \/ SeeNoLock(b) \/ Probe(b) \/ Probed(b)
  \/ LaunchNothing(b)
  \/ \E f \in Finalizers : Launch(b, f)

Next ==
  \/ \E p \in Processes : Acquire(p) \/ Release(p) \/ Crash(p)
  \/ \E b \in Builders : Session(b)
  \/ \E f \in Finalizers : Finish(f)

Spec == Init /\ [][Next]_vars

-----------------------------------------------------------------------------
(* Properties.                                                             *)

\* Every variable stays in its domain, and a lock that is held is a lock on the
\* one file everybody opens.
TypeOK ==
  /\ kernel \in [Locks -> Processes \cup {NoOne}]
  /\ file \in [Locks -> Processes \cup {Missing, Unreadable}]
  /\ pc \in [Processes -> Holding \cup {"off", "try"}]
  /\ \A l \in Locks : kernel[l] # NoOne => file[l] # Missing

\* No lock is held by a process that is not inside it: whatever raises on the
\* way in or out, and wherever a process dies, the lock is free again.  (The
\* comments of acquire and of BuilderSession.close.)
HeldFromInside ==
  \A l \in Locks : kernel[l] # NoOne =>
    \/ LockOf(kernel[l]) = l /\ pc[kernel[l]] \in Holding
    \/ l = "finalizer" /\ kernel[l] \in Builders /\ pc[kernel[l]] = "probing"

\* From the return of acquire() to the release, the file names its owner,
\* whoever else opens, probes, is refused, leaves or dies.
OwnerIsNamed ==
  \A p \in Processes : pc[p] \in Owning => file[LockOf(p)] = p

\* Two builders never share a worktree, and two finalizers never run at once.
Owners == [l \in Locks |-> {p \in Processes : LockOf(p) = l /\ pc[p] \in Holding}]

Promise == INSTANCE ExclusiveOwner WITH owners <- Owners

OwnersAreExclusive == Promise!Spec
=============================================================================
