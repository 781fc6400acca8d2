---------------------------- MODULE EvidenceStore ----------------------------
(***************************************************************************)
(* The run directory and everybody who writes into it                      *)
(* (neyma_product_driver/evidence.py, with the driver loop, cmd_run,       *)
(* cmd_stop and cmd_review of cli.py as its users).                        *)
(*                                                                         *)
(* The disk: state.json, the STOP sentinel, the iteration directories and  *)
(* the files in them, accepted/.  No lock guards any of it.  A driver      *)
(* keeps a RunState in memory, loaded when it resumes and saved as a whole *)
(* at many points; `stop` and `review` load it, change it and save it as a *)
(* whole as well.  A save truncates the file before it writes it.  Any     *)
(* process may die between two steps.                                      *)
(*                                                                         *)
(* Only the parts of a RunState that the properties tell apart are kept.   *)
(* A session is one start of a driver process.  Saves that change none of  *)
(* the parts kept are left out.                                            *)
(***************************************************************************)
EXTENDS Naturals, FiniteSets

CONSTANTS
  Drivers,             \* `run` and `run --resume-run` processes
  Stops,               \* `stop` commands
  Reviews,             \* `review` commands
  Missing, Torn,       \* there is no state.json; it does not parse
  Squatted,            \* numbers whose name something else occupies
  AllocationAttempts,  \* _ALLOCATION_ATTEMPTS
  MaxIterations,       \* config.max_iterations
  MaxSessions,         \* bound of the model: starts of driver processes
  MaxCommands,         \* bound of the model: commands given to the run
  MaxClaims            \* bound of the model: iterations begun in all

\* BLOCKED stands for NEEDS_USER as well: the two end a run the same way.
Statuses == {"RUNNING", "ACCEPTED", "BLOCKED", "MAX_ITERATIONS", "STOPPED", "ERROR"}

Kinds   == {"suite", "verification", "record"}
Sayings == {"measured", "ACCEPT", "FIX", "BLOCKED"}

Sessions == 0..MaxSessions

File == [kind : Kinds, number : Nat, by : Sessions, says : Sayings]

RunState ==
  [status : Statuses, iteration : Nat, recorded : SUBSET File,
   obligation : Nat, stopRequested : BOOLEAN]

ASSUME StoreAssumption ==
  /\ Drivers \cap (Stops \cup Reviews) = {}
  /\ Stops \cap Reviews = {}
  /\ Missing # Torn
  /\ {Missing, Torn} \cap RunState = {}
  /\ Squatted \subseteq Nat
  /\ {AllocationAttempts, MaxIterations} \subseteq Nat \ {0}
  /\ {MaxSessions, MaxCommands, MaxClaims} \subseteq Nat

Actors == Drivers \cup Stops \cup Reviews

VARIABLES
  stateFile,  \* state.json
  stop,       \* the STOP sentinel is there
  dirs,       \* numbers of the iteration directories
  files,      \* what is in them
  accepted,   \* accepted/: whether it is there and whose files it holds
  mem,        \* the RunState each process holds
  pc, then,   \* where each process is, and where it goes after a save
  number,     \* the number a driver tries or has
  tries,      \* how many names allocate_iteration has found occupied
  attempt,    \* iterations this driver has begun
  session,    \* which start of a driver this is
  sessions,   \* starts so far
  claimed,    \* history: which session made which directory
  beyond      \* history: claims each driver made with the sentinel there

disk    == <<stateFile, stop, dirs, files, accepted>>
control == <<pc, then>>
loop    == <<number, tries, attempt>>
starts  == <<session, sessions>>
history == <<claimed, beyond>>

vars == <<disk, mem, control, loop, starts, history>>

-----------------------------------------------------------------------------
(* The store's operations.                                                 *)

Fresh == [status |-> "RUNNING", iteration |-> 0, recorded |-> {},
          obligation |-> 0, stopRequested |-> FALSE]

\* load_state answers None for a file that is missing or does not parse.
Readable == stateFile \notin {Missing, Torn}

Occupied == dirs \cup Squatted

\* Every number next_iteration reads: the directories, the state's pointer
\* and the records the state lists.
Known(s) == {0, s.iteration} \cup dirs \cup {r.number : r \in s.recorded}

IsNext(n, s) == \E k \in Known(s) : n = k + 1 /\ \A j \in Known(s) : j <= k

\* A file is written over whatever had its name.
Put(f) ==
  files' = {g \in files : g.kind # f.kind \/ g.number # f.number} \cup {f}

Of(p, kind, says) ==
  [kind |-> kind, number |-> number[p], by |-> session[p], says |-> says]

Goes(a, next) == pc' = [pc EXCEPT ![a] = next] /\ UNCHANGED then

\* The process changes its RunState to s, saves it, and goes on at next.
SavesThen(a, s, next) ==
  /\ mem' = [mem EXCEPT ![a] = s]
  /\ pc' = [pc EXCEPT ![a] = "save"]
  /\ then' = [then EXCEPT ![a] = next]

\* write_text opens the file for writing: the old content is gone.
BeginSave(a) ==
  /\ pc[a] = "save"
  /\ stateFile' = Torn
  /\ Goes(a, "saving")
  /\ UNCHANGED <<stop, dirs, files, accepted, mem, loop, starts, history>>

EndSave(a) ==
  /\ pc[a] = "saving"
  /\ then[a] # "off"
  /\ stateFile' = mem[a]
  /\ Goes(a, then[a])
  /\ UNCHANGED <<stop, dirs, files, accepted, mem, loop, starts, history>>

\* The process ends, and what it held is gone.
Ends(a) ==
  /\ pc' = [pc EXCEPT ![a] = IF a \in Drivers THEN "off" ELSE "done"]
  /\ then' = [then EXCEPT ![a] = "off"]
  /\ mem' = [mem EXCEPT ![a] = Fresh]
  /\ number' = [p \in Drivers |-> IF p = a THEN 0 ELSE number[p]]
  /\ tries' = [p \in Drivers |-> IF p = a THEN 0 ELSE tries[p]]
  /\ attempt' = [p \in Drivers |-> IF p = a THEN 0 ELSE attempt[p]]
  /\ session' = [p \in Drivers |-> IF p = a THEN 0 ELSE session[p]]
  /\ beyond' = [p \in Drivers |-> IF p = a THEN 0 ELSE beyond[p]]
  /\ UNCHANGED <<sessions, claimed>>

LastSave(a) ==
  /\ pc[a] = "saving"
  /\ then[a] = "off"
  /\ stateFile' = mem[a]
  /\ Ends(a)
  /\ UNCHANGED <<stop, dirs, files, accepted>>

-----------------------------------------------------------------------------
(* A driver process.                                                       *)

Init ==
  /\ stateFile = Missing
  /\ stop = FALSE
  /\ dirs = {} /\ files = {}
  /\ accepted = [made |-> FALSE, from |-> {}]
  /\ mem = [a \in Actors |-> Fresh]
  /\ pc = [a \in Actors |-> "off"]
  /\ then = [a \in Actors |-> "off"]
  /\ number = [p \in Drivers |-> 0]
  /\ tries = [p \in Drivers |-> 0]
  /\ attempt = [p \in Drivers |-> 0]
  /\ session = [p \in Drivers |-> 0]
  /\ sessions = 0
  /\ claimed = {}
  /\ beyond = [p \in Drivers |-> 0]

Starts(p) ==
  /\ pc[p] = "off"
  /\ sessions < MaxSessions
  /\ sessions' = sessions + 1
  /\ session' = [session EXCEPT ![p] = sessions + 1]

\* `run`: a new run id, so only the first process of the run starts this way.
Launch(p) ==
  /\ sessions = 0
  /\ Starts(p)
  /\ SavesThen(p, Fresh, "check")
  /\ UNCHANGED <<disk, loop, history>>

\* `run --resume-run`: refused when there is nothing to load, whatever the
\* status is otherwise, and whoever else may be driving the run.
Resume(p) ==
  /\ Readable
  /\ Starts(p)
  /\ mem' = [mem EXCEPT ![p] = stateFile]
  /\ Goes(p, "opened")
  /\ UNCHANGED <<disk, loop, history>>

Reopen(p) ==
  /\ pc[p] = "opened"
  /\ stop' = FALSE
  /\ beyond' = [q \in Drivers |-> 0]
  /\ SavesThen(p, [mem[p] EXCEPT !.status = "RUNNING"], "check")
  /\ UNCHANGED <<stateFile, dirs, files, accepted, loop, starts, claimed>>

\* The loop looks for the sentinel before it spends a number.
Halt(p) ==
  /\ pc[p] = "check"
  /\ stop
  /\ SavesThen(p, [mem[p] EXCEPT !.status = "STOPPED"], "off")
  /\ UNCHANGED <<disk, loop, starts, history>>

\* The loop asking the state it holds instead of the sentinel.
ProceedOnMemory(p) ==
  /\ pc[p] = "check"
  /\ ~mem[p].stopRequested
  /\ Goes(p, "number")
  /\ UNCHANGED <<disk, mem, loop, starts, history>>

Proceed(p) ==
  /\ pc[p] = "check"
  /\ ~stop
  /\ Goes(p, "number")
  /\ UNCHANGED <<disk, mem, loop, starts, history>>

NextIteration(p) ==
  /\ pc[p] = "number"
  /\ Cardinality(claimed) < MaxClaims
  /\ \E k \in Known(mem[p]) :
       /\ IsNext(k + 1, mem[p])
       /\ number' = [number EXCEPT ![p] = k + 1]
  /\ tries' = [tries EXCEPT ![p] = 0]
  /\ Goes(p, "claim")
  /\ UNCHANGED <<disk, mem, attempt, starts, history>>

\* mkdir with exist_ok.
ClaimDirectoryIfAny(p) ==
  /\ pc[p] = "claim"
  /\ number[p] \notin Squatted
  /\ dirs' = dirs \cup {number[p]}
  /\ claimed' = claimed \cup {[number |-> number[p], by |-> session[p]]}
  /\ beyond' = [beyond EXCEPT ![p] = IF stop THEN @ + 1 ELSE 0]
  /\ mem' = [mem EXCEPT ![p].iteration = number[p]]
  /\ attempt' = [attempt EXCEPT ![p] = @ + 1]
  /\ Goes(p, "work")
  /\ UNCHANGED <<stateFile, stop, files, accepted, number, tries, starts>>

\* mkdir without exist_ok: whoever makes the directory has the number.
ClaimDirectory(p) ==
  /\ pc[p] = "claim"
  /\ number[p] \notin Occupied
  /\ dirs' = dirs \cup {number[p]}
  /\ claimed' = claimed \cup {[number |-> number[p], by |-> session[p]]}
  /\ beyond' = [beyond EXCEPT ![p] = IF stop THEN @ + 1 ELSE 0]
  /\ mem' = [mem EXCEPT ![p].iteration = number[p]]
  /\ attempt' = [attempt EXCEPT ![p] = @ + 1]
  /\ Goes(p, "work")
  /\ UNCHANGED <<stateFile, stop, files, accepted, number, tries, starts>>

TryTheNext(p) ==
  /\ pc[p] = "claim"
  /\ number[p] \in Occupied
  /\ tries[p] + 1 < AllocationAttempts
  /\ number' = [number EXCEPT ![p] = @ + 1]
  /\ tries' = [tries EXCEPT ![p] = @ + 1]
  /\ UNCHANGED <<disk, mem, control, attempt, starts, history>>

\* IterationAllocationError reaches cmd_run, which saves ERROR.
AllocationRefused(p) ==
  /\ pc[p] = "claim"
  /\ number[p] \in Occupied
  /\ tries[p] + 1 >= AllocationAttempts
  /\ SavesThen(p, [mem[p] EXCEPT !.status = "ERROR"], "off")
  /\ UNCHANGED <<disk, loop, starts, history>>

\* The builder worked and the suite ran: its result is written at once.
RecordSuite(p) ==
  /\ pc[p] = "work"
  /\ Put(Of(p, "suite", "measured"))
  /\ Goes(p, "measure")
  /\ UNCHANGED <<stateFile, stop, dirs, accepted, mem, loop, starts, history>>

\* The diff changed verification: every pass persists the obligation on the
\* run, and the last of them it is then written beside the iteration.  A
\* record of a diff that changed no guard obliges to nothing and is left out.
PersistObligation(p) ==
  /\ pc[p] = "measure"
  /\ SavesThen(p, [mem[p] EXCEPT !.obligation = number[p]], "keep")
  /\ UNCHANGED <<disk, loop, starts, history>>

KeepVerification(p) ==
  /\ pc[p] = "keep"
  /\ Put(Of(p, "verification", "measured"))
  /\ Goes(p, "judge")
  /\ UNCHANGED <<stateFile, stop, dirs, accepted, mem, loop, starts, history>>

NothingToVerify(p) ==
  /\ pc[p] = "measure"
  /\ Goes(p, "judge")
  /\ UNCHANGED <<disk, mem, loop, starts, history>>

\* save_iteration, then the record joins the state, then save_state.
Concludes(p, verdict, status, next) ==
  /\ Put(Of(p, "record", verdict))
  /\ SavesThen(p, [mem[p] EXCEPT !.status = status,
                                 !.recorded = @ \cup {Of(p, "record", verdict)}],
               next)
  /\ UNCHANGED <<stateFile, stop, dirs, accepted, loop, starts, history>>

Correct(p) ==
  /\ pc[p] = "judge"
  /\ attempt[p] < MaxIterations
  /\ Concludes(p, "FIX", mem[p].status, "check")

\* The state saved, and the iteration left for afterwards.
AcceptUnrecorded(p) ==
  /\ pc[p] = "judge"
  /\ SavesThen(p, [mem[p] EXCEPT !.status = "ACCEPTED",
                                 !.recorded = @ \cup {Of(p, "record", "ACCEPT")}],
               "publish")
  /\ UNCHANGED <<disk, loop, starts, history>>

\* _terminate; an acceptance publishes the iteration afterwards.
Accept(p) ==
  /\ pc[p] = "judge"
  /\ Concludes(p, "ACCEPT", "ACCEPTED", "publish")

\* Every ending published like an acceptance.
EndPublished(p) ==
  /\ pc[p] = "judge"
  /\ Concludes(p, "BLOCKED", "BLOCKED", "publish")

End(p) ==
  /\ pc[p] = "judge"
  /\ \/ Concludes(p, "BLOCKED", "BLOCKED", "off")
     \/ /\ attempt[p] = MaxIterations
        /\ Concludes(p, "FIX", "MAX_ITERATIONS", "off")

\* Two builder errors that moved nothing.
Pause(p) ==
  /\ pc[p] = "work"
  /\ attempt[p] > 1
  /\ Concludes(p, "BLOCKED", "STOPPED", "off")

\* save_accepted: rmtree, then copytree, which refuses a directory it finds.
RemoveAccepted(p) ==
  /\ pc[p] = "publish"
  /\ accepted' = [made |-> FALSE, from |-> {}]
  /\ Goes(p, "make")
  /\ UNCHANGED <<stateFile, stop, dirs, files, mem, loop, starts, history>>

MakeAccepted(p) ==
  /\ pc[p] = "make"
  /\ ~accepted.made
  /\ accepted' = [made |-> TRUE, from |-> {}]
  /\ Goes(p, "copy")
  /\ UNCHANGED <<stateFile, stop, dirs, files, mem, loop, starts, history>>

CopyAccepted(p) ==
  /\ pc[p] = "copy"
  /\ accepted.made
  /\ accepted' = [accepted EXCEPT !.from = @ \cup {number[p]}]
  /\ Ends(p)
  /\ UNCHANGED <<stateFile, stop, dirs, files>>

PublishRefused(p) ==
  /\ \/ pc[p] = "make" /\ accepted.made
     \/ pc[p] = "copy" /\ ~accepted.made
  /\ SavesThen(p, [mem[p] EXCEPT !.status = "ERROR"], "off")
  /\ UNCHANGED <<disk, loop, starts, history>>

\* An exception while a session works; an interrupt that reaches cmd_run is
\* saved as STOPPED in the same way.
Abandon(p) ==
  /\ pc[p] \in {"work", "judge"}
  /\ SavesThen(p, [mem[p] EXCEPT !.status = "ERROR"], "off")
  /\ UNCHANGED <<disk, loop, starts, history>>

\* The process dies, wherever it is, and its memory with it.
Crash(a) ==
  /\ pc[a] \notin {"off", "done"}
  /\ Ends(a)
  /\ UNCHANGED disk

-----------------------------------------------------------------------------
(* The commands, each used once.                                           *)

Given == {c \in Stops \cup Reviews : pc[c] # "off"}

\* cmd_stop writes the sentinel, then marks the state, when it can read it.
RequestStop(c) ==
  /\ pc[c] = "off" /\ Cardinality(Given) < MaxCommands
  /\ sessions > 0
  /\ stop' = TRUE
  /\ Goes(c, "load")
  /\ UNCHANGED <<stateFile, dirs, files, accepted, mem, loop, starts, history>>

MarkStop(c) ==
  /\ pc[c] = "load"
  /\ Readable
  /\ SavesThen(c, [stateFile EXCEPT !.stopRequested = TRUE], "off")
  /\ UNCHANGED <<disk, loop, starts, history>>

MarkNothing(c) ==
  /\ pc[c] = "load"
  /\ ~Readable
  /\ Ends(c)
  /\ UNCHANGED disk

\* cmd_review loads the state and keeps it for as long as the reviewer takes.
OpenReview(c) ==
  /\ pc[c] = "off" /\ Cardinality(Given) < MaxCommands
  /\ Readable
  /\ mem' = [mem EXCEPT ![c] = stateFile]
  /\ Goes(c, "reviewing")
  /\ UNCHANGED <<disk, loop, starts, history>>

\* The last record it loaded is saved again, with the review, and the state.
FileReview(c) ==
  /\ pc[c] = "reviewing"
  /\ \E last \in mem[c].recorded :
       /\ \A r \in mem[c].recorded : r.number <= last.number
       /\ Put(last)
  /\ SavesThen(c, mem[c], "off")
  /\ UNCHANGED <<stateFile, stop, dirs, accepted, loop, starts, history>>

\* Without one the review goes into the newest directory, or the first.
FileReviewAlone(c) ==
  /\ pc[c] = "reviewing"
  /\ mem[c].recorded = {}
  /\ dirs' = IF dirs = {} THEN {1} \ Squatted ELSE dirs
  /\ Ends(c)
  /\ UNCHANGED <<stateFile, stop, files, accepted>>

-----------------------------------------------------------------------------
Save(a) == BeginSave(a) \/ EndSave(a) \/ LastSave(a)

Allocate(p) ==
  \/ NextIteration(p) \/ ClaimDirectory(p)
  \/ TryTheNext(p) \/ AllocationRefused(p)

Iterate(p) ==
  \/ RecordSuite(p) \/ PersistObligation(p) \/ KeepVerification(p)
  \/ NothingToVerify(p) \/ Correct(p) \/ Accept(p) \/ End(p) \/ Pause(p)
  \/ Abandon(p)

Publish(p) ==
  RemoveAccepted(p) \/ MakeAccepted(p) \/ CopyAccepted(p) \/ PublishRefused(p)

Drive(p) ==
  \/ Launch(p) \/ Resume(p) \/ Reopen(p) \/ Halt(p) \/ Proceed(p)
  \/ Allocate(p) \/ Iterate(p) \/ Publish(p)

StopCommand(c) == RequestStop(c) \/ MarkStop(c) \/ MarkNothing(c)

ReviewCommand(c) == OpenReview(c) \/ FileReview(c) \/ FileReviewAlone(c)

Next ==
  \/ \E p \in Drivers : Drive(p)
  \/ \E c \in Stops : StopCommand(c)
  \/ \E c \in Reviews : ReviewCommand(c)
  \/ \E a \in Actors : Save(a) \/ Crash(a)

Spec == Init /\ [][Next]_vars

-----------------------------------------------------------------------------
(* Properties.                                                             *)

DriverPlaces == {"off", "opened", "check", "number", "claim", "work", "measure",
                 "keep", "judge", "publish", "make", "copy", "save", "saving"}

CommandPlaces == {"off", "load", "reviewing", "save", "saving", "done"}

\* Every variable stays in its domain.
TypeOK ==
  /\ stateFile \in RunState \cup {Missing, Torn}
  /\ stop \in BOOLEAN
  /\ dirs \subseteq Nat /\ files \subseteq File
  /\ accepted \in [made : BOOLEAN, from : SUBSET Nat]
  /\ mem \in [Actors -> RunState]
  /\ pc \in [Actors -> DriverPlaces \cup CommandPlaces]
  /\ then \in [Actors -> DriverPlaces \cup CommandPlaces]
  /\ {number, tries, attempt, beyond} \subseteq [Drivers -> Nat]
  /\ session \in [Drivers -> Sessions] /\ sessions \in Sessions
  /\ claimed \subseteq [number : Nat, by : Sessions]
  /\ \A p \in Drivers : attempt[p] <= MaxIterations /\ tries[p] < AllocationAttempts

\* state.json never names evidence that is not on disk: every iteration it
\* lists has its record, exactly as listed, and a run it calls accepted lists
\* the accepting record of the iteration it points at.  (_terminate saves the
\* iteration before the state; a crash, or a stale save by a command, must
\* not leave a state that claims more than the evidence shows.)
StateNamesEvidence ==
  Readable =>
    /\ stateFile.recorded \subseteq files
    /\ stateFile.status = "ACCEPTED" =>
         \E r \in stateFile.recorded :
           r.number = stateFile.iteration /\ r.says = "ACCEPT"

\* While the sentinel stands, a driver begins at most the one iteration it had
\* already looked past it for (cmd_stop: "halts before its next iteration").
StopIsHeeded == stop => \A p \in Drivers : beyond[p] <= 1

\* What accepted/ holds was accepted: the record that says so is on disk.
\* (save_accepted copies the directory as it stands.)
AcceptedWasAccepted ==
  \A n \in accepted.from :
    \E f \in files : f.kind = "record" /\ f.number = n /\ f.says = "ACCEPT"

\* Historical run evidence is append-only: see AppendOnlyRun.
Promise == INSTANCE AppendOnlyRun WITH written <- files

AppendOnly == Promise!Spec
=============================================================================
