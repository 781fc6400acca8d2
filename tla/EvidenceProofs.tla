---------------------------- MODULE EvidenceProofs ----------------------------
(***************************************************************************)
(* What is proved of the record a run keeps: of EvidenceStore, for every   *)
(* number of processes and every bound; and of CoverageGaps, with the      *)
(* executions and suites of ScenarioExecution it rests on, for every       *)
(* register, scenario, world, tree, measurement and budget.                *)
(***************************************************************************)
EXTENDS EvidenceStore, CoverageGaps, FiniteSetTheorems, SequenceTheorems,
        WellFoundedInduction, TLAPS

MemoryTypes ==
  /\ stateFile \in RunState \cup {Missing, Torn}
  /\ mem \in [Actors -> RunState]

DiskTypes ==
  /\ stop \in BOOLEAN
  /\ dirs \subseteq Nat
  /\ files \subseteq File
  /\ accepted \in [made : BOOLEAN, from : SUBSET Nat]

PlaceTypes ==
  /\ pc \in [Actors -> DriverPlaces \cup CommandPlaces]
  /\ then \in [Actors -> DriverPlaces \cup CommandPlaces]
  /\ \A p \in Drivers :
       pc[p] \in DriverPlaces /\ then[p] \in {"off", "check", "keep", "publish"}
  /\ \A c \in Stops \cup Reviews : pc[c] \in CommandPlaces /\ then[c] = "off"

LoopTypes ==
  /\ number \in [Drivers -> Nat]
  /\ tries \in [Drivers -> Nat]
  /\ attempt \in [Drivers -> Nat]
  /\ beyond \in [Drivers -> Nat]
  /\ session \in [Drivers -> Sessions]
  /\ sessions \in Sessions
  /\ claimed \subseteq [number : Nat, by : Sessions]

Types == MemoryTypes /\ DiskTypes /\ PlaceTypes /\ LoopTypes

LEMMA OfIsFile ==
  ASSUME LoopTypes, NEW p \in Drivers, NEW k \in Kinds, NEW s \in Sayings
  PROVE  Of(p, k, s) \in File
BY DEF LoopTypes, Of, File

\* What next_iteration reads are numbers.
LEMMA KnownAreNumbers ==
  ASSUME Types, NEW a \in Actors PROVE Known(mem[a]) \subseteq Nat
<1>1. mem[a].iteration \in Nat /\ mem[a].recorded \subseteq File
  BY DEF Types, MemoryTypes, RunState
<1>2. \A r \in mem[a].recorded : r.number \in Nat
  BY <1>1 DEF File
<1> QED
  <2>1. ASSUME NEW k \in Known(mem[a]) PROVE k \in Nat
    BY <1>1, <1>2 DEF Known, Types, DiskTypes
  <2> QED
    BY <2>1

\* Places are kept by every step.
LEMMA PlaceStep ==
  ASSUME Types, [Next]_vars
  PROVE  PlaceTypes'
<1> USE StoreAssumption DEF disk, control, loop, starts, history
<1>1. ASSUME NEW p \in Drivers, Launch(p) \/ Resume(p) \/ Reopen(p)
      PROVE  PlaceTypes'
  BY <1>1 DEF Types, PlaceTypes, Actors, DriverPlaces, CommandPlaces, Launch,
     Resume, Reopen, SavesThen, Goes, Starts
<1>2. ASSUME NEW p \in Drivers, Halt(p) \/ Proceed(p) PROVE PlaceTypes'
  BY <1>2 DEF Types, PlaceTypes, Actors, DriverPlaces, CommandPlaces, Halt,
     Proceed, SavesThen, Goes
<1>3. ASSUME NEW p \in Drivers, NextIteration(p) PROVE PlaceTypes'
  BY <1>3 DEF Types, PlaceTypes, Actors, DriverPlaces, CommandPlaces,
     NextIteration, Goes
<1>4. ASSUME NEW p \in Drivers, ClaimDirectory(p) PROVE PlaceTypes'
  BY <1>4 DEF Types, PlaceTypes, Actors, DriverPlaces, CommandPlaces,
     ClaimDirectory, Goes
<1>5. ASSUME NEW p \in Drivers, TryTheNext(p) \/ AllocationRefused(p)
      PROVE  PlaceTypes'
  BY <1>5 DEF Types, PlaceTypes, Actors, DriverPlaces, CommandPlaces,
     TryTheNext, AllocationRefused, SavesThen
<1>6. ASSUME NEW p \in Drivers, RecordSuite(p) \/ KeepVerification(p)
      PROVE  PlaceTypes'
  BY <1>6 DEF Types, PlaceTypes, Actors, DriverPlaces, CommandPlaces,
     RecordSuite, KeepVerification, Goes, Put, Of
<1>7. ASSUME NEW p \in Drivers, PersistObligation(p) \/ NothingToVerify(p) \/
             Abandon(p)
      PROVE  PlaceTypes'
  BY <1>7 DEF Types, PlaceTypes, Actors, DriverPlaces, CommandPlaces,
     PersistObligation, NothingToVerify, Abandon, SavesThen, Goes
<1>8. ASSUME NEW p \in Drivers, Correct(p) \/ Accept(p) \/ End(p) \/ Pause(p)
      PROVE  PlaceTypes'
  BY <1>8 DEF Types, PlaceTypes, Actors, DriverPlaces, CommandPlaces, Correct,
     Accept, End, Pause, Concludes, SavesThen, Put, Of
<1>9. ASSUME NEW p \in Drivers, RemoveAccepted(p) \/ MakeAccepted(p) \/
             CopyAccepted(p) \/ PublishRefused(p)
      PROVE  PlaceTypes'
  BY <1>9 DEF Types, PlaceTypes, Actors, DriverPlaces, CommandPlaces,
     RemoveAccepted, MakeAccepted, CopyAccepted, PublishRefused, SavesThen,
     Goes, Ends
<1>10. ASSUME NEW c \in Stops, RequestStop(c) \/ MarkStop(c) \/ MarkNothing(c)
      PROVE  PlaceTypes'
  BY <1>10 DEF Types, PlaceTypes, Actors, DriverPlaces, CommandPlaces,
     RequestStop, MarkStop, MarkNothing, SavesThen, Goes, Ends
<1>11. ASSUME NEW c \in Reviews, OpenReview(c) \/ FileReviewAlone(c)
      PROVE  PlaceTypes'
  BY <1>11 DEF Types, PlaceTypes, Actors, DriverPlaces, CommandPlaces,
     OpenReview, FileReviewAlone, Goes, Ends
<1>12. ASSUME NEW c \in Reviews, FileReview(c) PROVE PlaceTypes'
  BY <1>12 DEF Types, PlaceTypes, Actors, DriverPlaces, CommandPlaces,
     FileReview, SavesThen, Put
<1>13. ASSUME NEW a \in Actors, BeginSave(a) \/ EndSave(a) PROVE PlaceTypes'
  BY <1>13 DEF Types, PlaceTypes, Actors, DriverPlaces, CommandPlaces,
     BeginSave, EndSave, Goes
<1>14. ASSUME NEW a \in Actors, LastSave(a) \/ Crash(a) PROVE PlaceTypes'
  BY <1>14 DEF Types, PlaceTypes, Actors, DriverPlaces, CommandPlaces,
     LastSave, Crash, Ends
<1>15. CASE UNCHANGED vars
  BY <1>15 DEF Types, PlaceTypes, Actors, DriverPlaces, CommandPlaces, vars
<1> QED
  BY <1>1, <1>2, <1>3, <1>4, <1>5, <1>6, <1>7, <1>8, <1>9, <1>10, <1>11,
     <1>12, <1>13, <1>14, <1>15 DEF Next, Drive, Allocate, Iterate, Publish,
     StopCommand, ReviewCommand, Save

\* So are the types of the loop's variables.
LEMMA LoopStep ==
  ASSUME Types, [Next]_vars
  PROVE  LoopTypes'
<1> USE StoreAssumption DEF disk, control, loop, starts, history
<1>1. ASSUME NEW p \in Drivers, Launch(p) \/ Resume(p) \/ Reopen(p)
      PROVE  LoopTypes'
  BY <1>1 DEF Types, LoopTypes, Sessions, Actors, Launch, Resume, Reopen,
     SavesThen, Goes, Starts
<1>2. ASSUME NEW p \in Drivers, Halt(p) \/ Proceed(p) PROVE LoopTypes'
  BY <1>2 DEF Types, LoopTypes, Sessions, Actors, Halt, Proceed, SavesThen,
     Goes
<1>3. ASSUME NEW p \in Drivers, NextIteration(p) PROVE LoopTypes'
  <2>1. PICK k \in Known(mem[p]) : number' = [number EXCEPT ![p] = k + 1]
    BY <1>3 DEF NextIteration
  <2>2. k \in Nat
    BY KnownAreNumbers DEF Actors
  <2>3. number' \in [Drivers -> Nat]
    BY <2>1, <2>2 DEF Types, LoopTypes
  <2> QED
    BY <1>3, <2>3 DEF Types, LoopTypes, NextIteration
<1>4. ASSUME NEW p \in Drivers, ClaimDirectory(p) PROVE LoopTypes'
  <2>1. /\ number' = number /\ tries' = tries /\ session' = session /\ sessions' = sessions
        /\ attempt' = [attempt EXCEPT ![p] = @ + 1]
        /\ beyond' = [beyond EXCEPT ![p] = IF stop THEN @ + 1 ELSE 0]
        /\ claimed' = claimed \cup {[number |-> number[p], by |-> session[p]]}
    BY <1>4 DEF ClaimDirectory
  <2>2. attempt' \in [Drivers -> Nat]
    BY <2>1 DEF Types, LoopTypes
  <2>3. beyond' \in [Drivers -> Nat]
    BY <2>1 DEF Types, LoopTypes
  <2>4. [number |-> number[p], by |-> session[p]] \in [number : Nat, by : Sessions]
    BY DEF Types, LoopTypes
  <2> QED
    BY <2>1, <2>2, <2>3, <2>4 DEF Types, LoopTypes
<1>5. ASSUME NEW p \in Drivers, TryTheNext(p) \/ AllocationRefused(p)
      PROVE  LoopTypes'
  BY <1>5 DEF Types, LoopTypes, Sessions, Actors, TryTheNext,
     AllocationRefused, SavesThen
<1>6. ASSUME NEW p \in Drivers, RecordSuite(p) \/ KeepVerification(p)
      PROVE  LoopTypes'
  BY <1>6 DEF Types, LoopTypes, Sessions, Actors, RecordSuite,
     KeepVerification, Goes, Put, Of
<1>7. ASSUME NEW p \in Drivers, PersistObligation(p) \/ NothingToVerify(p) \/
             Abandon(p)
      PROVE  LoopTypes'
  BY <1>7 DEF Types, LoopTypes, Sessions, Actors, PersistObligation,
     NothingToVerify, Abandon, SavesThen, Goes
<1>8. ASSUME NEW p \in Drivers, Correct(p) \/ Accept(p) \/ End(p) \/ Pause(p)
      PROVE  LoopTypes'
  BY <1>8 DEF Types, LoopTypes, Sessions, Actors, Correct, Accept, End, Pause,
     Concludes, SavesThen, Put, Of
<1>9. ASSUME NEW p \in Drivers, RemoveAccepted(p) \/ MakeAccepted(p) \/
             CopyAccepted(p) \/ PublishRefused(p)
      PROVE  LoopTypes'
  BY <1>9 DEF Types, LoopTypes, Sessions, Actors, RemoveAccepted,
     MakeAccepted, CopyAccepted, PublishRefused, SavesThen, Goes, Ends
<1>10. ASSUME NEW c \in Stops, RequestStop(c) \/ MarkStop(c) \/ MarkNothing(c)
      PROVE  LoopTypes'
  BY <1>10 DEF Types, LoopTypes, Sessions, Actors, RequestStop, MarkStop,
     MarkNothing, SavesThen, Goes, Ends
<1>11. ASSUME NEW c \in Reviews, OpenReview(c) \/ FileReviewAlone(c)
      PROVE  LoopTypes'
  BY <1>11 DEF Types, LoopTypes, Sessions, Actors, OpenReview,
     FileReviewAlone, Goes, Ends
<1>12. ASSUME NEW c \in Reviews, FileReview(c) PROVE LoopTypes'
  BY <1>12 DEF Types, LoopTypes, Sessions, Actors, FileReview, SavesThen, Put
<1>13. ASSUME NEW a \in Actors, BeginSave(a) \/ EndSave(a) PROVE LoopTypes'
  BY <1>13 DEF Types, LoopTypes, Sessions, Actors, BeginSave, EndSave, Goes
<1>14. ASSUME NEW a \in Actors, LastSave(a) \/ Crash(a) PROVE LoopTypes'
  BY <1>14 DEF Types, LoopTypes, Sessions, Actors, LastSave, Crash, Ends
<1>15. CASE UNCHANGED vars
  BY <1>15 DEF Types, LoopTypes, Sessions, Actors, vars
<1> QED
  BY <1>1, <1>2, <1>3, <1>4, <1>5, <1>6, <1>7, <1>8, <1>9, <1>10, <1>11,
     <1>12, <1>13, <1>14, <1>15 DEF Next, Drive, Allocate, Iterate, Publish,
     StopCommand, ReviewCommand, Save

\* And the types of what is on disk.
LEMMA DiskStep ==
  ASSUME Types, [Next]_vars
  PROVE  DiskTypes'
<1> USE StoreAssumption DEF disk, control, loop, starts, history
<1>1. ASSUME NEW p \in Drivers, Launch(p) PROVE DiskTypes'
  BY <1>1 DEF Types, DiskTypes, LoopTypes, Launch, SavesThen, Starts
<1>2. ASSUME NEW p \in Drivers, Resume(p) PROVE DiskTypes'
  BY <1>2 DEF Types, DiskTypes, LoopTypes, Resume, Goes, Starts
<1>3. ASSUME NEW p \in Drivers, Reopen(p) PROVE DiskTypes'
  BY <1>3 DEF Types, DiskTypes, LoopTypes, Reopen, SavesThen
<1>4. ASSUME NEW p \in Drivers, Halt(p) PROVE DiskTypes'
  BY <1>4 DEF Types, DiskTypes, LoopTypes, Halt, SavesThen
<1>5. ASSUME NEW p \in Drivers, Proceed(p) PROVE DiskTypes'
  BY <1>5 DEF Types, DiskTypes, LoopTypes, Proceed, Goes
<1>6. ASSUME NEW p \in Drivers, NextIteration(p) PROVE DiskTypes'
  BY <1>6 DEF Types, DiskTypes, LoopTypes, NextIteration, Goes
<1>7. ASSUME NEW p \in Drivers, ClaimDirectory(p) PROVE DiskTypes'
  BY <1>7 DEF Types, DiskTypes, LoopTypes, ClaimDirectory, Goes
<1>8. ASSUME NEW p \in Drivers, TryTheNext(p) PROVE DiskTypes'
  BY <1>8 DEF Types, DiskTypes, LoopTypes, TryTheNext
<1>9. ASSUME NEW p \in Drivers, AllocationRefused(p) PROVE DiskTypes'
  BY <1>9 DEF Types, DiskTypes, LoopTypes, AllocationRefused, SavesThen
<1>10. ASSUME NEW p \in Drivers, RecordSuite(p) PROVE DiskTypes'
  <2>1. \A k \in Kinds, s \in Sayings : Of(p, k, s) \in File
    BY OfIsFile DEF Types
  <2> QED
    BY <1>10, <2>1 DEF Types, DiskTypes, Kinds, Sayings, RecordSuite, Goes, Put
<1>11. ASSUME NEW p \in Drivers, PersistObligation(p) PROVE DiskTypes'
  BY <1>11 DEF Types, DiskTypes, LoopTypes, PersistObligation, SavesThen
<1>12. ASSUME NEW p \in Drivers, KeepVerification(p) PROVE DiskTypes'
  <2>1. \A k \in Kinds, s \in Sayings : Of(p, k, s) \in File
    BY OfIsFile DEF Types
  <2> QED
    BY <1>12, <2>1 DEF Types, DiskTypes, Kinds, Sayings, KeepVerification,
       Goes, Put
<1>13. ASSUME NEW p \in Drivers, NothingToVerify(p) PROVE DiskTypes'
  BY <1>13 DEF Types, DiskTypes, LoopTypes, NothingToVerify, Goes
<1>14. ASSUME NEW p \in Drivers, Correct(p) PROVE DiskTypes'
  <2>1. \A k \in Kinds, s \in Sayings : Of(p, k, s) \in File
    BY OfIsFile DEF Types
  <2> QED
    BY <1>14, <2>1 DEF Types, DiskTypes, Kinds, Sayings, Correct, Concludes,
       SavesThen, Put
<1>15. ASSUME NEW p \in Drivers, Accept(p) PROVE DiskTypes'
  <2>1. \A k \in Kinds, s \in Sayings : Of(p, k, s) \in File
    BY OfIsFile DEF Types
  <2> QED
    BY <1>15, <2>1 DEF Types, DiskTypes, Kinds, Sayings, Accept, Concludes,
       SavesThen, Put
<1>16. ASSUME NEW p \in Drivers, End(p) PROVE DiskTypes'
  <2>1. \A k \in Kinds, s \in Sayings : Of(p, k, s) \in File
    BY OfIsFile DEF Types
  <2> QED
    BY <1>16, <2>1 DEF Types, DiskTypes, Kinds, Sayings, End, Concludes,
       SavesThen, Put
<1>17. ASSUME NEW p \in Drivers, Pause(p) PROVE DiskTypes'
  <2>1. \A k \in Kinds, s \in Sayings : Of(p, k, s) \in File
    BY OfIsFile DEF Types
  <2> QED
    BY <1>17, <2>1 DEF Types, DiskTypes, Kinds, Sayings, Pause, Concludes,
       SavesThen, Put
<1>18. ASSUME NEW p \in Drivers, Abandon(p) PROVE DiskTypes'
  BY <1>18 DEF Types, DiskTypes, LoopTypes, Abandon, SavesThen
<1>19. ASSUME NEW p \in Drivers, RemoveAccepted(p) PROVE DiskTypes'
  BY <1>19 DEF Types, DiskTypes, LoopTypes, RemoveAccepted, Goes
<1>20. ASSUME NEW p \in Drivers, MakeAccepted(p) PROVE DiskTypes'
  BY <1>20 DEF Types, DiskTypes, LoopTypes, MakeAccepted, Goes
<1>21. ASSUME NEW p \in Drivers, CopyAccepted(p) PROVE DiskTypes'
  BY <1>21 DEF Types, DiskTypes, LoopTypes, CopyAccepted, Ends
<1>22. ASSUME NEW p \in Drivers, PublishRefused(p) PROVE DiskTypes'
  BY <1>22 DEF Types, DiskTypes, LoopTypes, PublishRefused, SavesThen
<1>23. ASSUME NEW c \in Stops, RequestStop(c) PROVE DiskTypes'
  BY <1>23 DEF Types, DiskTypes, LoopTypes, RequestStop, Goes
<1>24. ASSUME NEW c \in Stops, MarkStop(c) PROVE DiskTypes'
  BY <1>24 DEF Types, DiskTypes, LoopTypes, MarkStop, SavesThen
<1>25. ASSUME NEW c \in Stops, MarkNothing(c) PROVE DiskTypes'
  BY <1>25 DEF Types, DiskTypes, LoopTypes, MarkNothing, Ends
<1>26. ASSUME NEW c \in Reviews, OpenReview(c) PROVE DiskTypes'
  BY <1>26 DEF Types, DiskTypes, LoopTypes, OpenReview, Goes
<1>27. ASSUME NEW c \in Reviews, FileReview(c) PROVE DiskTypes'
  <2>1. PICK last \in mem[c].recorded : Put(last)
    BY <1>27 DEF FileReview
  <2>2. last \in File
    BY DEF Types, MemoryTypes, RunState, Actors
  <2> QED
    BY <1>27, <2>1, <2>2 DEF Types, DiskTypes, FileReview, SavesThen, Put
<1>28. ASSUME NEW c \in Reviews, FileReviewAlone(c) PROVE DiskTypes'
  BY <1>28 DEF Types, DiskTypes, LoopTypes, FileReviewAlone, Ends
<1>29. ASSUME NEW a \in Actors, BeginSave(a) PROVE DiskTypes'
  BY <1>29 DEF Types, DiskTypes, LoopTypes, BeginSave, Goes
<1>30. ASSUME NEW a \in Actors, EndSave(a) PROVE DiskTypes'
  BY <1>30 DEF Types, DiskTypes, LoopTypes, EndSave, Goes
<1>31. ASSUME NEW a \in Actors, LastSave(a) PROVE DiskTypes'
  BY <1>31 DEF Types, DiskTypes, LoopTypes, LastSave, Ends
<1>32. ASSUME NEW a \in Actors, Crash(a) PROVE DiskTypes'
  BY <1>32 DEF Types, DiskTypes, LoopTypes, Crash, Ends
<1>33. CASE UNCHANGED vars
  BY <1>33 DEF Types, DiskTypes, LoopTypes, vars
<1> QED
  BY <1>1, <1>2, <1>3, <1>4, <1>5, <1>6, <1>7, <1>8, <1>9, <1>10, <1>11, <1>12,
     <1>13, <1>14, <1>15, <1>16, <1>17, <1>18, <1>19, <1>20, <1>21, <1>22,
     <1>23, <1>24, <1>25, <1>26, <1>27, <1>28, <1>29, <1>30, <1>31, <1>32,
     <1>33
     DEF Next, Drive, Allocate, Iterate, Publish, StopCommand, ReviewCommand, Save

\* What a driver's state becomes when it records its iteration.
LEMMA Settled ==
  ASSUME Types, NEW p \in Drivers
  PROVE  /\ mem[p].status \in Statuses
         /\ \A s \in Sayings, t \in Statuses :
              [mem[p] EXCEPT !.status = t,
                             !.recorded = @ \cup {Of(p, "record", s)}] \in RunState
<1>1. \A k \in Kinds, s \in Sayings : Of(p, k, s) \in File
  BY OfIsFile DEF Types
<1>2. mem[p] \in RunState
  BY DEF Types, MemoryTypes, Actors
<1> QED
  BY <1>1, <1>2 DEF RunState, Kinds

\* What a process may put in a state, or take from it, leaves a state.
LEMMA StatesKept ==
  ASSUME Types
  PROVE  /\ Fresh \in RunState
         /\ Readable => stateFile \in RunState
         /\ \A s \in RunState, t \in Statuses, n \in Nat :
              /\ [s EXCEPT !.status = t] \in RunState
              /\ [s EXCEPT !.iteration = n] \in RunState
              /\ [s EXCEPT !.obligation = n] \in RunState
              /\ [s EXCEPT !.stopRequested = TRUE] \in RunState
<1>1. Fresh \in RunState
  BY DEF Fresh, RunState, Statuses
<1>2. Readable => stateFile \in RunState
  BY DEF Types, MemoryTypes, Readable
<1>3. ASSUME NEW s \in RunState, NEW t \in Statuses, NEW n \in Nat
      PROVE  /\ [s EXCEPT !.status = t] \in RunState
             /\ [s EXCEPT !.iteration = n] \in RunState
             /\ [s EXCEPT !.obligation = n] \in RunState
             /\ [s EXCEPT !.stopRequested = TRUE] \in RunState
  BY DEF RunState
<1> QED
  BY <1>1, <1>2, <1>3

\* And the types of every RunState.
LEMMA MemoryStep ==
  ASSUME Types, [Next]_vars
  PROVE  MemoryTypes'
<1> USE StoreAssumption DEF disk, control, loop, starts, history
<1>1. ASSUME NEW p \in Drivers, Launch(p) PROVE MemoryTypes'
  BY <1>1, StatesKept DEF Types, MemoryTypes, LoopTypes, Actors, Statuses,
     Launch, SavesThen, Starts
<1>2. ASSUME NEW p \in Drivers, Resume(p) PROVE MemoryTypes'
  BY <1>2, StatesKept DEF Types, MemoryTypes, LoopTypes, Actors, Statuses,
     Resume, Goes, Starts
<1>3. ASSUME NEW p \in Drivers, Reopen(p) PROVE MemoryTypes'
  BY <1>3, StatesKept DEF Types, MemoryTypes, LoopTypes, Actors, Statuses,
     Reopen, SavesThen
<1>4. ASSUME NEW p \in Drivers, Halt(p) PROVE MemoryTypes'
  BY <1>4, StatesKept DEF Types, MemoryTypes, LoopTypes, Actors, Statuses,
     Halt, SavesThen
<1>5. ASSUME NEW p \in Drivers, Proceed(p) PROVE MemoryTypes'
  BY <1>5, StatesKept DEF Types, MemoryTypes, LoopTypes, Actors, Statuses,
     Proceed, Goes
<1>6. ASSUME NEW p \in Drivers, NextIteration(p) PROVE MemoryTypes'
  BY <1>6, StatesKept DEF Types, MemoryTypes, LoopTypes, Actors, Statuses,
     NextIteration, Goes
<1>7. ASSUME NEW p \in Drivers, ClaimDirectory(p) PROVE MemoryTypes'
  BY <1>7, StatesKept DEF Types, MemoryTypes, LoopTypes, Actors, Statuses,
     ClaimDirectory, Goes
<1>8. ASSUME NEW p \in Drivers, TryTheNext(p) PROVE MemoryTypes'
  BY <1>8, StatesKept DEF Types, MemoryTypes, LoopTypes, Actors, Statuses,
     TryTheNext
<1>9. ASSUME NEW p \in Drivers, AllocationRefused(p) PROVE MemoryTypes'
  BY <1>9, StatesKept DEF Types, MemoryTypes, LoopTypes, Actors, Statuses,
     AllocationRefused, SavesThen
<1>10. ASSUME NEW p \in Drivers, RecordSuite(p) PROVE MemoryTypes'
  BY <1>10, StatesKept DEF Types, MemoryTypes, LoopTypes, Actors,
     Statuses, RecordSuite, Goes, Put, Of
<1>11. ASSUME NEW p \in Drivers, PersistObligation(p) PROVE MemoryTypes'
  BY <1>11, StatesKept DEF Types, MemoryTypes, LoopTypes, Actors,
     Statuses, PersistObligation, SavesThen
<1>12. ASSUME NEW p \in Drivers, KeepVerification(p) PROVE MemoryTypes'
  BY <1>12, StatesKept DEF Types, MemoryTypes, LoopTypes, Actors,
     Statuses, KeepVerification, Goes, Put, Of
<1>13. ASSUME NEW p \in Drivers, NothingToVerify(p) PROVE MemoryTypes'
  BY <1>13, StatesKept DEF Types, MemoryTypes, LoopTypes, Actors,
     Statuses, NothingToVerify, Goes
<1>14. ASSUME NEW p \in Drivers, Correct(p) PROVE MemoryTypes'
  BY <1>14, Settled DEF Types, MemoryTypes, Actors, Sayings, Statuses,
     Correct, Concludes, SavesThen
<1>15. ASSUME NEW p \in Drivers, Accept(p) PROVE MemoryTypes'
  BY <1>15, Settled DEF Types, MemoryTypes, Actors, Sayings, Statuses,
     Accept, Concludes, SavesThen
<1>16. ASSUME NEW p \in Drivers, End(p) PROVE MemoryTypes'
  <2>1. CASE Concludes(p, "BLOCKED", "BLOCKED", "off")
    BY <2>1, Settled DEF Types, MemoryTypes, Actors, Sayings, Statuses,
       Concludes, SavesThen
  <2>2. CASE Concludes(p, "FIX", "MAX_ITERATIONS", "off")
    BY <2>2, Settled DEF Types, MemoryTypes, Actors, Sayings, Statuses,
       Concludes, SavesThen
  <2> QED
    BY <1>16, <2>1, <2>2 DEF End
<1>17. ASSUME NEW p \in Drivers, Pause(p) PROVE MemoryTypes'
  BY <1>17, Settled DEF Types, MemoryTypes, Actors, Sayings, Statuses, Pause,
     Concludes, SavesThen
<1>18. ASSUME NEW p \in Drivers, Abandon(p) PROVE MemoryTypes'
  BY <1>18, StatesKept DEF Types, MemoryTypes, LoopTypes, Actors,
     Statuses, Abandon, SavesThen
<1>19. ASSUME NEW p \in Drivers, RemoveAccepted(p) PROVE MemoryTypes'
  BY <1>19, StatesKept DEF Types, MemoryTypes, LoopTypes, Actors,
     Statuses, RemoveAccepted, Goes
<1>20. ASSUME NEW p \in Drivers, MakeAccepted(p) PROVE MemoryTypes'
  BY <1>20, StatesKept DEF Types, MemoryTypes, LoopTypes, Actors,
     Statuses, MakeAccepted, Goes
<1>21. ASSUME NEW p \in Drivers, CopyAccepted(p) PROVE MemoryTypes'
  BY <1>21, StatesKept DEF Types, MemoryTypes, LoopTypes, Actors,
     Statuses, CopyAccepted, Ends
<1>22. ASSUME NEW p \in Drivers, PublishRefused(p) PROVE MemoryTypes'
  BY <1>22, StatesKept DEF Types, MemoryTypes, LoopTypes, Actors,
     Statuses, PublishRefused, SavesThen
<1>23. ASSUME NEW c \in Stops, RequestStop(c) PROVE MemoryTypes'
  BY <1>23, StatesKept DEF Types, MemoryTypes, LoopTypes, Actors,
     Statuses, RequestStop, Goes
<1>24. ASSUME NEW c \in Stops, MarkStop(c) PROVE MemoryTypes'
  BY <1>24, StatesKept DEF Types, MemoryTypes, LoopTypes, Actors,
     Statuses, MarkStop, SavesThen
<1>25. ASSUME NEW c \in Stops, MarkNothing(c) PROVE MemoryTypes'
  BY <1>25, StatesKept DEF Types, MemoryTypes, LoopTypes, Actors,
     Statuses, MarkNothing, Ends
<1>26. ASSUME NEW c \in Reviews, OpenReview(c) PROVE MemoryTypes'
  BY <1>26, StatesKept DEF Types, MemoryTypes, LoopTypes, Actors,
     Statuses, OpenReview, Goes
<1>27. ASSUME NEW c \in Reviews, FileReview(c) PROVE MemoryTypes'
  BY <1>27, StatesKept DEF Types, MemoryTypes, LoopTypes, Actors,
     Statuses, FileReview, SavesThen, Put
<1>28. ASSUME NEW c \in Reviews, FileReviewAlone(c) PROVE MemoryTypes'
  BY <1>28, StatesKept DEF Types, MemoryTypes, LoopTypes, Actors,
     Statuses, FileReviewAlone, Ends
<1>29. ASSUME NEW a \in Actors, BeginSave(a) PROVE MemoryTypes'
  BY <1>29, StatesKept DEF Types, MemoryTypes, LoopTypes, Actors,
     Statuses, BeginSave, Goes
<1>30. ASSUME NEW a \in Actors, EndSave(a) PROVE MemoryTypes'
  BY <1>30, StatesKept DEF Types, MemoryTypes, LoopTypes, Actors,
     Statuses, EndSave, Goes
<1>31. ASSUME NEW a \in Actors, LastSave(a) PROVE MemoryTypes'
  BY <1>31, StatesKept DEF Types, MemoryTypes, LoopTypes, Actors,
     Statuses, LastSave, Ends
<1>32. ASSUME NEW a \in Actors, Crash(a) PROVE MemoryTypes'
  BY <1>32, StatesKept DEF Types, MemoryTypes, LoopTypes, Actors,
     Statuses, Crash, Ends
<1>33. CASE UNCHANGED vars
  BY <1>33, StatesKept DEF Types, MemoryTypes, LoopTypes, Actors,
     Statuses, vars
<1> QED
  BY <1>1, <1>2, <1>3, <1>4, <1>5, <1>6, <1>7, <1>8, <1>9, <1>10, <1>11, <1>12,
     <1>13, <1>14, <1>15, <1>16, <1>17, <1>18, <1>19, <1>20, <1>21, <1>22,
     <1>23, <1>24, <1>25, <1>26, <1>27, <1>28, <1>29, <1>30, <1>31, <1>32,
     <1>33
     DEF Next, Drive, Allocate, Iterate, Publish, StopCommand, ReviewCommand, Save

-----------------------------------------------------------------------------
(* The inductive invariant.                                               *)

\* Where a process is, or where it goes when its save is done.
At(a) == IF pc[a] \in {"save", "saving"} THEN then[a] ELSE pc[a]

Deciding == {"check", "number", "claim"}
Holding  == {"work", "measure", "keep", "judge", "publish", "make", "copy"}

\* The loop's budgets: an iteration is begun only when one is left.
Budgeted ==
  \A p \in Drivers :
    /\ attempt[p] <= MaxIterations /\ tries[p] < AllocationAttempts
    /\ At(p) \in Deciding \cup {"opened"} => attempt[p] < MaxIterations
    /\ pc[p] = "off" => attempt[p] = 0

\* A free number is above every directory, so the first free number that a
\* driver reaches is the next one, however stale its first candidate was.
Dense ==
  /\ 0 \notin dirs
  /\ \A n \in Nat \ {0} : n \notin Occupied => \A d \in dirs : d < n
  /\ \A p \in Drivers : pc[p] = "claim" =>
       /\ number[p] > 0
       /\ \A n \in Nat \ {0} : n < number[p] => n \in Occupied

\* Every directory a driver made has one owner, which is at most one of the
\* drivers that are alive.
Owned ==
  /\ \A c \in claimed : c.number \in dirs /\ c.by <= sessions
  /\ \A c, d \in claimed : c.number = d.number => c = d
  /\ \A p \in Drivers : session[p] <= sessions
  /\ \A p, q \in Drivers :
       pc[p] # "off" /\ pc[q] # "off" /\ p # q => session[p] # session[q]
  /\ \A p \in Drivers : At(p) \in Holding =>
       [number |-> number[p], by |-> session[p]] \in claimed

\* A file belongs to the owner of its directory, and a driver has not yet
\* written what it is going to write.
Unwritten(p, kind) == \A f \in files : f.kind = kind => f.number # number[p]

Filed ==
  /\ \A f \in files : [number |-> f.number, by |-> f.by] \in claimed
  /\ \A f, g \in files : f.kind = g.kind /\ f.number = g.number => f = g
  /\ \A p \in Drivers :
       /\ At(p) = "work" => Unwritten(p, "suite")
       /\ At(p) \in {"work", "measure", "keep"} => Unwritten(p, "verification")
       /\ At(p) \in {"work", "measure", "keep", "judge"} => Unwritten(p, "record")

\* What a RunState says is on disk.
Backed(s) ==
  /\ s.recorded \subseteq files
  /\ s.iteration \in dirs \cup {0}
  /\ s.status = "ACCEPTED" =>
       \E r \in s.recorded : r.number = s.iteration /\ r.says = "ACCEPT"

Evident ==
  /\ \A a \in Actors : Backed(mem[a])
  /\ Readable => Backed(stateFile)
  /\ \A p \in Drivers :
       At(p) \in Deciding \cup {"work", "measure", "keep", "judge"} =>
         mem[p].status # "ACCEPTED"
  /\ \A p \in Drivers : At(p) \in {"work", "measure", "keep", "judge"} =>
       mem[p].iteration = number[p]

\* What is being published, or was, was accepted.
AcceptedRecord(n) ==
  \E f \in files : f.kind = "record" /\ f.number = n /\ f.says = "ACCEPT"

Published ==
  /\ \A n \in accepted.from : AcceptedRecord(n)
  /\ \A p \in Drivers : At(p) \in {"publish", "make", "copy"} => AcceptedRecord(number[p])

\* The one iteration a driver may begin after the sentinel was placed.
Heeded ==
  \A p \in Drivers :
    /\ beyond[p] <= 1
    /\ ~stop => beyond[p] = 0
    /\ pc[p] \in {"number", "claim"} => beyond[p] = 0

IInv == Types /\ Budgeted /\ Dense /\ Owned /\ Filed /\ Evident /\ Published /\ Heeded

\* The budgets are kept.
LEMMA BudgetedStep ==
  ASSUME IInv, [Next]_vars
  PROVE  Budgeted'
<1> USE StoreAssumption DEF disk, control, loop, starts, history
<1>1. ASSUME NEW p \in Drivers, Launch(p) \/ Resume(p) \/ Reopen(p)
      PROVE  Budgeted'
  BY <1>1 DEF IInv, Types, PlaceTypes, LoopTypes, Actors, Budgeted, At,
     Deciding, Launch, Resume, Reopen, SavesThen, Goes, Starts
<1>2. ASSUME NEW p \in Drivers, Halt(p) \/ Proceed(p) PROVE Budgeted'
  BY <1>2 DEF IInv, Types, PlaceTypes, LoopTypes, Actors, Budgeted, At,
     Deciding, Halt, Proceed, SavesThen, Goes
<1>3. ASSUME NEW p \in Drivers, NextIteration(p) PROVE Budgeted'
  BY <1>3 DEF IInv, Types, PlaceTypes, LoopTypes, Actors, Budgeted, At,
     Deciding, NextIteration, Goes
<1>4. ASSUME NEW p \in Drivers, ClaimDirectory(p) PROVE Budgeted'
  BY <1>4 DEF IInv, Types, PlaceTypes, LoopTypes, Actors, Budgeted, At,
     Deciding, ClaimDirectory, Goes
<1>5. ASSUME NEW p \in Drivers, TryTheNext(p) \/ AllocationRefused(p)
      PROVE  Budgeted'
  BY <1>5 DEF IInv, Types, PlaceTypes, LoopTypes, Actors, Budgeted, At,
     Deciding, TryTheNext, AllocationRefused, SavesThen
<1>6. ASSUME NEW p \in Drivers, RecordSuite(p) \/ KeepVerification(p)
      PROVE  Budgeted'
  BY <1>6 DEF IInv, Types, PlaceTypes, LoopTypes, Actors, Budgeted, At,
     Deciding, RecordSuite, KeepVerification, Goes, Put, Of
<1>7. ASSUME NEW p \in Drivers, PersistObligation(p) \/ NothingToVerify(p) \/
             Abandon(p)
      PROVE  Budgeted'
  BY <1>7 DEF IInv, Types, PlaceTypes, LoopTypes, Actors, Budgeted, At,
     Deciding, PersistObligation, NothingToVerify, Abandon, SavesThen, Goes
<1>8. ASSUME NEW p \in Drivers, Correct(p) \/ Accept(p) \/ End(p) \/ Pause(p)
      PROVE  Budgeted'
  BY <1>8 DEF IInv, Types, PlaceTypes, LoopTypes, Actors, Budgeted, At,
     Deciding, Correct, Accept, End, Pause, Concludes, SavesThen, Put, Of
<1>9. ASSUME NEW p \in Drivers, RemoveAccepted(p) \/ MakeAccepted(p) \/
             CopyAccepted(p) \/ PublishRefused(p)
      PROVE  Budgeted'
  BY <1>9 DEF IInv, Types, PlaceTypes, LoopTypes, Actors, Budgeted, At,
     Deciding, RemoveAccepted, MakeAccepted, CopyAccepted, PublishRefused,
     SavesThen, Goes, Ends
<1>10. ASSUME NEW c \in Stops, RequestStop(c) \/ MarkStop(c) \/ MarkNothing(c)
      PROVE  Budgeted'
  BY <1>10 DEF IInv, Types, PlaceTypes, LoopTypes, Actors, Budgeted, At,
     Deciding, RequestStop, MarkStop, MarkNothing, SavesThen, Goes, Ends
<1>11. ASSUME NEW c \in Reviews, OpenReview(c) \/ FileReviewAlone(c)
      PROVE  Budgeted'
  BY <1>11 DEF IInv, Types, PlaceTypes, LoopTypes, Actors, Budgeted, At,
     Deciding, OpenReview, FileReviewAlone, Goes, Ends
<1>12. ASSUME NEW c \in Reviews, FileReview(c) PROVE Budgeted'
  BY <1>12 DEF IInv, Types, PlaceTypes, LoopTypes, Actors, Budgeted, At,
     Deciding, FileReview, SavesThen, Put
<1>13. ASSUME NEW a \in Actors, BeginSave(a) \/ EndSave(a) PROVE Budgeted'
  BY <1>13 DEF IInv, Types, PlaceTypes, LoopTypes, Actors, Budgeted, At,
     Deciding, BeginSave, EndSave, Goes
<1>14. ASSUME NEW a \in Actors, LastSave(a) \/ Crash(a) PROVE Budgeted'
  BY <1>14 DEF IInv, Types, PlaceTypes, LoopTypes, Actors, Budgeted, At,
     Deciding, LastSave, Crash, Ends
<1>15. CASE UNCHANGED vars
  BY <1>15 DEF IInv, Types, PlaceTypes, LoopTypes, Actors, Budgeted, At,
     Deciding, vars
<1> QED
  BY <1>1, <1>2, <1>3, <1>4, <1>5, <1>6, <1>7, <1>8, <1>9, <1>10, <1>11,
     <1>12, <1>13, <1>14, <1>15 DEF Next, Drive, Allocate, Iterate, Publish,
     StopCommand, ReviewCommand, Save

\* A stop is heeded.
LEMMA HeededStep ==
  ASSUME IInv, [Next]_vars
  PROVE  Heeded'
<1> USE StoreAssumption DEF disk, control, loop, starts, history
<1>1. ASSUME NEW p \in Drivers, Launch(p) \/ Resume(p) \/ Reopen(p)
      PROVE  Heeded'
  BY <1>1 DEF IInv, Types, PlaceTypes, LoopTypes, Actors, Heeded, DiskTypes,
     Launch, Resume, Reopen, SavesThen, Goes, Starts
<1>2. ASSUME NEW p \in Drivers, Halt(p) \/ Proceed(p) PROVE Heeded'
  BY <1>2 DEF IInv, Types, PlaceTypes, LoopTypes, Actors, Heeded, DiskTypes,
     Halt, Proceed, SavesThen, Goes
<1>3. ASSUME NEW p \in Drivers, NextIteration(p) PROVE Heeded'
  BY <1>3 DEF IInv, Types, PlaceTypes, LoopTypes, Actors, Heeded, DiskTypes,
     NextIteration, Goes
<1>4. ASSUME NEW p \in Drivers, ClaimDirectory(p) PROVE Heeded'
  BY <1>4 DEF IInv, Types, PlaceTypes, LoopTypes, Actors, Heeded, DiskTypes,
     ClaimDirectory, Goes
<1>5. ASSUME NEW p \in Drivers, TryTheNext(p) \/ AllocationRefused(p)
      PROVE  Heeded'
  BY <1>5 DEF IInv, Types, PlaceTypes, LoopTypes, Actors, Heeded, DiskTypes,
     TryTheNext, AllocationRefused, SavesThen
<1>6. ASSUME NEW p \in Drivers, RecordSuite(p) \/ KeepVerification(p)
      PROVE  Heeded'
  BY <1>6 DEF IInv, Types, PlaceTypes, LoopTypes, Actors, Heeded, DiskTypes,
     RecordSuite, KeepVerification, Goes, Put, Of
<1>7. ASSUME NEW p \in Drivers, PersistObligation(p) \/ NothingToVerify(p) \/
             Abandon(p)
      PROVE  Heeded'
  BY <1>7 DEF IInv, Types, PlaceTypes, LoopTypes, Actors, Heeded, DiskTypes,
     PersistObligation, NothingToVerify, Abandon, SavesThen, Goes
<1>8. ASSUME NEW p \in Drivers, Correct(p) \/ Accept(p) \/ End(p) \/ Pause(p)
      PROVE  Heeded'
  BY <1>8 DEF IInv, Types, PlaceTypes, LoopTypes, Actors, Heeded, DiskTypes,
     Correct, Accept, End, Pause, Concludes, SavesThen, Put, Of
<1>9. ASSUME NEW p \in Drivers, RemoveAccepted(p) \/ MakeAccepted(p) \/
             CopyAccepted(p) \/ PublishRefused(p)
      PROVE  Heeded'
  BY <1>9 DEF IInv, Types, PlaceTypes, LoopTypes, Actors, Heeded, DiskTypes,
     RemoveAccepted, MakeAccepted, CopyAccepted, PublishRefused, SavesThen,
     Goes, Ends
<1>10. ASSUME NEW c \in Stops, RequestStop(c) \/ MarkStop(c) \/ MarkNothing(c)
      PROVE  Heeded'
  BY <1>10 DEF IInv, Types, PlaceTypes, LoopTypes, Actors, Heeded, DiskTypes,
     RequestStop, MarkStop, MarkNothing, SavesThen, Goes, Ends
<1>11. ASSUME NEW c \in Reviews, OpenReview(c) \/ FileReviewAlone(c)
      PROVE  Heeded'
  BY <1>11 DEF IInv, Types, PlaceTypes, LoopTypes, Actors, Heeded, DiskTypes,
     OpenReview, FileReviewAlone, Goes, Ends
<1>12. ASSUME NEW c \in Reviews, FileReview(c) PROVE Heeded'
  BY <1>12 DEF IInv, Types, PlaceTypes, LoopTypes, Actors, Heeded, DiskTypes,
     FileReview, SavesThen, Put
<1>13. ASSUME NEW a \in Actors, BeginSave(a) \/ EndSave(a) PROVE Heeded'
  BY <1>13 DEF IInv, Types, PlaceTypes, LoopTypes, Actors, Heeded, DiskTypes,
     BeginSave, EndSave, Goes
<1>14. ASSUME NEW a \in Actors, LastSave(a) \/ Crash(a) PROVE Heeded'
  BY <1>14 DEF IInv, Types, PlaceTypes, LoopTypes, Actors, Heeded, DiskTypes,
     LastSave, Crash, Ends
<1>15. CASE UNCHANGED vars
  BY <1>15 DEF IInv, Types, PlaceTypes, LoopTypes, Actors, Heeded, DiskTypes,
     vars
<1> QED
  BY <1>1, <1>2, <1>3, <1>4, <1>5, <1>6, <1>7, <1>8, <1>9, <1>10, <1>11,
     <1>12, <1>13, <1>14, <1>15 DEF Next, Drive, Allocate, Iterate, Publish,
     StopCommand, ReviewCommand, Save

\* The directories stay dense and the candidates below the free numbers.
LEMMA DenseStep ==
  ASSUME IInv, [Next]_vars
  PROVE  Dense'
<1> USE StoreAssumption DEF disk, control, loop, starts, history
<1>1. ASSUME NEW p \in Drivers, Launch(p) PROVE Dense'
  BY <1>1 DEF IInv, Dense, Occupied, DiskTypes, Types, PlaceTypes, LoopTypes,
     DriverPlaces, Actors, Launch, SavesThen, Starts
<1>2. ASSUME NEW p \in Drivers, Resume(p) PROVE Dense'
  BY <1>2 DEF IInv, Dense, Occupied, DiskTypes, Types, PlaceTypes, LoopTypes,
     DriverPlaces, Actors, Resume, Goes, Starts
<1>3. ASSUME NEW p \in Drivers, Reopen(p) PROVE Dense'
  BY <1>3 DEF IInv, Dense, Occupied, DiskTypes, Types, PlaceTypes, LoopTypes,
     DriverPlaces, Actors, Reopen, SavesThen
<1>4. ASSUME NEW p \in Drivers, Halt(p) PROVE Dense'
  BY <1>4 DEF IInv, Dense, Occupied, DiskTypes, Types, PlaceTypes, LoopTypes,
     DriverPlaces, Actors, Halt, SavesThen
<1>5. ASSUME NEW p \in Drivers, Proceed(p) PROVE Dense'
  BY <1>5 DEF IInv, Dense, Occupied, DiskTypes, Types, PlaceTypes, LoopTypes,
     DriverPlaces, Actors, Proceed, Goes
<1>6. ASSUME NEW p \in Drivers, NextIteration(p) PROVE Dense'
  <2>1. PICK k \in Known(mem[p]) :
          IsNext(k + 1, mem[p]) /\ number' = [number EXCEPT ![p] = k + 1]
    BY <1>6 DEF NextIteration
  <2>2. p \in Actors /\ k \in Nat
    BY KnownAreNumbers DEF Actors, IInv
  <2>3. k \in dirs \cup {0}
    <3>1. mem[p].iteration \in dirs \cup {0} /\ mem[p].recorded \subseteq files
      BY <2>2 DEF IInv, Evident, Backed
    <3>2. \A f \in files : f.number \in dirs
      BY DEF IInv, Filed, Owned
    <3> QED
      BY <3>1, <3>2 DEF Known
  <2>4. ASSUME NEW n \in Nat \ {0}, n < k + 1 PROVE n \in Occupied
    BY <2>2, <2>3, <2>4 DEF IInv, Dense
  <2>5. dirs' = dirs /\ Occupied' = Occupied /\ number'[p] = k + 1 /\ k + 1 > 0
    BY <1>6, <2>1, <2>2 DEF NextIteration, Occupied, IInv, Types, LoopTypes
  <2>6. ASSUME NEW q \in Drivers, pc'[q] = "claim"
        PROVE  /\ number'[q] > 0
               /\ \A n \in Nat \ {0} : n < number'[q] => n \in Occupied
    <3>1. CASE q = p
      BY <3>1, <2>4, <2>5
    <3>2. CASE q # p
      <4>1. pc[q] = "claim" /\ number'[q] = number[q]
        BY <1>6, <2>1, <2>6, <3>2
           DEF NextIteration, Goes, IInv, Types, PlaceTypes, LoopTypes, Actors
      <4> QED
        BY <4>1 DEF IInv, Dense
    <3> QED
      BY <3>1, <3>2
  <2> QED
    BY <2>5, <2>6 DEF IInv, Dense
<1>7. ASSUME NEW p \in Drivers, ClaimDirectory(p) PROVE Dense'
  BY <1>7 DEF IInv, Dense, Occupied, DiskTypes, Types, PlaceTypes, LoopTypes,
     DriverPlaces, Actors, ClaimDirectory, Goes
<1>8. ASSUME NEW p \in Drivers, TryTheNext(p) PROVE Dense'
  BY <1>8 DEF IInv, Dense, Occupied, DiskTypes, Types, PlaceTypes, LoopTypes,
     DriverPlaces, Actors, TryTheNext
<1>9. ASSUME NEW p \in Drivers, AllocationRefused(p) PROVE Dense'
  BY <1>9 DEF IInv, Dense, Occupied, DiskTypes, Types, PlaceTypes, LoopTypes,
     DriverPlaces, Actors, AllocationRefused, SavesThen
<1>10. ASSUME NEW p \in Drivers, RecordSuite(p) PROVE Dense'
  BY <1>10 DEF IInv, Dense, Occupied, DiskTypes, Types, PlaceTypes, LoopTypes,
     DriverPlaces, Actors, RecordSuite, Goes, Put, Of
<1>11. ASSUME NEW p \in Drivers, PersistObligation(p) PROVE Dense'
  BY <1>11 DEF IInv, Dense, Occupied, DiskTypes, Types, PlaceTypes, LoopTypes,
     DriverPlaces, Actors, PersistObligation, SavesThen
<1>12. ASSUME NEW p \in Drivers, KeepVerification(p) PROVE Dense'
  BY <1>12 DEF IInv, Dense, Occupied, DiskTypes, Types, PlaceTypes, LoopTypes,
     DriverPlaces, Actors, KeepVerification, Goes, Put, Of
<1>13. ASSUME NEW p \in Drivers, NothingToVerify(p) PROVE Dense'
  BY <1>13 DEF IInv, Dense, Occupied, DiskTypes, Types, PlaceTypes, LoopTypes,
     DriverPlaces, Actors, NothingToVerify, Goes
<1>14. ASSUME NEW p \in Drivers, Correct(p) PROVE Dense'
  BY <1>14 DEF IInv, Dense, Occupied, DiskTypes, Types, PlaceTypes, LoopTypes,
     DriverPlaces, Actors, Correct, Concludes, SavesThen, Put, Of
<1>15. ASSUME NEW p \in Drivers, Accept(p) PROVE Dense'
  BY <1>15 DEF IInv, Dense, Occupied, DiskTypes, Types, PlaceTypes, LoopTypes,
     DriverPlaces, Actors, Accept, Concludes, SavesThen, Put, Of
<1>16. ASSUME NEW p \in Drivers, End(p) PROVE Dense'
  BY <1>16 DEF IInv, Dense, Occupied, DiskTypes, Types, PlaceTypes, LoopTypes,
     DriverPlaces, Actors, End, Concludes, SavesThen, Put, Of
<1>17. ASSUME NEW p \in Drivers, Pause(p) PROVE Dense'
  BY <1>17 DEF IInv, Dense, Occupied, DiskTypes, Types, PlaceTypes, LoopTypes,
     DriverPlaces, Actors, Pause, Concludes, SavesThen, Put, Of
<1>18. ASSUME NEW p \in Drivers, Abandon(p) PROVE Dense'
  BY <1>18 DEF IInv, Dense, Occupied, DiskTypes, Types, PlaceTypes, LoopTypes,
     DriverPlaces, Actors, Abandon, SavesThen
<1>19. ASSUME NEW p \in Drivers, RemoveAccepted(p) PROVE Dense'
  BY <1>19 DEF IInv, Dense, Occupied, DiskTypes, Types, PlaceTypes, LoopTypes,
     DriverPlaces, Actors, RemoveAccepted, Goes
<1>20. ASSUME NEW p \in Drivers, MakeAccepted(p) PROVE Dense'
  BY <1>20 DEF IInv, Dense, Occupied, DiskTypes, Types, PlaceTypes, LoopTypes,
     DriverPlaces, Actors, MakeAccepted, Goes
<1>21. ASSUME NEW p \in Drivers, CopyAccepted(p) PROVE Dense'
  BY <1>21 DEF IInv, Dense, Occupied, DiskTypes, Types, PlaceTypes, LoopTypes,
     DriverPlaces, Actors, CopyAccepted, Ends
<1>22. ASSUME NEW p \in Drivers, PublishRefused(p) PROVE Dense'
  BY <1>22 DEF IInv, Dense, Occupied, DiskTypes, Types, PlaceTypes, LoopTypes,
     DriverPlaces, Actors, PublishRefused, SavesThen
<1>23. ASSUME NEW c \in Stops, RequestStop(c) PROVE Dense'
  BY <1>23 DEF IInv, Dense, Occupied, DiskTypes, Types, PlaceTypes, LoopTypes,
     DriverPlaces, Actors, RequestStop, Goes
<1>24. ASSUME NEW c \in Stops, MarkStop(c) PROVE Dense'
  BY <1>24 DEF IInv, Dense, Occupied, DiskTypes, Types, PlaceTypes, LoopTypes,
     DriverPlaces, Actors, MarkStop, SavesThen
<1>25. ASSUME NEW c \in Stops, MarkNothing(c) PROVE Dense'
  BY <1>25 DEF IInv, Dense, Occupied, DiskTypes, Types, PlaceTypes, LoopTypes,
     DriverPlaces, Actors, MarkNothing, Ends
<1>26. ASSUME NEW c \in Reviews, OpenReview(c) PROVE Dense'
  BY <1>26 DEF IInv, Dense, Occupied, DiskTypes, Types, PlaceTypes, LoopTypes,
     DriverPlaces, Actors, OpenReview, Goes
<1>27. ASSUME NEW c \in Reviews, FileReview(c) PROVE Dense'
  BY <1>27 DEF IInv, Dense, Occupied, DiskTypes, Types, PlaceTypes, LoopTypes,
     DriverPlaces, Actors, FileReview, SavesThen, Put
<1>28. ASSUME NEW c \in Reviews, FileReviewAlone(c) PROVE Dense'
  BY <1>28 DEF IInv, Dense, Occupied, DiskTypes, Types, PlaceTypes, LoopTypes,
     DriverPlaces, Actors, FileReviewAlone, Ends
<1>29. ASSUME NEW a \in Actors, BeginSave(a) PROVE Dense'
  BY <1>29 DEF IInv, Dense, Occupied, DiskTypes, Types, PlaceTypes, LoopTypes,
     DriverPlaces, Actors, BeginSave, Goes
<1>30. ASSUME NEW a \in Actors, EndSave(a) PROVE Dense'
  BY <1>30 DEF IInv, Dense, Occupied, DiskTypes, Types, PlaceTypes, LoopTypes,
     DriverPlaces, Actors, EndSave, Goes
<1>31. ASSUME NEW a \in Actors, LastSave(a) PROVE Dense'
  BY <1>31 DEF IInv, Dense, Occupied, DiskTypes, Types, PlaceTypes, LoopTypes,
     DriverPlaces, Actors, LastSave, Ends
<1>32. ASSUME NEW a \in Actors, Crash(a) PROVE Dense'
  BY <1>32 DEF IInv, Dense, Occupied, DiskTypes, Types, PlaceTypes, LoopTypes,
     DriverPlaces, Actors, Crash, Ends
<1>33. CASE UNCHANGED vars
  BY <1>33 DEF IInv, Dense, Occupied, DiskTypes, Types, PlaceTypes, LoopTypes,
     DriverPlaces, Actors, vars
<1> QED
  BY <1>1, <1>2, <1>3, <1>4, <1>5, <1>6, <1>7, <1>8, <1>9, <1>10, <1>11, <1>12,
     <1>13, <1>14, <1>15, <1>16, <1>17, <1>18, <1>19, <1>20, <1>21, <1>22,
     <1>23, <1>24, <1>25, <1>26, <1>27, <1>28, <1>29, <1>30, <1>31, <1>32,
     <1>33
     DEF Next, Drive, Allocate, Iterate, Publish, StopCommand, ReviewCommand, Save

\* A process that ends holds no number, and the others hold what they held.
LEMMA EndOwned ==
  ASSUME IInv, NEW a \in Actors, Ends(a), dirs' = dirs
  PROVE  Owned'
<1>1. /\ sessions' = sessions /\ claimed' = claimed
      /\ \A p \in Drivers :
           /\ p # a => /\ pc'[p] = pc[p] /\ then'[p] = then[p]
                       /\ number'[p] = number[p] /\ session'[p] = session[p]
           /\ p = a => pc'[p] = "off" /\ session'[p] = 0
  BY DEF Ends, IInv, Types, PlaceTypes, Actors
<1>2. \A p \in Drivers : p # a => At(p)' = At(p)
  BY <1>1 DEF At
<1>3. \A p \in Drivers : p = a => At(p)' \notin Holding
  BY <1>1 DEF At, Holding
<1>4. \A p \in Drivers : session'[p] <= sessions'
  BY <1>1 DEF IInv, Owned, Types, LoopTypes, Sessions
<1>5. \A q, r \in Drivers :
        pc'[q] # "off" /\ pc'[r] # "off" /\ q # r => session'[q] # session'[r]
  BY <1>1 DEF IInv, Owned
<1>6. \A p \in Drivers :
        At(p)' \in Holding => [number |-> number'[p], by |-> session'[p]] \in claimed'
  BY <1>1, <1>2, <1>3 DEF IInv, Owned
<1> QED
  BY <1>1, <1>4, <1>5, <1>6 DEF IInv, Owned

\* Every directory keeps its one owner.
LEMMA OwnedStep ==
  ASSUME IInv, [Next]_vars
  PROVE  Owned'
<1> USE StoreAssumption DEF disk, control, loop, starts, history
<1>1. ASSUME NEW p \in Drivers, Launch(p) \/ Resume(p) \/ Reopen(p) PROVE Owned'
  BY <1>1 DEF IInv, Types, PlaceTypes, LoopTypes, Actors, Owned, At, Holding,
     Sessions, Launch, Resume, Reopen, SavesThen, Goes, Starts
<1>2. ASSUME NEW p \in Drivers, Halt(p) \/ Proceed(p) PROVE Owned'
  BY <1>2 DEF IInv, Types, PlaceTypes, LoopTypes, Actors, Owned, At, Holding,
     Sessions, Halt, Proceed, SavesThen, Goes
<1>3. ASSUME NEW p \in Drivers, NextIteration(p) PROVE Owned'
  BY <1>3 DEF IInv, Types, PlaceTypes, LoopTypes, Actors, Owned, At, Holding,
     Sessions, NextIteration, Goes
<1>4. ASSUME NEW p \in Drivers, ClaimDirectory(p) PROVE Owned'
  <2> DEFINE c == [number |-> number[p], by |-> session[p]]
  <2>1. claimed' = claimed \cup {c} /\ dirs' = dirs \cup {number[p]} /\ number[p] \notin dirs
        /\ number' = number /\ session' = session /\ sessions' = sessions
        /\ pc[p] = "claim" /\ pc' = [pc EXCEPT ![p] = "work"] /\ then' = then
    BY <1>4 DEF ClaimDirectory, Goes, Occupied
  <2>2. c.number = number[p] /\ c.by = session[p] /\ c.number \notin {d.number : d \in claimed}
    BY <2>1 DEF IInv, Owned
  <2>3. \A d \in claimed' : d.number \in dirs' /\ d.by <= sessions'
    BY <2>1, <2>2 DEF IInv, Owned
  <2>4. \A d, e \in claimed' : d.number = e.number => d = e
    BY <2>1, <2>2 DEF IInv, Owned
  <2>5. \A q \in Drivers : session'[q] <= sessions'
    BY <2>1 DEF IInv, Owned
  <2>6. \A q, r \in Drivers :
          pc'[q] # "off" /\ pc'[r] # "off" /\ q # r => session'[q] # session'[r]
    BY <2>1 DEF IInv, Owned, Types, PlaceTypes, Actors
  <2>7. ASSUME NEW q \in Drivers, At(q)' \in Holding
        PROVE  [number |-> number'[q], by |-> session'[q]] \in claimed'
    <3>1. CASE q = p
      BY <3>1, <2>1
    <3>2. CASE q # p
      <4>1. At(q) \in Holding
        BY <3>2, <2>1, <2>7 DEF At, IInv, Types, PlaceTypes, Actors
      <4> QED
        BY <4>1, <2>1 DEF IInv, Owned
    <3> QED
      BY <3>1, <3>2
  <2> QED
    BY <2>3, <2>4, <2>5, <2>6, <2>7 DEF Owned
<1>5. ASSUME NEW p \in Drivers, TryTheNext(p) \/ AllocationRefused(p)
      PROVE  Owned'
  BY <1>5 DEF IInv, Types, PlaceTypes, LoopTypes, Actors, Owned, At, Holding,
     Sessions, TryTheNext, AllocationRefused, SavesThen
<1>6. ASSUME NEW p \in Drivers, RecordSuite(p) \/ KeepVerification(p)
      PROVE  Owned'
  BY <1>6 DEF IInv, Types, PlaceTypes, LoopTypes, Actors, Owned, At, Holding,
     Sessions, RecordSuite, KeepVerification, Goes, Put, Of
<1>7. ASSUME NEW p \in Drivers, PersistObligation(p) \/ NothingToVerify(p) \/
             Abandon(p)
      PROVE  Owned'
  BY <1>7 DEF IInv, Types, PlaceTypes, LoopTypes, Actors, Owned, At, Holding,
     Sessions, PersistObligation, NothingToVerify, Abandon, SavesThen, Goes
<1>8. ASSUME NEW p \in Drivers, Correct(p) \/ Accept(p) \/ End(p) \/ Pause(p)
      PROVE  Owned'
  BY <1>8 DEF IInv, Types, PlaceTypes, LoopTypes, Actors, Owned, At, Holding,
     Sessions, Correct, Accept, End, Pause, Concludes, SavesThen, Put, Of
<1>9. ASSUME NEW p \in Drivers, RemoveAccepted(p) \/ MakeAccepted(p) \/
             CopyAccepted(p) \/ PublishRefused(p)
      PROVE  Owned'
  <2>1. CASE RemoveAccepted(p) \/ MakeAccepted(p)
    BY <2>1 DEF IInv, Types, PlaceTypes, Actors, Owned, At, Holding,
       RemoveAccepted, MakeAccepted, Goes
  <2>2. CASE CopyAccepted(p)
    BY <2>2, EndOwned DEF CopyAccepted, Actors
  <2>3. CASE PublishRefused(p)
    BY <2>3 DEF IInv, Types, PlaceTypes, Actors, Owned, At, Holding,
       PublishRefused, SavesThen
  <2> QED
    BY <1>9, <2>1, <2>2, <2>3
<1>10. ASSUME NEW c \in Stops, RequestStop(c) \/ MarkStop(c) \/ MarkNothing(c)
      PROVE  Owned'
  BY <1>10 DEF IInv, Types, PlaceTypes, LoopTypes, Actors, Owned, At, Holding,
     Sessions, RequestStop, MarkStop, MarkNothing, SavesThen, Goes, Ends
<1>11. ASSUME NEW c \in Reviews, OpenReview(c) \/ FileReviewAlone(c)
      PROVE  Owned'
  BY <1>11 DEF IInv, Types, PlaceTypes, LoopTypes, Actors, Owned, At, Holding,
     Sessions, OpenReview, FileReviewAlone, Goes, Ends
<1>12. ASSUME NEW c \in Reviews, FileReview(c) PROVE Owned'
  BY <1>12 DEF IInv, Types, PlaceTypes, LoopTypes, Actors, Owned, At, Holding,
     Sessions, FileReview, SavesThen, Put
<1>13. ASSUME NEW a \in Actors, BeginSave(a) \/ EndSave(a) PROVE Owned'
  BY <1>13 DEF IInv, Types, PlaceTypes, LoopTypes, Actors, Owned, At, Holding,
     Sessions, BeginSave, EndSave, Goes
<1>14. ASSUME NEW a \in Actors, LastSave(a) \/ Crash(a) PROVE Owned'
  BY <1>14, EndOwned DEF LastSave, Crash, disk
<1>15. CASE UNCHANGED vars
  BY <1>15 DEF IInv, Types, PlaceTypes, LoopTypes, Actors, Owned, At, Holding,
     Sessions, vars
<1> QED
  BY <1>1, <1>2, <1>3, <1>4, <1>5, <1>6, <1>7, <1>8, <1>9, <1>10, <1>11,
     <1>12, <1>13, <1>14, <1>15 DEF Next, Drive, Allocate, Iterate, Publish,
     StopCommand, ReviewCommand, Save

\* Two drivers that hold a number hold different ones.
LEMMA NumbersApart ==
  ASSUME IInv, NEW p \in Drivers, NEW q \in Drivers, p # q,
         At(p) \in Holding, At(q) \in Holding
  PROVE  number[p] # number[q]
<1>1. pc[p] # "off" /\ pc[q] # "off"
  BY DEF At, Holding
<1>2. session[p] # session[q]
  BY <1>1 DEF IInv, Owned
<1>3. /\ [number |-> number[p], by |-> session[p]] \in claimed
      /\ [number |-> number[q], by |-> session[q]] \in claimed
  BY DEF IInv, Owned
<1> QED
  BY <1>2, <1>3 DEF IInv, Owned

\* A driver's write is an addition.
LEMMA PutAdds ==
  ASSUME NEW p \in Drivers, NEW k \in Kinds, NEW s \in Sayings,
         Unwritten(p, k), Put(Of(p, k, s))
  PROVE  files' = files \cup {Of(p, k, s)}
BY DEF Unwritten, Put, Of

\* Writing what is there changes nothing.
LEMMA PutAgain ==
  ASSUME Filed, NEW f \in files, Put(f)
  PROVE  files' = files
BY DEF Filed, Put

\* After a driver's write every file still has its owner and its own name,
\* and the other drivers' files are still unwritten.
LEMMA WriteFiled ==
  ASSUME IInv, NEW p \in Drivers, NEW k \in Kinds, NEW s \in Sayings,
         At(p) \in Holding, Unwritten(p, k), Put(Of(p, k, s)),
         UNCHANGED <<claimed, number, session>>
  PROVE  /\ \A f \in files' : [number |-> f.number, by |-> f.by] \in claimed'
         /\ \A f, g \in files' : f.kind = g.kind /\ f.number = g.number => f = g
         /\ \A q \in Drivers, j \in Kinds :
              Unwritten(q, j) /\ ((q # p /\ At(q) \in Holding) \/ j # k) => Unwritten(q, j)'
<1> DEFINE new == Of(p, k, s)
<1>1. files' = files \cup {new}
  BY PutAdds
<1>2. new.kind = k /\ new.number = number[p] /\ new.by = session[p]
  BY DEF Of
<1>3. [number |-> new.number, by |-> new.by] \in claimed
  BY <1>2 DEF IInv, Owned
<1>4. \A f \in files : f.kind = k => f.number # new.number
  BY <1>2 DEF Unwritten
<1>5. \A f \in files' : [number |-> f.number, by |-> f.by] \in claimed'
  BY <1>1, <1>3 DEF IInv, Filed
<1>6. \A f, g \in files' : f.kind = g.kind /\ f.number = g.number => f = g
  BY <1>1, <1>2, <1>4 DEF IInv, Filed
<1>7. ASSUME NEW q \in Drivers, NEW j \in Kinds, Unwritten(q, j),
             (q # p /\ At(q) \in Holding) \/ j # k
      PROVE  Unwritten(q, j)'
  <2>1. j = k => number[q] # number[p]
    BY <1>7, NumbersApart
  <2> QED
    BY <1>1, <1>2, <1>7, <2>1 DEF Unwritten
<1> QED
  BY <1>5, <1>6, <1>7

\* The steps that write a file of the iteration a driver holds: what they
\* write, and where the driver stands before and after.
Writing(p) == RecordSuite(p) \/ KeepVerification(p) \/ Correct(p) \/ Accept(p) \/ End(p) \/ Pause(p)

Writes(p, k, s) ==
  /\ Put(Of(p, k, s))
  /\ \/ k = "suite" /\ pc[p] = "work" /\ At(p)' = "measure"
     \/ k = "verification" /\ pc[p] = "keep" /\ At(p)' = "judge"
     \/ k = "record" /\ pc[p] \in {"work", "judge"} /\ At(p)' \in {"check", "publish", "off"}
  /\ At(p)' = "publish" => s = "ACCEPT"
  /\ \A q \in Drivers : q # p => At(q)' = At(q)
  /\ UNCHANGED <<claimed, number, session, dirs, stateFile, accepted>>

LEMMA WritingWrites ==
  ASSUME Types, NEW p \in Drivers, Writing(p)
  PROVE  \E k \in Kinds, s \in Sayings : Writes(p, k, s)
<1> USE DEF disk, control, loop, starts, history, Types, PlaceTypes, Actors
<1>1. CASE RecordSuite(p)
  BY <1>1 DEF RecordSuite, Goes, Writes, At, Kinds, Sayings
<1>2. CASE KeepVerification(p)
  BY <1>2 DEF KeepVerification, Goes, Writes, At, Kinds, Sayings
<1>3. CASE Correct(p)
  BY <1>3 DEF Correct, Concludes, SavesThen, Writes, At, Kinds, Sayings
<1>4. CASE Accept(p)
  BY <1>4 DEF Accept, Concludes, SavesThen, Writes, At, Kinds, Sayings
<1>5. CASE End(p)
  BY <1>5 DEF End, Concludes, SavesThen, Writes, At, Kinds, Sayings
<1>6. CASE Pause(p)
  BY <1>6 DEF Pause, Concludes, SavesThen, Writes, At, Kinds, Sayings
<1> QED
  BY <1>1, <1>2, <1>3, <1>4, <1>5, <1>6 DEF Writing

\* What is written was not there, and the writer owns its place.
LEMMA WritesNew ==
  ASSUME IInv, NEW p \in Drivers, NEW k \in Kinds, NEW s \in Sayings, Writes(p, k, s)
  PROVE  /\ At(p) \in Holding /\ Unwritten(p, k)
         /\ files' = files \cup {Of(p, k, s)}
<1>1. At(p) = pc[p] /\ At(p) \in Holding
  BY DEF Writes, At, Holding
<1>2. Unwritten(p, k)
  BY <1>1 DEF Writes, IInv, Filed
<1> QED
  BY <1>1, <1>2, PutAdds DEF Writes

\* The files stay filed.
LEMMA FiledStep ==
  ASSUME IInv, [Next]_vars
  PROVE  Filed'
<1> USE StoreAssumption DEF disk, control, loop, starts, history
<1>1. ASSUME NEW p \in Drivers, Launch(p) \/ Resume(p) \/ Reopen(p) PROVE Filed'
  BY <1>1 DEF IInv, Types, PlaceTypes, LoopTypes, Actors, Filed, Unwritten,
     At, Owned, Launch, Resume, Reopen, SavesThen, Goes, Starts
<1>2. ASSUME NEW p \in Drivers, Halt(p) \/ Proceed(p) PROVE Filed'
  BY <1>2 DEF IInv, Types, PlaceTypes, LoopTypes, Actors, Filed, Unwritten,
     At, Owned, Halt, Proceed, SavesThen, Goes
<1>3. ASSUME NEW p \in Drivers, NextIteration(p) PROVE Filed'
  BY <1>3 DEF IInv, Types, PlaceTypes, LoopTypes, Actors, Filed, Unwritten,
     At, Owned, NextIteration, Goes
<1>4. ASSUME NEW p \in Drivers, ClaimDirectory(p) PROVE Filed'
  <2>1. number[p] \notin dirs /\ files' = files /\ number' = number /\ At(p)' = "work"
        /\ claimed \subseteq claimed'
    BY <1>4 DEF ClaimDirectory, Goes, Occupied, At, IInv, Types, PlaceTypes,
       Actors
  <2>2. \A f \in files : f.number # number[p]
    BY <2>1 DEF IInv, Filed, Owned
  <2>3. \A q \in Drivers : q # p => At(q)' = At(q)
    BY <1>4 DEF ClaimDirectory, Goes, At, IInv, Types, PlaceTypes, Actors
  <2> QED
    BY <2>1, <2>2, <2>3 DEF IInv, Filed, Unwritten
<1>5. ASSUME NEW p \in Drivers, TryTheNext(p) \/ AllocationRefused(p)
      PROVE  Filed'
  BY <1>5 DEF IInv, Types, PlaceTypes, LoopTypes, Actors, Filed, Unwritten,
     At, Owned, TryTheNext, AllocationRefused, SavesThen
<1>6. ASSUME NEW p \in Drivers, Writing(p) PROVE Filed'
  <2>1. PICK k \in Kinds, s \in Sayings : Writes(p, k, s)
    BY <1>6, WritingWrites DEF IInv
  <2>2. At(p) \in Holding /\ Unwritten(p, k)
    BY <2>1, WritesNew
  <2>3. /\ \A f \in files' : [number |-> f.number, by |-> f.by] \in claimed'
        /\ \A f, g \in files' : f.kind = g.kind /\ f.number = g.number => f = g
        /\ \A q \in Drivers, j \in Kinds :
             Unwritten(q, j) /\ ((q # p /\ At(q) \in Holding) \/ j # k) => Unwritten(q, j)'
    BY <2>1, <2>2, WriteFiled DEF Writes
  <2>4. ASSUME NEW q \in Drivers
        PROVE  /\ At(q)' = "work" => Unwritten(q, "suite")'
               /\ At(q)' \in {"work", "measure", "keep"} => Unwritten(q, "verification")'
               /\ At(q)' \in {"work", "measure", "keep", "judge"} => Unwritten(q, "record")'
    <3>1. CASE q # p
      BY <3>1, <2>1, <2>3 DEF Writes, IInv, Filed, Holding, Kinds
    <3>2. CASE q = p
      <4>1. At(p) = pc[p]
        BY <2>1 DEF Writes, At
      <4> QED
        BY <4>1, <3>2, <2>1, <2>3 DEF Writes, IInv, Filed, Kinds
    <3> QED
      BY <3>1, <3>2
  <2> QED
    BY <2>3, <2>4 DEF Filed
<1>7. ASSUME NEW p \in Drivers, PersistObligation(p) \/ NothingToVerify(p) \/
             Abandon(p)
      PROVE  Filed'
  BY <1>7 DEF IInv, Types, PlaceTypes, LoopTypes, Actors, Filed, Unwritten,
     At, Owned, PersistObligation, NothingToVerify, Abandon, SavesThen, Goes
<1>8. ASSUME NEW p \in Drivers, RemoveAccepted(p) \/ MakeAccepted(p) \/
             CopyAccepted(p) \/ PublishRefused(p)
      PROVE  Filed'
  BY <1>8 DEF IInv, Types, PlaceTypes, LoopTypes, Actors, Filed, Unwritten,
     At, Owned, RemoveAccepted, MakeAccepted, CopyAccepted, PublishRefused,
     SavesThen, Goes, Ends
<1>9. ASSUME NEW c \in Stops, RequestStop(c) \/ MarkStop(c) \/ MarkNothing(c)
      PROVE  Filed'
  BY <1>9 DEF IInv, Types, PlaceTypes, LoopTypes, Actors, Filed, Unwritten,
     At, Owned, RequestStop, MarkStop, MarkNothing, SavesThen, Goes, Ends
<1>10. ASSUME NEW c \in Reviews, OpenReview(c) \/ FileReviewAlone(c)
      PROVE  Filed'
  BY <1>10 DEF IInv, Types, PlaceTypes, LoopTypes, Actors, Filed, Unwritten,
     At, Owned, OpenReview, FileReviewAlone, Goes, Ends
<1>11. ASSUME NEW c \in Reviews, FileReview(c) PROVE Filed'
  <2>1. PICK last \in mem[c].recorded : Put(last)
    BY <1>11 DEF FileReview
  <2>2. last \in files
    BY DEF IInv, Evident, Backed, Actors
  <2>3. files' = files
    BY <2>1, <2>2, PutAgain DEF IInv
  <2>4. \A p \in Drivers : At(p)' = At(p)
    BY <1>11 DEF FileReview, SavesThen, At, IInv, Types, PlaceTypes, Actors
  <2>5. number' = number /\ claimed' = claimed
    BY <1>11 DEF FileReview
  <2> QED
    BY <2>3, <2>4, <2>5 DEF IInv, Filed, Unwritten
<1>12. ASSUME NEW a \in Actors, BeginSave(a) \/ EndSave(a) PROVE Filed'
  BY <1>12 DEF IInv, Types, PlaceTypes, LoopTypes, Actors, Filed, Unwritten,
     At, Owned, BeginSave, EndSave, Goes
<1>13. ASSUME NEW a \in Actors, LastSave(a) \/ Crash(a) PROVE Filed'
  BY <1>13 DEF IInv, Types, PlaceTypes, LoopTypes, Actors, Filed, Unwritten,
     At, Owned, LastSave, Crash, Ends
<1>14. CASE UNCHANGED vars
  BY <1>14 DEF IInv, Types, PlaceTypes, LoopTypes, Actors, Filed, Unwritten,
     At, Owned, vars
<1> QED
  BY <1>1, <1>2, <1>3, <1>4, <1>5, <1>6, <1>7, <1>8, <1>9, <1>10, <1>11,
     <1>12, <1>13, <1>14 DEF Next, Writing, Drive, Allocate, Iterate, Publish,
     StopCommand, ReviewCommand, Save

\* What is on disk stays on disk.
LEMMA DiskGrows ==
  ASSUME IInv, [Next]_vars
  PROVE  files \subseteq files' /\ dirs \subseteq dirs'
<1> USE StoreAssumption DEF disk, control, loop, starts, history
<1>1. ASSUME NEW p \in Drivers, Launch(p) \/ Resume(p) \/ Reopen(p)
      PROVE  files \subseteq files' /\ dirs \subseteq dirs'
  BY <1>1 DEF IInv, Launch, Resume, Reopen, SavesThen, Goes, Starts
<1>2. ASSUME NEW p \in Drivers, Halt(p) \/ Proceed(p)
      PROVE  files \subseteq files' /\ dirs \subseteq dirs'
  BY <1>2 DEF IInv, Halt, Proceed, SavesThen, Goes
<1>3. ASSUME NEW p \in Drivers, NextIteration(p)
      PROVE  files \subseteq files' /\ dirs \subseteq dirs'
  BY <1>3 DEF IInv, NextIteration, Goes
<1>4. ASSUME NEW p \in Drivers, ClaimDirectory(p)
      PROVE  files \subseteq files' /\ dirs \subseteq dirs'
  BY <1>4 DEF IInv, ClaimDirectory, Goes
<1>5. ASSUME NEW p \in Drivers, TryTheNext(p) \/ AllocationRefused(p)
      PROVE  files \subseteq files' /\ dirs \subseteq dirs'
  BY <1>5 DEF IInv, TryTheNext, AllocationRefused, SavesThen
<1>6. ASSUME NEW p \in Drivers, Writing(p)
      PROVE  files \subseteq files' /\ dirs \subseteq dirs'
  <2>1. PICK k \in Kinds, s \in Sayings : Writes(p, k, s)
    BY <1>6, WritingWrites DEF IInv
  <2> QED
    BY <2>1, WritesNew DEF Writes
<1>7. ASSUME NEW p \in Drivers, PersistObligation(p) \/ NothingToVerify(p) \/
             Abandon(p)
      PROVE  files \subseteq files' /\ dirs \subseteq dirs'
  BY <1>7 DEF IInv, PersistObligation, NothingToVerify, Abandon, SavesThen,
     Goes
<1>8. ASSUME NEW p \in Drivers, RemoveAccepted(p) \/ MakeAccepted(p) \/
             CopyAccepted(p) \/ PublishRefused(p)
      PROVE  files \subseteq files' /\ dirs \subseteq dirs'
  BY <1>8 DEF IInv, RemoveAccepted, MakeAccepted, CopyAccepted,
     PublishRefused, SavesThen, Goes, Ends
<1>9. ASSUME NEW c \in Stops, RequestStop(c) \/ MarkStop(c) \/ MarkNothing(c)
      PROVE  files \subseteq files' /\ dirs \subseteq dirs'
  BY <1>9 DEF IInv, RequestStop, MarkStop, MarkNothing, SavesThen, Goes, Ends
<1>10. ASSUME NEW c \in Reviews, OpenReview(c) \/ FileReviewAlone(c)
      PROVE  files \subseteq files' /\ dirs \subseteq dirs'
  BY <1>10 DEF IInv, OpenReview, FileReviewAlone, Goes, Ends
<1>11. ASSUME NEW c \in Reviews, FileReview(c)
      PROVE  files \subseteq files' /\ dirs \subseteq dirs'
  <2>1. PICK last \in mem[c].recorded : Put(last)
    BY <1>11 DEF FileReview
  <2>2. last \in files
    BY DEF IInv, Evident, Backed, Actors
  <2> QED
    BY <1>11, <2>1, <2>2, PutAgain DEF IInv, FileReview
<1>12. ASSUME NEW a \in Actors, BeginSave(a) \/ EndSave(a)
      PROVE  files \subseteq files' /\ dirs \subseteq dirs'
  BY <1>12 DEF IInv, BeginSave, EndSave, Goes
<1>13. ASSUME NEW a \in Actors, LastSave(a) \/ Crash(a)
      PROVE  files \subseteq files' /\ dirs \subseteq dirs'
  BY <1>13 DEF IInv, LastSave, Crash, Ends
<1>14. CASE UNCHANGED vars
  BY <1>14 DEF IInv, vars
<1> QED
  BY <1>1, <1>2, <1>3, <1>4, <1>5, <1>6, <1>7, <1>8, <1>9, <1>10, <1>11,
     <1>12, <1>13, <1>14 DEF Next, Writing, Drive, Allocate, Iterate, Publish,
     StopCommand, ReviewCommand, Save

\* What was backed stays backed.
LEMMA StaysBacked ==
  ASSUME IInv, files \subseteq files', dirs \subseteq dirs',
         NEW a \in Actors, mem'[a] = mem[a]
  PROVE  Backed(mem[a])'
<1>1. Backed(mem[a])
  BY DEF IInv, Evident
<1> QED
  BY <1>1 DEF Backed

\* A concluded iteration is backed by the record it has just written.
LEMMA ConcludesBacked ==
  ASSUME IInv, NEW p \in Drivers, NEW s \in Sayings, NEW t \in Statuses, NEW next,
         At(p) \in {"work", "judge"},
         Concludes(p, s, t, next), t = "ACCEPTED" => s = "ACCEPT",
         files \subseteq files', dirs \subseteq dirs'
  PROVE  Backed(mem[p])'
<1> DEFINE new == Of(p, "record", s)
<1>1. Unwritten(p, "record") /\ "record" \in Kinds
  BY DEF IInv, Filed, Kinds
<1>2. files' = files \cup {new}
  BY <1>1, PutAdds DEF Concludes
<1>3. mem[p] \in RunState /\ Backed(mem[p]) /\ mem[p].iteration = number[p]
  BY DEF IInv, Types, MemoryTypes, Evident, Actors
<1>4. mem'[p] = [mem[p] EXCEPT !.status = t, !.recorded = @ \cup {new}]
  BY DEF Concludes, SavesThen, IInv, Types, MemoryTypes, Actors
<1>5. /\ mem'[p].status = t
      /\ mem'[p].iteration = number[p]
      /\ mem'[p].recorded = mem[p].recorded \cup {new}
  BY <1>3, <1>4 DEF RunState
<1>6. new.number = number[p] /\ new.says = s
  BY DEF Of
<1> QED
  BY <1>2, <1>3, <1>5, <1>6 DEF Backed

\* An iteration is concluded with a verdict that fits its status.
LEMMA Concluding ==
  ASSUME IInv, NEW p \in Drivers, Correct(p) \/ Accept(p) \/ End(p) \/ Pause(p)
  PROVE  \E s \in Sayings, t \in Statuses, next \in {"check", "publish", "off"} :
           /\ Concludes(p, s, t, next)
           /\ t = "ACCEPTED" => s = "ACCEPT" /\ next # "check"
<1> USE DEF Sayings, Statuses
<1>1. CASE Correct(p)
  <2>1. mem[p].status \in Statuses /\ mem[p].status # "ACCEPTED"
    BY <1>1 DEF IInv, Types, MemoryTypes, RunState, Evident, Correct, At,
       Actors
  <2> QED
    BY <1>1, <2>1 DEF Correct
<1>2. CASE Accept(p)
  BY <1>2 DEF Accept
<1>3. CASE End(p)
  BY <1>3 DEF End
<1>4. CASE Pause(p)
  BY <1>4 DEF Pause
<1> QED
  BY <1>1, <1>2, <1>3, <1>4

\* States stay backed by evidence.
LEMMA EvidentStep ==
  ASSUME IInv, files \subseteq files', dirs \subseteq dirs', [Next]_vars
  PROVE  Evident'
<1> USE StoreAssumption DEF disk, control, loop, starts, history
<1>1. ASSUME NEW p \in Drivers, Launch(p) PROVE Evident'
  BY <1>1 DEF IInv, Evident, Backed, Readable, At, Deciding, MemoryTypes,
     RunState, Fresh, Types, PlaceTypes, LoopTypes, DriverPlaces, Actors,
     Launch, SavesThen, Starts
<1>2. ASSUME NEW p \in Drivers, Resume(p) PROVE Evident'
  BY <1>2 DEF IInv, Evident, Backed, Readable, At, Deciding, MemoryTypes,
     RunState, Fresh, Types, PlaceTypes, LoopTypes, DriverPlaces, Actors,
     Resume, Goes, Starts
<1>3. ASSUME NEW p \in Drivers, Reopen(p) PROVE Evident'
  BY <1>3 DEF IInv, Evident, Backed, Readable, At, Deciding, MemoryTypes,
     RunState, Fresh, Types, PlaceTypes, LoopTypes, DriverPlaces, Actors,
     Reopen, SavesThen
<1>4. ASSUME NEW p \in Drivers, Halt(p) PROVE Evident'
  BY <1>4 DEF IInv, Evident, Backed, Readable, At, Deciding, MemoryTypes,
     RunState, Fresh, Types, PlaceTypes, LoopTypes, DriverPlaces, Actors, Halt,
     SavesThen
<1>5. ASSUME NEW p \in Drivers, Proceed(p) PROVE Evident'
  BY <1>5 DEF IInv, Evident, Backed, Readable, At, Deciding, MemoryTypes,
     RunState, Fresh, Types, PlaceTypes, LoopTypes, DriverPlaces, Actors,
     Proceed, Goes
<1>6. ASSUME NEW p \in Drivers, NextIteration(p) PROVE Evident'
  BY <1>6 DEF IInv, Evident, Backed, Readable, At, Deciding, MemoryTypes,
     RunState, Fresh, Types, PlaceTypes, LoopTypes, DriverPlaces, Actors,
     NextIteration, Goes
<1>7. ASSUME NEW p \in Drivers, ClaimDirectory(p) PROVE Evident'
  BY <1>7 DEF IInv, Evident, Backed, Readable, At, Deciding, MemoryTypes,
     RunState, Fresh, Types, PlaceTypes, LoopTypes, DriverPlaces, Actors,
     ClaimDirectory, Goes
<1>8. ASSUME NEW p \in Drivers, TryTheNext(p) PROVE Evident'
  BY <1>8 DEF IInv, Evident, Backed, Readable, At, Deciding, MemoryTypes,
     RunState, Fresh, Types, PlaceTypes, LoopTypes, DriverPlaces, Actors,
     TryTheNext
<1>9. ASSUME NEW p \in Drivers, AllocationRefused(p) PROVE Evident'
  BY <1>9 DEF IInv, Evident, Backed, Readable, At, Deciding, MemoryTypes,
     RunState, Fresh, Types, PlaceTypes, LoopTypes, DriverPlaces, Actors,
     AllocationRefused, SavesThen
<1>10. ASSUME NEW p \in Drivers, RecordSuite(p) PROVE Evident'
  BY <1>10 DEF IInv, Evident, Backed, Readable, At, Deciding, MemoryTypes,
     RunState, Fresh, Types, PlaceTypes, LoopTypes, DriverPlaces, Actors,
     RecordSuite, Goes, Put, Of
<1>11. ASSUME NEW p \in Drivers, PersistObligation(p) PROVE Evident'
  BY <1>11 DEF IInv, Evident, Backed, Readable, At, Deciding, MemoryTypes,
     RunState, Fresh, Types, PlaceTypes, LoopTypes, DriverPlaces, Actors,
     PersistObligation, SavesThen
<1>12. ASSUME NEW p \in Drivers, KeepVerification(p) PROVE Evident'
  BY <1>12 DEF IInv, Evident, Backed, Readable, At, Deciding, MemoryTypes,
     RunState, Fresh, Types, PlaceTypes, LoopTypes, DriverPlaces, Actors,
     KeepVerification, Goes, Put, Of
<1>13. ASSUME NEW p \in Drivers, NothingToVerify(p) PROVE Evident'
  BY <1>13 DEF IInv, Evident, Backed, Readable, At, Deciding, MemoryTypes,
     RunState, Fresh, Types, PlaceTypes, LoopTypes, DriverPlaces, Actors,
     NothingToVerify, Goes
<1>14. ASSUME NEW p \in Drivers, Correct(p) PROVE Evident'
  <2>1. p \in Actors /\ At(p) \in {"work", "judge"}
    BY <1>14 DEF Correct, At, Actors
  <2>2. Backed(mem[p])'
    <3>1. mem[p].status \in Statuses /\ mem[p].status # "ACCEPTED"
      BY <1>14, <2>1 DEF IInv, Types, MemoryTypes, RunState, Evident, Correct,
         At
    <3>2. Concludes(p, "FIX", mem[p].status, "check") /\ "FIX" \in Sayings
      BY <1>14 DEF Correct, Sayings
    <3> QED
      BY <2>1, <3>1, <3>2, ConcludesBacked
  <2>3. \A a \in Actors : a # p => mem'[a] = mem[a]
    BY <1>14 DEF Correct, Concludes, SavesThen, IInv, Types, MemoryTypes
  <2>4. \A a \in Actors : Backed(mem[a])'
    BY <2>2, <2>3, StaysBacked
  <2>5. stateFile' = stateFile /\ number' = number
    BY <1>14 DEF Correct, Concludes
  <2>6. Readable' => Backed(stateFile)'
    BY <2>5 DEF IInv, Evident, Readable, Backed
  <2>7. \A q \in Drivers : q # p => At(q)' = At(q)
    BY <1>14 DEF Correct, Concludes, SavesThen, At, IInv, Types, PlaceTypes,
       Actors
  <2>8. At(p)' \in {"check"}
    BY <1>14 DEF Correct, Concludes, SavesThen, At, IInv, Types, PlaceTypes,
       Actors
  <2>9. At(p)' = "check" => mem'[p].status = mem[p].status
    BY <1>14, <2>1 DEF Correct, Concludes, SavesThen, At, IInv, Types,
       PlaceTypes, MemoryTypes, RunState, Actors
  <2> QED
    BY <1>14, <2>1, <2>3, <2>4, <2>5, <2>6, <2>7, <2>8, <2>9
       DEF Evident, IInv, Deciding, Actors, At, Correct
<1>15. ASSUME NEW p \in Drivers, Accept(p) PROVE Evident'
  <2>1. p \in Actors /\ At(p) \in {"work", "judge"}
    BY <1>15 DEF Accept, At, Actors
  <2>2. Backed(mem[p])'
    BY <1>15, <2>1, ConcludesBacked DEF Accept, Sayings, Statuses, IInv, Types,
       MemoryTypes, RunState
  <2>3. \A a \in Actors : a # p => mem'[a] = mem[a]
    BY <1>15 DEF Accept, Concludes, SavesThen, IInv, Types, MemoryTypes
  <2>4. \A a \in Actors : Backed(mem[a])'
    BY <2>2, <2>3, StaysBacked
  <2>5. stateFile' = stateFile /\ number' = number
    BY <1>15 DEF Accept, Concludes
  <2>6. Readable' => Backed(stateFile)'
    BY <2>5 DEF IInv, Evident, Readable, Backed
  <2>7. \A q \in Drivers : q # p => At(q)' = At(q)
    BY <1>15 DEF Accept, Concludes, SavesThen, At, IInv, Types, PlaceTypes,
       Actors
  <2>8. At(p)' \in {"publish"}
    BY <1>15 DEF Accept, Concludes, SavesThen, At, IInv, Types, PlaceTypes,
       Actors
  <2>9. At(p)' = "check" => mem'[p].status = mem[p].status
    BY <1>15, <2>1 DEF Accept, Concludes, SavesThen, At, IInv, Types,
       PlaceTypes, MemoryTypes, RunState, Actors
  <2> QED
    BY <1>15, <2>1, <2>3, <2>4, <2>5, <2>6, <2>7, <2>8, <2>9
       DEF Evident, IInv, Deciding, Actors, At, Accept
<1>16. ASSUME NEW p \in Drivers, End(p) PROVE Evident'
  <2>1. p \in Actors /\ At(p) \in {"work", "judge"}
    BY <1>16 DEF End, At, Actors
  <2>2. Backed(mem[p])'
    BY <1>16, <2>1, ConcludesBacked DEF End, Sayings, Statuses, IInv, Types,
       MemoryTypes, RunState
  <2>3. \A a \in Actors : a # p => mem'[a] = mem[a]
    BY <1>16 DEF End, Concludes, SavesThen, IInv, Types, MemoryTypes
  <2>4. \A a \in Actors : Backed(mem[a])'
    BY <2>2, <2>3, StaysBacked
  <2>5. stateFile' = stateFile /\ number' = number
    BY <1>16 DEF End, Concludes
  <2>6. Readable' => Backed(stateFile)'
    BY <2>5 DEF IInv, Evident, Readable, Backed
  <2>7. \A q \in Drivers : q # p => At(q)' = At(q)
    BY <1>16 DEF End, Concludes, SavesThen, At, IInv, Types, PlaceTypes, Actors
  <2>8. At(p)' \in {"off"}
    BY <1>16 DEF End, Concludes, SavesThen, At, IInv, Types, PlaceTypes, Actors
  <2>9. At(p)' = "check" => mem'[p].status = mem[p].status
    BY <1>16, <2>1 DEF End, Concludes, SavesThen, At, IInv, Types, PlaceTypes,
       MemoryTypes, RunState, Actors
  <2> QED
    BY <1>16, <2>1, <2>3, <2>4, <2>5, <2>6, <2>7, <2>8, <2>9
       DEF Evident, IInv, Deciding, Actors, At, End
<1>17. ASSUME NEW p \in Drivers, Pause(p) PROVE Evident'
  <2>1. p \in Actors /\ At(p) \in {"work", "judge"}
    BY <1>17 DEF Pause, At, Actors
  <2>2. Backed(mem[p])'
    BY <1>17, <2>1, ConcludesBacked DEF Pause, Sayings, Statuses, IInv, Types,
       MemoryTypes, RunState
  <2>3. \A a \in Actors : a # p => mem'[a] = mem[a]
    BY <1>17 DEF Pause, Concludes, SavesThen, IInv, Types, MemoryTypes
  <2>4. \A a \in Actors : Backed(mem[a])'
    BY <2>2, <2>3, StaysBacked
  <2>5. stateFile' = stateFile /\ number' = number
    BY <1>17 DEF Pause, Concludes
  <2>6. Readable' => Backed(stateFile)'
    BY <2>5 DEF IInv, Evident, Readable, Backed
  <2>7. \A q \in Drivers : q # p => At(q)' = At(q)
    BY <1>17 DEF Pause, Concludes, SavesThen, At, IInv, Types, PlaceTypes,
       Actors
  <2>8. At(p)' \in {"off"}
    BY <1>17 DEF Pause, Concludes, SavesThen, At, IInv, Types, PlaceTypes,
       Actors
  <2>9. At(p)' = "check" => mem'[p].status = mem[p].status
    BY <1>17, <2>1 DEF Pause, Concludes, SavesThen, At, IInv, Types,
       PlaceTypes, MemoryTypes, RunState, Actors
  <2> QED
    BY <1>17, <2>1, <2>3, <2>4, <2>5, <2>6, <2>7, <2>8, <2>9
       DEF Evident, IInv, Deciding, Actors, At, Pause
<1>18. ASSUME NEW p \in Drivers, Abandon(p) PROVE Evident'
  BY <1>18 DEF IInv, Evident, Backed, Readable, At, Deciding, MemoryTypes,
     RunState, Fresh, Types, PlaceTypes, LoopTypes, DriverPlaces, Actors,
     Abandon, SavesThen
<1>19. ASSUME NEW p \in Drivers, RemoveAccepted(p) PROVE Evident'
  BY <1>19 DEF IInv, Evident, Backed, Readable, At, Deciding, MemoryTypes,
     RunState, Fresh, Types, PlaceTypes, LoopTypes, DriverPlaces, Actors,
     RemoveAccepted, Goes
<1>20. ASSUME NEW p \in Drivers, MakeAccepted(p) PROVE Evident'
  BY <1>20 DEF IInv, Evident, Backed, Readable, At, Deciding, MemoryTypes,
     RunState, Fresh, Types, PlaceTypes, LoopTypes, DriverPlaces, Actors,
     MakeAccepted, Goes
<1>21. ASSUME NEW p \in Drivers, CopyAccepted(p) PROVE Evident'
  BY <1>21 DEF IInv, Evident, Backed, Readable, At, Deciding, MemoryTypes,
     RunState, Fresh, Types, PlaceTypes, LoopTypes, DriverPlaces, Actors,
     CopyAccepted, Ends
<1>22. ASSUME NEW p \in Drivers, PublishRefused(p) PROVE Evident'
  BY <1>22 DEF IInv, Evident, Backed, Readable, At, Deciding, MemoryTypes,
     RunState, Fresh, Types, PlaceTypes, LoopTypes, DriverPlaces, Actors,
     PublishRefused, SavesThen
<1>23. ASSUME NEW c \in Stops, RequestStop(c) PROVE Evident'
  BY <1>23 DEF IInv, Evident, Backed, Readable, At, Deciding, MemoryTypes,
     RunState, Fresh, Types, PlaceTypes, LoopTypes, DriverPlaces, Actors,
     RequestStop, Goes
<1>24. ASSUME NEW c \in Stops, MarkStop(c) PROVE Evident'
  BY <1>24 DEF IInv, Evident, Backed, Readable, At, Deciding, MemoryTypes,
     RunState, Fresh, Types, PlaceTypes, LoopTypes, DriverPlaces, Actors,
     MarkStop, SavesThen
<1>25. ASSUME NEW c \in Stops, MarkNothing(c) PROVE Evident'
  BY <1>25 DEF IInv, Evident, Backed, Readable, At, Deciding, MemoryTypes,
     RunState, Fresh, Types, PlaceTypes, LoopTypes, DriverPlaces, Actors,
     MarkNothing, Ends
<1>26. ASSUME NEW c \in Reviews, OpenReview(c) PROVE Evident'
  BY <1>26 DEF IInv, Evident, Backed, Readable, At, Deciding, MemoryTypes,
     RunState, Fresh, Types, PlaceTypes, LoopTypes, DriverPlaces, Actors,
     OpenReview, Goes
<1>27. ASSUME NEW c \in Reviews, FileReview(c) PROVE Evident'
  BY <1>27 DEF IInv, Evident, Backed, Readable, At, Deciding, MemoryTypes,
     RunState, Fresh, Types, PlaceTypes, LoopTypes, DriverPlaces, Actors,
     FileReview, SavesThen, Put
<1>28. ASSUME NEW c \in Reviews, FileReviewAlone(c) PROVE Evident'
  BY <1>28 DEF IInv, Evident, Backed, Readable, At, Deciding, MemoryTypes,
     RunState, Fresh, Types, PlaceTypes, LoopTypes, DriverPlaces, Actors,
     FileReviewAlone, Ends
<1>29. ASSUME NEW a \in Actors, BeginSave(a) PROVE Evident'
  BY <1>29 DEF IInv, Evident, Backed, Readable, At, Deciding, MemoryTypes,
     RunState, Fresh, Types, PlaceTypes, LoopTypes, DriverPlaces, Actors,
     BeginSave, Goes
<1>30. ASSUME NEW a \in Actors, EndSave(a) PROVE Evident'
  BY <1>30 DEF IInv, Evident, Backed, Readable, At, Deciding, MemoryTypes,
     RunState, Fresh, Types, PlaceTypes, LoopTypes, DriverPlaces, Actors,
     EndSave, Goes
<1>31. ASSUME NEW a \in Actors, LastSave(a) PROVE Evident'
  BY <1>31 DEF IInv, Evident, Backed, Readable, At, Deciding, MemoryTypes,
     RunState, Fresh, Types, PlaceTypes, LoopTypes, DriverPlaces, Actors,
     LastSave, Ends
<1>32. ASSUME NEW a \in Actors, Crash(a) PROVE Evident'
  BY <1>32 DEF IInv, Evident, Backed, Readable, At, Deciding, MemoryTypes,
     RunState, Fresh, Types, PlaceTypes, LoopTypes, DriverPlaces, Actors,
     Crash, Ends
<1>33. CASE UNCHANGED vars
  BY <1>33 DEF IInv, Evident, Backed, Readable, At, Deciding, MemoryTypes,
     RunState, Fresh, Types, PlaceTypes, LoopTypes, DriverPlaces, Actors, vars
<1> QED
  BY <1>1, <1>2, <1>3, <1>4, <1>5, <1>6, <1>7, <1>8, <1>9, <1>10, <1>11, <1>12,
     <1>13, <1>14, <1>15, <1>16, <1>17, <1>18, <1>19, <1>20, <1>21, <1>22,
     <1>23, <1>24, <1>25, <1>26, <1>27, <1>28, <1>29, <1>30, <1>31, <1>32,
     <1>33
     DEF Next, Drive, Allocate, Iterate, Publish, StopCommand, ReviewCommand, Save


\* What accepted/ holds stays accepted.
LEMMA PublishedStep ==
  ASSUME IInv, files \subseteq files', dirs \subseteq dirs', [Next]_vars
  PROVE  Published'
<1> USE StoreAssumption DEF disk, control, loop, starts, history
<1>1. ASSUME NEW p \in Drivers, Launch(p) \/ Resume(p) \/ Reopen(p)
      PROVE  Published'
  BY <1>1 DEF IInv, Types, PlaceTypes, LoopTypes, Actors, Published,
     AcceptedRecord, At, DiskTypes, Launch, Resume, Reopen, SavesThen, Goes,
     Starts
<1>2. ASSUME NEW p \in Drivers, Halt(p) \/ Proceed(p) PROVE Published'
  BY <1>2 DEF IInv, Types, PlaceTypes, LoopTypes, Actors, Published,
     AcceptedRecord, At, DiskTypes, Halt, Proceed, SavesThen, Goes
<1>3. ASSUME NEW p \in Drivers, NextIteration(p) PROVE Published'
  BY <1>3 DEF IInv, Types, PlaceTypes, LoopTypes, Actors, Published,
     AcceptedRecord, At, DiskTypes, NextIteration, Goes
<1>4. ASSUME NEW p \in Drivers, ClaimDirectory(p) PROVE Published'
  BY <1>4 DEF IInv, Types, PlaceTypes, LoopTypes, Actors, Published,
     AcceptedRecord, At, DiskTypes, ClaimDirectory, Goes
<1>5. ASSUME NEW p \in Drivers, TryTheNext(p) \/ AllocationRefused(p)
      PROVE  Published'
  BY <1>5 DEF IInv, Types, PlaceTypes, LoopTypes, Actors, Published,
     AcceptedRecord, At, DiskTypes, TryTheNext, AllocationRefused, SavesThen
<1>6. ASSUME NEW p \in Drivers, Writing(p) PROVE Published'
  <2>1. PICK k \in Kinds, s \in Sayings : Writes(p, k, s)
    BY <1>6, WritingWrites DEF IInv
  <2>2. files' = files \cup {Of(p, k, s)}
    BY <2>1, WritesNew
  <2>3. \A n : AcceptedRecord(n) => AcceptedRecord(n)'
    BY <2>2 DEF AcceptedRecord
  <2>4. At(p)' \in {"publish", "make", "copy"} => AcceptedRecord(number[p])'
    BY <2>1, <2>2 DEF Writes, AcceptedRecord, Of
  <2> QED
    BY <2>1, <2>3, <2>4 DEF Writes, IInv, Published
<1>7. ASSUME NEW p \in Drivers, PersistObligation(p) \/ NothingToVerify(p) \/
             Abandon(p)
      PROVE  Published'
  BY <1>7 DEF IInv, Types, PlaceTypes, LoopTypes, Actors, Published,
     AcceptedRecord, At, DiskTypes, PersistObligation, NothingToVerify,
     Abandon, SavesThen, Goes
<1>8. ASSUME NEW p \in Drivers, RemoveAccepted(p) \/ MakeAccepted(p) \/
             CopyAccepted(p) \/ PublishRefused(p)
      PROVE  Published'
  BY <1>8 DEF IInv, Types, PlaceTypes, LoopTypes, Actors, Published,
     AcceptedRecord, At, DiskTypes, RemoveAccepted, MakeAccepted,
     CopyAccepted, PublishRefused, SavesThen, Goes, Ends
<1>9. ASSUME NEW c \in Stops, RequestStop(c) \/ MarkStop(c) \/ MarkNothing(c)
      PROVE  Published'
  BY <1>9 DEF IInv, Types, PlaceTypes, LoopTypes, Actors, Published,
     AcceptedRecord, At, DiskTypes, RequestStop, MarkStop, MarkNothing,
     SavesThen, Goes, Ends
<1>10. ASSUME NEW c \in Reviews, OpenReview(c) \/ FileReviewAlone(c)
      PROVE  Published'
  BY <1>10 DEF IInv, Types, PlaceTypes, LoopTypes, Actors, Published,
     AcceptedRecord, At, DiskTypes, OpenReview, FileReviewAlone, Goes, Ends
<1>11. ASSUME NEW c \in Reviews, FileReview(c) PROVE Published'
  BY <1>11 DEF IInv, Types, PlaceTypes, LoopTypes, Actors, Published,
     AcceptedRecord, At, DiskTypes, FileReview, SavesThen, Put
<1>12. ASSUME NEW a \in Actors, BeginSave(a) \/ EndSave(a) PROVE Published'
  BY <1>12 DEF IInv, Types, PlaceTypes, LoopTypes, Actors, Published,
     AcceptedRecord, At, DiskTypes, BeginSave, EndSave, Goes
<1>13. ASSUME NEW a \in Actors, LastSave(a) \/ Crash(a) PROVE Published'
  <2>1. accepted' = accepted /\ files' = files
    BY <1>13 DEF LastSave, Crash, disk
  <2>2. Ends(a)
    BY <1>13 DEF LastSave, Crash
  <2>3. \A p \in Drivers :
          /\ p # a => At(p)' = At(p) /\ number'[p] = number[p]
          /\ p = a => At(p)' = "off"
    BY <2>2 DEF Ends, At, IInv, Types, PlaceTypes, Actors
  <2>4. \A n : AcceptedRecord(n)' = AcceptedRecord(n)
    BY <2>1 DEF AcceptedRecord
  <2> QED
    BY <2>1, <2>3, <2>4 DEF IInv, Published
<1>14. CASE UNCHANGED vars
  BY <1>14 DEF IInv, Types, PlaceTypes, LoopTypes, Actors, Published,
     AcceptedRecord, At, DiskTypes, vars
<1> QED
  BY <1>1, <1>2, <1>3, <1>4, <1>5, <1>6, <1>7, <1>8, <1>9, <1>10, <1>11,
     <1>12, <1>13, <1>14 DEF Next, Writing, Drive, Allocate, Iterate, Publish,
     StopCommand, ReviewCommand, Save

-----------------------------------------------------------------------------
(* The theorems.                                                           *)

LEMMA InvariantInit == Init => IInv
<1> SUFFICES ASSUME Init PROVE IInv
  OBVIOUS
<1> USE StoreAssumption
<1>1. Types
  <2>1. Fresh \in RunState
    BY DEF Fresh, RunState, Statuses
  <2>2. MemoryTypes
    BY <2>1 DEF Init, MemoryTypes
  <2>3. DiskTypes
    BY DEF Init, DiskTypes
  <2>4. PlaceTypes
    BY DEF Init, PlaceTypes, DriverPlaces, CommandPlaces, Actors
  <2>5. LoopTypes
    BY DEF Init, LoopTypes, Sessions
  <2> QED
    BY <2>2, <2>3, <2>4, <2>5 DEF Types
<1>2. \A a \in Actors : At(a) = "off" /\ mem[a] = Fresh
  BY DEF Init, At
<1>3. Drivers \subseteq Actors
  BY DEF Actors
<1>4. Budgeted
  BY <1>2, <1>3 DEF Init, Budgeted, Deciding
<1>5. Dense
  BY <1>3 DEF Init, Dense
<1>6. Owned
  BY <1>2, <1>3 DEF Init, Owned, Holding
<1>7. Filed
  BY <1>2, <1>3 DEF Init, Filed
<1>8. Evident
  BY <1>2, <1>3 DEF Init, Evident, Backed, Fresh, Readable, Deciding
<1>9. Published
  BY <1>2, <1>3 DEF Init, Published
<1>10. Heeded
  BY <1>3 DEF Init, Heeded
<1> QED
  BY <1>1, <1>4, <1>5, <1>6, <1>7, <1>8, <1>9, <1>10 DEF IInv

LEMMA InvariantStep == IInv /\ [Next]_vars => IInv'
<1> SUFFICES ASSUME IInv, [Next]_vars PROVE IInv'
  OBVIOUS
<1>1. Types
  BY DEF IInv
<1>2. Types'
  BY <1>1, MemoryStep, DiskStep, PlaceStep, LoopStep DEF Types
<1>3. files \subseteq files' /\ dirs \subseteq dirs'
  BY DiskGrows
<1>4. Budgeted' /\ Dense' /\ Owned' /\ Filed'
  BY BudgetedStep, DenseStep, OwnedStep, FiledStep
<1>5. Evident' /\ Published' /\ Heeded'
  BY <1>3, EvidentStep, PublishedStep, HeededStep
<1> QED
  BY <1>2, <1>4, <1>5 DEF IInv

THEOREM Invariance == Spec => []IInv
BY InvariantInit, InvariantStep, PTL DEF Spec

\* Every variable stays in its domain, the loop's budgets included.
THEOREM TypeCorrect == Spec => []TypeOK
<1>1. IInv => TypeOK
  BY DEF IInv, Types, MemoryTypes, DiskTypes, PlaceTypes, LoopTypes, Budgeted,
     TypeOK
<1> QED
  BY <1>1, Invariance, PTL

\* state.json never claims more than the evidence beside it shows, whoever
\* saved it and however stale what it saved was.
THEOREM StatesAreBacked == Spec => []StateNamesEvidence
<1>1. IInv => StateNamesEvidence
  BY DEF IInv, Evident, Backed, StateNamesEvidence
<1> QED
  BY <1>1, Invariance, PTL

\* After a stop request a driver begins one iteration at most.
THEOREM StopsAreHeeded == Spec => []StopIsHeeded
<1>1. IInv => StopIsHeeded
  BY DEF IInv, Heeded, StopIsHeeded
<1> QED
  BY <1>1, Invariance, PTL

\* accepted/ holds only what was accepted.
THEOREM AcceptedIsAccepted == Spec => []AcceptedWasAccepted
<1>1. IInv => AcceptedWasAccepted
  BY DEF IInv, Published, AcceptedRecord, AcceptedWasAccepted
<1> QED
  BY <1>1, Invariance, PTL

\* Every step claims the next number, adds a file, or leaves both alone.
LEMMA StepKeepsPromise ==
  ASSUME IInv, [Next]_vars
  PROVE  [Promise!Next]_(Promise!ledger)
<1> USE StoreAssumption DEF disk, control, loop, starts, history
<1>1. ASSUME NEW p \in Drivers, Launch(p) \/ Resume(p) \/ Reopen(p)
      PROVE  [Promise!Next]_(Promise!ledger)
  BY <1>1 DEF IInv, Promise!ledger, Launch, Resume, Reopen, SavesThen, Goes,
     Starts
<1>2. ASSUME NEW p \in Drivers, Halt(p) \/ Proceed(p)
      PROVE  [Promise!Next]_(Promise!ledger)
  BY <1>2 DEF IInv, Promise!ledger, Halt, Proceed, SavesThen, Goes
<1>3. ASSUME NEW p \in Drivers, NextIteration(p)
      PROVE  [Promise!Next]_(Promise!ledger)
  BY <1>3 DEF IInv, Promise!ledger, NextIteration, Goes
<1>4. ASSUME NEW p \in Drivers, ClaimDirectory(p)
      PROVE  [Promise!Next]_(Promise!ledger)
  <2> DEFINE c == [number |-> number[p], by |-> session[p]]
  <2>1. /\ claimed' = claimed \cup {c} /\ c \in claimed' /\ files' = files
        /\ pc[p] = "claim" /\ number[p] \notin Occupied
    BY <1>4 DEF ClaimDirectory
  <2>2. number[p] \in Nat \ {0}
    BY <2>1 DEF IInv, Dense, Types, LoopTypes
  <2>3. \A d \in dirs : d < number[p]
    BY <2>1, <2>2 DEF IInv, Dense
  <2>4. \A earlier \in claimed : earlier.number < c.number
    BY <2>3 DEF IInv, Owned
  <2> QED
    BY <2>1, <2>4 DEF Promise!Next, Promise!Claim
<1>5. ASSUME NEW p \in Drivers, TryTheNext(p) \/ AllocationRefused(p)
      PROVE  [Promise!Next]_(Promise!ledger)
  BY <1>5 DEF IInv, Promise!ledger, TryTheNext, AllocationRefused, SavesThen
<1>6. ASSUME NEW p \in Drivers, Writing(p) PROVE [Promise!Next]_(Promise!ledger)
  <2>1. PICK k \in Kinds, s \in Sayings : Writes(p, k, s)
    BY <1>6, WritingWrites DEF IInv
  <2> DEFINE f == Of(p, k, s)
  <2>2. files' = files \cup {f} /\ f \in files'
    BY <2>1, WritesNew
  <2>3. f.kind = k /\ f.says = s /\ f.number = number[p] /\ f.by = session[p]
    BY DEF Of
  <2>4. [number |-> f.number, by |-> f.by] \in claimed
    BY <2>1, <2>3, WritesNew DEF IInv, Owned
  <2>5. \A g \in files : g.kind = f.kind => g.number # f.number
    BY <2>1, <2>3, WritesNew DEF Unwritten
  <2> QED
    BY <2>1, <2>2, <2>3, <2>4, <2>5 DEF Writes, Promise!Next, Promise!Write
<1>7. ASSUME NEW p \in Drivers, PersistObligation(p) \/ NothingToVerify(p) \/
             Abandon(p)
      PROVE  [Promise!Next]_(Promise!ledger)
  BY <1>7 DEF IInv, Promise!ledger, PersistObligation, NothingToVerify,
     Abandon, SavesThen, Goes
<1>8. ASSUME NEW p \in Drivers, RemoveAccepted(p) \/ MakeAccepted(p) \/
             CopyAccepted(p) \/ PublishRefused(p)
      PROVE  [Promise!Next]_(Promise!ledger)
  BY <1>8 DEF IInv, Promise!ledger, RemoveAccepted, MakeAccepted,
     CopyAccepted, PublishRefused, SavesThen, Goes, Ends
<1>9. ASSUME NEW c \in Stops, RequestStop(c) \/ MarkStop(c) \/ MarkNothing(c)
      PROVE  [Promise!Next]_(Promise!ledger)
  BY <1>9 DEF IInv, Promise!ledger, RequestStop, MarkStop, MarkNothing,
     SavesThen, Goes, Ends
<1>10. ASSUME NEW c \in Reviews, OpenReview(c) \/ FileReviewAlone(c)
      PROVE  [Promise!Next]_(Promise!ledger)
  BY <1>10 DEF IInv, Promise!ledger, OpenReview, FileReviewAlone, Goes, Ends
<1>11. ASSUME NEW c \in Reviews, FileReview(c)
      PROVE  [Promise!Next]_(Promise!ledger)
  <2>1. PICK last \in mem[c].recorded : Put(last)
    BY <1>11 DEF FileReview
  <2>2. last \in files
    BY DEF IInv, Evident, Backed, Actors
  <2> QED
    BY <1>11, <2>1, <2>2, PutAgain DEF IInv, FileReview, Promise!ledger
<1>12. ASSUME NEW a \in Actors, BeginSave(a) \/ EndSave(a)
      PROVE  [Promise!Next]_(Promise!ledger)
  BY <1>12 DEF IInv, Promise!ledger, BeginSave, EndSave, Goes
<1>13. ASSUME NEW a \in Actors, LastSave(a) \/ Crash(a)
      PROVE  [Promise!Next]_(Promise!ledger)
  BY <1>13 DEF IInv, Promise!ledger, LastSave, Crash, Ends
<1>14. CASE UNCHANGED vars
  BY <1>14 DEF IInv, Promise!ledger, vars
<1> QED
  BY <1>1, <1>2, <1>3, <1>4, <1>5, <1>6, <1>7, <1>8, <1>9, <1>10, <1>11,
     <1>12, <1>13, <1>14 DEF Next, Writing, Drive, Allocate, Iterate, Publish,
     StopCommand, ReviewCommand, Save

\* Historical evidence is append-only: the run directory, with every process
\* that writes into it, implements AppendOnlyRun.
THEOREM EvidenceIsAppendOnly == Spec => AppendOnly
<1>1. Init => Promise!Init
  BY DEF Init, Promise!Init
<1>2. IInv /\ [Next]_vars => [Promise!Next]_(Promise!ledger)
  BY StepKeepsPromise
<1> QED
  BY <1>1, <1>2, Invariance, PTL DEF Spec, AppendOnly, Promise!Spec

-----------------------------------------------------------------------------
(* Naturals.                                                               *)

\* Less-than is well-founded on the naturals.
LEMMA LessThanWellFounded == IsWellFoundedOn({ss \in Nat \X Nat : ss[1] < ss[2]}, Nat)
BY NatLessThanWellFounded, Zenon DEF OpToRel

\* A set of naturals that is not empty has a least element.
LEMMA HasLeast ==
  ASSUME NEW D, D \subseteq Nat, D # {}
  PROVE  \E m \in D : \A k \in D : m <= k
<1> DEFINE R == {ss \in Nat \X Nat : ss[1] < ss[2]}
<1> HIDE DEF R
<1>1. IsWellFoundedOn(R, Nat)
  BY LessThanWellFounded DEF R
<1>2. PICK m \in D : \A k \in D : ~(<<k, m>> \in R)
  BY <1>1, WFMin
<1>3. \A k \in D : ~(k < m)
  BY <1>2 DEF R
<1> QED
  BY <1>3

\* A set of naturals that holds 0 and, with each member, the next holds them all.
LEMMA NaturalsByInduction ==
  ASSUME NEW T, 0 \in T, \A n \in Nat : n \in T => n + 1 \in T
  PROVE  \A n \in Nat : n \in T
<1> DEFINE Out == {n \in Nat : n \notin T}
<1>1. SUFFICES ASSUME Out # {} PROVE FALSE
  OBVIOUS
<1>2. PICK m \in Out : \A k \in Out : m <= k
  BY <1>1, HasLeast
<1>3. m \in Nat /\ m # 0 /\ m \notin T
  OBVIOUS
<1>4. m - 1 \in Nat /\ (m - 1) + 1 = m /\ ~(m <= m - 1)
  BY <1>3
<1>5. m - 1 \in T
  BY <1>2, <1>4
<1> QED
  BY <1>3, <1>4, <1>5

-----------------------------------------------------------------------------
(* Sequences of anything.                                                  *)

IsSequence(s) == Len(s) \in Nat /\ s = [i \in 1..Len(s) |-> s[i]]

LEMMA SequenceIs ==
  ASSUME NEW s, IsSequence(s)
  PROVE  /\ DOMAIN s = 1..Len(s)
         /\ s \in Seq({s[i] : i \in 1..Len(s)})
<1>1. DOMAIN s = 1..Len(s)
  BY DEF IsSequence
<1>2. s \in [1..Len(s) -> {s[i] : i \in 1..Len(s)}]
  BY DEF IsSequence
<1>3. s \in Seq({s[i] : i \in 1..Len(s)})
  BY <1>2, SeqDef DEF IsSequence
<1> QED
  BY <1>1, <1>3

LEMMA EmptySequence == IsSequence(<<>>) /\ Len(<<>>) = 0
BY DEF IsSequence

LEMMA MembersSequence ==
  ASSUME NEW S, NEW s \in Seq(S)
  PROVE  IsSequence(s) /\ \A i \in 1..Len(s) : s[i] \in S
BY DEF IsSequence

\* What a member appended to a sequence leaves as it was.
LEMMA AppendIs ==
  ASSUME NEW s, IsSequence(s), NEW x
  PROVE  /\ IsSequence(Append(s, x)) /\ Len(Append(s, x)) = Len(s) + 1
         /\ Append(s, x)[Len(s) + 1] = x
         /\ \A i \in 1..Len(s) : Append(s, x)[i] = s[i]
<1> DEFINE S == {s[i] : i \in 1..Len(s)} \cup {x}
<1>1. \A i \in 1..Len(s) : s[i] \in S
  OBVIOUS
<1>2. x \in S
  OBVIOUS
<1> HIDE DEF S
<1>3. s \in Seq(S)
  <2>1. s \in [1..Len(s) -> S]
    BY <1>1 DEF IsSequence
  <2> QED
    BY <2>1, SeqDef DEF IsSequence
<1>4. Append(s, x) \in Seq(S)
  BY <1>2, <1>3
<1>5. /\ Len(Append(s, x)) = Len(s) + 1
      /\ Append(s, x)[Len(s) + 1] = x
      /\ \A i \in 1..Len(s) : Append(s, x)[i] = s[i]
  BY <1>2, <1>3
<1>6. IsSequence(Append(s, x))
  BY <1>4, MembersSequence
<1> QED
  BY <1>5, <1>6

-----------------------------------------------------------------------------
(* The register.                                                           *)

\* f tells the register after each of the first n risks.
TellsRegister(f, n) ==
  f = [k \in 0..n |-> IF k = 0 THEN <<>> ELSE Merged(f[k - 1], Register[k])]

LEMMA RegistersExist == \A n \in Nat : \E f : TellsRegister(f, n)
<1> USE DEF TellsRegister
<1> DEFINE Told(j) == \E f : TellsRegister(f, j)
           T == {j \in Nat : Told(j)}
<1>1. 0 \in T
  <2>1. Told(0)
    <3> WITNESS [k \in 0..0 |-> <<>>]
    <3> QED
      OBVIOUS
  <2> HIDE DEF Told
  <2> QED
    BY <2>1
<1>2. ASSUME NEW j \in Nat, j \in T
      PROVE  j + 1 \in T
  <2>1. PICK f : TellsRegister(f, j)
    BY <1>2
  <2> DEFINE new == Merged(f[j], Register[j + 1])
             g == [k \in 0..(j + 1) |-> IF k = j + 1 THEN new ELSE f[k]]
  <2>2. \A k \in 0..j : f[k] = IF k = 0 THEN <<>> ELSE Merged(f[k - 1], Register[k])
    BY <2>1
  <2> HIDE DEF new
  <2>3. g[j + 1] = new /\ \A k \in 0..j : g[k] = f[k]
    BY j + 1 \notin 0..j
  <2>4. g = [k \in 0..(j + 1) |-> g[k]]
    OBVIOUS
  <2> HIDE DEF g
  <2>5. g[0] = <<>>
    BY <2>2, <2>3, 0 \in 0..j
  <2>6. ASSUME NEW k \in 1..(j + 1)
        PROVE  g[k] = Merged(g[k - 1], Register[k])
    <3>1. CASE k = j + 1
      <4>1. k - 1 = j /\ j \in 0..j
        BY <3>1
      <4> QED
        BY <2>3, <3>1, <4>1 DEF new
    <3>2. CASE k # j + 1
      <4>1. k \in 0..j /\ k - 1 \in 0..j /\ k # 0
        BY <3>2
      <4>2. g[k] = f[k] /\ g[k - 1] = f[k - 1]
        BY <2>3, <4>1
      <4> QED
        BY <2>2, <4>1, <4>2
    <3> QED
      BY <3>1, <3>2
  <2>7. \A k \in 0..(j + 1) : g[k] = IF k = 0 THEN <<>> ELSE Merged(g[k - 1], Register[k])
    <3>1. \A k \in 0..(j + 1) : k = 0 \/ k \in 1..(j + 1)
      OBVIOUS
    <3>2. \A k \in 1..(j + 1) : k # 0
      OBVIOUS
    <3> QED
      BY <2>5, <2>6, <3>1, <3>2
  <2>8. Told(j + 1)
    BY <2>4, <2>7
  <2> HIDE DEF Told
  <2> QED
    BY <2>8
<1> HIDE DEF T
<1>3. \A j \in Nat : j \in T
  BY <1>1, <1>2, NaturalsByInduction
<1> QED
  BY <1>3 DEF T

LEMMA RegisterStep ==
  /\ Len(Register) \in Nat /\ RegisterOf[0] = <<>>
  /\ \A k \in 1..Len(Register) : RegisterOf[k] = Merged(RegisterOf[k - 1], Register[k])
<1>1. Len(Register) \in Nat
  BY GapsAssumption
<1>2. \E f : TellsRegister(f, Len(Register))
  BY <1>1, RegistersExist
<1>3. \E f : f = [n \in 0..Len(Register) |-> IF n = 0 THEN <<>> ELSE Merged(f[n - 1], Register[n])]
  BY <1>2 DEF TellsRegister
<1>4. RegisterOf = [n \in 0..Len(Register) |-> IF n = 0 THEN <<>>
                                               ELSE Merged(RegisterOf[n - 1], Register[n])]
  BY <1>3, Zenon DEF RegisterOf
<1> QED
  BY <1>1, <1>4

\* A restatement in the register leads to a risk before it that restates none,
\* and a risk is registered as it was identified but for what it restates.
RegisterSound(R, n) ==
  /\ IsSequence(R) /\ Len(R) = n
  /\ \A i \in 1..n :
       /\ R[i] = [Register[i] EXCEPT !.restates = R[i].restates]
       /\ R[i].restates # None =>
            \E j \in 1..(i - 1) : R[j].key = R[i].restates /\ R[j].restates = None

LEMMA MergedSound ==
  ASSUME NEW n \in Nat, n + 1 <= Len(Register), NEW R, RegisterSound(R, n)
  PROVE  RegisterSound(Merged(R, Register[n + 1]), n + 1)
<1> DEFINE risk == Register[n + 1]
           new == Resolved(risk, R)
<1>1. n + 1 \in DOMAIN Register /\ Len(Register) \in Nat /\ IsRisk(risk) /\ risk.key # None
  BY GapsAssumption
<1>2. DOMAIN R = 1..n /\ Len(R) = n /\ IsSequence(R)
  BY SequenceIs DEF RegisterSound
<1>3. \A i \in 1..n : /\ i \in DOMAIN Register /\ R[i].key = Register[i].key
                      /\ R[i].key # None /\ R[i].key # risk.key
  <2> TAKE i \in 1..n
  <2>1. i \in DOMAIN Register /\ i # n + 1
    BY <1>1, GapsAssumption
  <2>2. R[i] = [Register[i] EXCEPT !.restates = R[i].restates]
    BY DEF RegisterSound
  <2>3. R[i].key = Register[i].key
    BY <2>1, <2>2, GapsAssumption DEF IsRisk
  <2> QED
    BY <1>1, <2>1, <2>3, GapsAssumption
<1>4. Merged(R, risk) = Append(R, new)
  BY <1>2, <1>3 DEF Merged
<1>5. new = [risk EXCEPT !.restates = new.restates]
  BY <1>1 DEF Resolved, IsRisk
<1>6. ASSUME new.restates # None
      PROVE  \E j \in 1..n : R[j].key = new.restates /\ R[j].restates = None
  <2> DEFINE parents == {r \in ToSet(R) : r.key = risk.restates}
             roots == {r \in ToSet(R) : \E p \in parents : r.key = LineageKey(p)}
             lawful == {r \in roots : r.category = risk.category /\ r.names = r.names
                                       /\ risk.names \subseteq r.names}
  <2>1. PICK r \in roots : r.key = new.restates
    BY <1>1, <1>6 DEF Resolved, IsRisk
  <2>2. ToSet(R) = {R[i] : i \in 1..n}
    BY <1>2 DEF ToSet
  <2>3. PICK j \in 1..n : R[j] = r
    BY <2>1, <2>2
  <2>4. PICK p \in parents : r.key = LineageKey(p)
    BY <2>1
  <2>5. PICK k \in 1..n : R[k] = p
    BY <2>2, <2>4
  <2>6. CASE p.restates = None
    <3>1. R[j].key = R[k].key
      BY <2>3, <2>4, <2>5, <2>6 DEF LineageKey
    <3>2. j = k
      BY <1>3, <3>1, GapsAssumption
    <3> QED
      BY <2>1, <2>3, <2>5, <2>6, <3>2
  <2>7. CASE p.restates # None
    <3>1. PICK q \in 1..(k - 1) : R[q].key = R[k].restates /\ R[q].restates = None
      BY <2>5, <2>7 DEF RegisterSound
    <3>2. q \in 1..n /\ R[q].key = R[j].key
      BY <2>3, <2>4, <2>5, <2>7, <3>1 DEF LineageKey
    <3>3. q = j
      BY <1>3, <3>2, GapsAssumption
    <3> QED
      BY <2>1, <2>3, <3>1, <3>3
  <2> QED
    BY <2>6, <2>7
<1> HIDE DEF new
<1>7. /\ IsSequence(Append(R, new)) /\ Len(Append(R, new)) = n + 1
      /\ Append(R, new)[n + 1] = new
      /\ \A i \in 1..n : Append(R, new)[i] = R[i]
  BY <1>2, AppendIs
<1> DEFINE S == Append(R, new)
<1> HIDE DEF S
<1>8. IsSequence(S) /\ Len(S) = n + 1 /\ S[n + 1] = new /\ \A i \in 1..n : S[i] = R[i]
  BY <1>7 DEF S
<1>9. ASSUME NEW i \in 1..(n + 1)
      PROVE  /\ S[i] = [Register[i] EXCEPT !.restates = S[i].restates]
             /\ S[i].restates # None =>
                  \E j \in 1..(i - 1) : S[j].key = S[i].restates /\ S[j].restates = None
  <2>1. CASE i = n + 1
    BY <1>5, <1>6, <1>8, <2>1
  <2>2. CASE i # n + 1
    <3>1. i \in 1..n /\ S[i] = R[i] /\ \A j \in 1..(i - 1) : j \in 1..n /\ S[j] = R[j]
      BY <1>8, <2>2
    <3>2. /\ R[i] = [Register[i] EXCEPT !.restates = R[i].restates]
          /\ R[i].restates # None =>
               \E j \in 1..(i - 1) : R[j].key = R[i].restates /\ R[j].restates = None
      BY <3>1 DEF RegisterSound
    <3> QED
      BY <3>1, <3>2
  <2> QED
    BY <2>1, <2>2
<1>10. RegisterSound(S, n + 1)
  BY <1>8, <1>9 DEF RegisterSound
<1> QED
  BY <1>4, <1>10 DEF S

LEMMA RegisteredSound == RegisterSound(Registered, Len(Register))
<1> DEFINE T == {n \in Nat : n <= Len(Register) => RegisterSound(RegisterOf[n], n)}
<1>1. 0 \in T
  BY RegisterStep, EmptySequence DEF RegisterSound
<1>2. ASSUME NEW n \in Nat, n \in T
      PROVE  n + 1 \in T
  <2>1. SUFFICES ASSUME n + 1 <= Len(Register) PROVE RegisterSound(RegisterOf[n + 1], n + 1)
    OBVIOUS
  <2>2. RegisterSound(RegisterOf[n], n)
    BY <1>2, <2>1, RegisterStep
  <2>3. n + 1 \in 1..Len(Register) /\ (n + 1) - 1 = n
    BY <2>1, RegisterStep
  <2>4. RegisterOf[n + 1] = Merged(RegisterOf[n], Register[n + 1])
    BY <2>3, RegisterStep
  <2> QED
    BY <2>1, <2>2, <2>4, MergedSound
<1> HIDE DEF T
<1>3. \A n \in Nat : n \in T
  BY <1>1, <1>2, NaturalsByInduction
<1> QED
  BY <1>3, RegisterStep DEF T, Registered

-----------------------------------------------------------------------------
\* What the first n risks of the register are.
KnownRisks(R, n) ==
  /\ IsSequence(R) /\ Len(R) = n /\ DOMAIN R = 1..n
  /\ \A i \in 1..n :
       /\ R[i] = Registered[i] /\ IsRisk(R[i])
       /\ None \notin {R[i].key, R[i].category, <<R[i].category, R[i].names>>}
       /\ \A j \in 1..n : R[j].key = R[i].key => i = j
       /\ R[i].restates # None => \E j \in 1..n : R[j].key = R[i].restates /\ R[j].restates = None

LEMMA FirstRisksKnown ==
  ASSUME NEW n \in 0..Len(Register)
  PROVE  KnownRisks(SubSeq(Registered, 1, n), n)
<1> DEFINE R == SubSeq(Registered, 1, n)
<1>1. Len(Register) \in Nat /\ IsSequence(Registered) /\ Len(Registered) = Len(Register)
  BY RegisterStep, RegisteredSound DEF RegisterSound
<1>2. R = [i \in 1..n |-> Registered[i]] /\ Len(R) = n
  <2>1. Registered \in Seq({Registered[i] : i \in 1..Len(Registered)})
    BY <1>1, SequenceIs
  <2>2. R = [i \in 1..n |-> Registered[(1 + i) - 1]] /\ Len(R) = n
    BY <1>1, <2>1
  <2> QED
    BY <2>2
<1> HIDE DEF R
<1>3. IsSequence(R) /\ DOMAIN R = 1..n /\ \A i \in 1..n : R[i] = Registered[i]
  BY <1>1, <1>2 DEF IsSequence
<1>4. ASSUME NEW i \in 1..n
      PROVE  /\ IsRisk(R[i]) /\ R[i].key = Register[i].key
             /\ None \notin {R[i].key, R[i].category, <<R[i].category, R[i].names>>}
             /\ R[i].restates # None => \E j \in 1..n : R[j].key = R[i].restates /\ R[j].restates = None
  <2>1. i \in 1..Len(Register) /\ i \in DOMAIN Register
    BY <1>1, GapsAssumption
  <2>2. R[i] = [Register[i] EXCEPT !.restates = R[i].restates]
    BY <1>1, <1>3, <2>1, RegisteredSound DEF RegisterSound
  <2>3. /\ IsRisk(Register[i])
        /\ None \notin {Register[i].key, Register[i].category,
                        <<Register[i].category, Register[i].names>>}
    BY <2>1, GapsAssumption
  <2>4. /\ IsRisk(R[i]) /\ R[i].key = Register[i].key
        /\ R[i].category = Register[i].category /\ R[i].names = Register[i].names
    BY <2>2, <2>3 DEF IsRisk
  <2>5. R[i].restates # None => \E j \in 1..(i - 1) : Registered[j].key = R[i].restates /\ Registered[j].restates = None
    <3>1. R[i] = Registered[i] /\ i \in 1..Len(Registered)
      BY <1>1, <1>3, <2>1
    <3> QED
      BY <3>1, RegisteredSound DEF RegisterSound
  <2>6. \A j \in 1..(i - 1) : j \in 1..n /\ R[j] = Registered[j]
    BY <1>3
  <2> QED
    BY <2>3, <2>4, <2>5, <2>6
<1>5. \A i, j \in 1..n : R[j].key = R[i].key => i = j
  BY <1>1, <1>4, GapsAssumption
<1> QED
  BY <1>2, <1>3, <1>4, <1>5 DEF KnownRisks, R

-----------------------------------------------------------------------------
(* Obligations.                                                            *)

IsWindow(w) == w = [routed |-> w.routed, answered |-> w.answered, moved |-> w.moved]

IsObligation(o) ==
  /\ o = [keys |-> o.keys, category |-> o.category, names |-> o.names,
          windows |-> o.windows, executions |-> o.executions]
  /\ IsSequence(o.windows) /\ \A w \in 1..Len(o.windows) : IsWindow(o.windows[w])
  /\ IsSequence(o.executions)

\* What is on record in o is as it was in p.
Keeps(p, o) ==
  /\ o.category = p.category /\ o.names = p.names
  /\ o.keys \subseteq p.keys
  /\ \A x \in DOMAIN o.executions : /\ x \in DOMAIN p.executions
                                    /\ p.executions[x] = o.executions[x]
  /\ \A w \in DOMAIN o.windows :
       /\ w \in DOMAIN p.windows
       /\ o.windows[w].answered # None => p.windows[w] = o.windows[w]

LEMMA KeepsTransitive ==
  ASSUME NEW o, NEW p, NEW q, Keeps(p, o), Keeps(q, p)
  PROVE  Keeps(q, o)
BY DEF Keeps

LEMMA KeepsReflexive == \A o : Keeps(o, o)
BY DEF Keeps

\* What adoption adds to an obligation.
Restated(o, R) == {R[i] : i \in {j \in DOMAIN R : R[j].restates \in o.keys}}
Worded(o, R) ==
  {R[i] : i \in {j \in DOMAIN R : o.names # {} /\ Identity(R[j]) = <<o.category, o.names>>}}

LEMMA ExtendedKeeps ==
  ASSUME NEW o, IsObligation(o), NEW keys
  PROVE  LET p == Extended(o, keys)
         IN  IsObligation(p) /\ Keeps(p, o) /\ p.keys = o.keys \cup keys
<1> DEFINE p == Extended(o, keys)
<1>1. p = [o EXCEPT !.keys = o.keys \cup keys]
  BY DEF Extended
<1> HIDE DEF p
<1>2. p = [keys |-> o.keys \cup keys, category |-> o.category, names |-> o.names,
           windows |-> o.windows, executions |-> o.executions]
  BY <1>1 DEF IsObligation
<1>3. IsObligation(p)
  BY <1>2 DEF IsObligation
<1>4. Keeps(p, o)
  BY <1>2 DEF Keeps
<1> QED
  BY <1>2, <1>3, <1>4 DEF p

LEMMA AdoptKeeps ==
  ASSUME NEW o, IsObligation(o), NEW R
  PROVE  LET p == Adopt(o, R)
         IN  /\ IsObligation(p) /\ Keeps(p, o)
             /\ p.keys = o.keys \cup KeysOf(Restated(o, R)) \cup KeysOf(Worded(o, R))
             /\ p.category = o.category /\ p.names = o.names
<1> DEFINE risks == {R[i] : i \in DOMAIN R}
           restated == {r \in risks : r.restates \in o.keys}
           worded == {r \in risks : o.names # {} /\ Identity(r) = <<o.category, o.names>>}
<1>1. restated = Restated(o, R) /\ worded = Worded(o, R)
  BY DEF Restated, Worded
<1>2. Adopt(o, R) = Extended(o, KeysOf(restated) \cup KeysOf(worded))
  BY DEF Adopt
<1>3. Adopt(o, R) = Extended(o, KeysOf(Restated(o, R)) \cup KeysOf(Worded(o, R)))
  BY <1>1, <1>2
<1> QED
  BY <1>3, ExtendedKeeps DEF Keeps

LEMMA SameRange ==
  ASSUME NEW a \in Nat, NEW b \in Nat, 1..a = 1..b
  PROVE  a = b
<1>1. ASSUME a < b PROVE FALSE
  <2>1. b \in 1..b /\ b \notin 1..a
    BY <1>1
  <2> QED
    BY <2>1
<1>2. ASSUME b < a PROVE FALSE
  <2>1. a \in 1..a /\ a \notin 1..b
    BY <1>2
  <2> QED
    BY <2>1
<1> QED
  BY <1>1, <1>2

LEMMA AnsweredKeeps ==
  ASSUME NEW o, IsObligation(o), NEW t, NEW readable
  PROVE  LET p == Answered(o, t, readable)
         IN  IsObligation(p) /\ Keeps(p, o) /\ p.keys = o.keys
<1> DEFINE ws == [i \in DOMAIN o.windows |-> Answer(o.windows[i], t, readable)]
           p == Answered(o, t, readable)
<1>1. DOMAIN o.windows = 1..Len(o.windows) /\ Len(o.windows) \in Nat
  BY DEF IsObligation, IsSequence
<1>2. \A i \in 1..Len(o.windows) :
        /\ IsWindow(ws[i])
        /\ o.windows[i].answered # None => ws[i] = o.windows[i]
  BY <1>1 DEF Answer, IsWindow, IsObligation
<1>3. ws = [i \in 1..Len(o.windows) |-> ws[i]]
  BY <1>1
<1>4. IsSequence(ws) /\ Len(ws) = Len(o.windows)
  <2> HIDE DEF ws
  <2>1. ws \in [1..Len(o.windows) -> {ws[i] : i \in 1..Len(o.windows)}]
    BY <1>3
  <2>2. ws \in Seq({ws[i] : i \in 1..Len(o.windows)})
    BY <1>1, <2>1, SeqDef
  <2>3. IsSequence(ws)
    BY <2>2, MembersSequence
  <2>4. Len(ws) \in Nat /\ 1..Len(ws) = 1..Len(o.windows)
    BY <1>3, <2>3, SequenceIs DEF IsSequence
  <2> QED
    BY <1>1, <2>3, <2>4, SameRange
<1>5. p = [keys |-> o.keys, category |-> o.category, names |-> o.names,
           windows |-> ws, executions |-> o.executions]
  BY DEF Answered, IsObligation
<1> HIDE DEF p, ws
<1>6. DOMAIN ws = 1..Len(o.windows)
  BY <1>3
<1>7. IsObligation(p)
  BY <1>2, <1>4, <1>5 DEF IsObligation
<1>8. Keeps(p, o)
  BY <1>1, <1>2, <1>5, <1>6 DEF Keeps
<1> QED
  BY <1>5, <1>7, <1>8 DEF p

LEMMA ExecutionsKeep ==
  ASSUME NEW o, IsObligation(o), NEW t, NEW runner, NEW p \in Executions(o, t, runner)
  PROVE  IsObligation(p) /\ Keeps(p, o) /\ p.keys = o.keys
<1>1. CASE p = o
  BY <1>1, KeepsReflexive
<1>2. CASE p # o
  <2>1. PICK x : p = [o EXCEPT !.executions = Append(@, x)]
    BY <1>2 DEF Executions
  <2>2. p = [keys |-> o.keys, category |-> o.category, names |-> o.names,
             windows |-> o.windows, executions |-> Append(o.executions, x)]
    BY <2>1 DEF IsObligation
  <2>3. /\ IsSequence(o.executions) /\ IsSequence(p.executions)
        /\ Len(p.executions) = Len(o.executions) + 1
        /\ \A i \in 1..Len(o.executions) : p.executions[i] = o.executions[i]
    BY <2>2, AppendIs DEF IsObligation
  <2>4. DOMAIN p.executions = 1..Len(p.executions) /\ DOMAIN o.executions = 1..Len(o.executions)
        /\ Len(o.executions) \in Nat
    BY <2>3, SequenceIs DEF IsSequence
  <2>5. IsObligation(p)
    BY <2>2, <2>3 DEF IsObligation
  <2>6. Keeps(p, o)
    <3>1. \A i \in DOMAIN o.executions : i \in DOMAIN p.executions /\ p.executions[i] = o.executions[i]
      BY <2>3, <2>4
    <3> QED
      BY <2>2, <3>1 DEF Keeps
  <2> QED
    BY <2>2, <2>5, <2>6
<1> QED
  BY <1>1, <1>2

\* Another window, or the one that is open on this tree.
LEMMA ReopenedKeeps ==
  ASSUME NEW o, IsObligation(o), NEW t
  PROVE  LET p == Reopened(o, t)
         IN  IsObligation(p) /\ Keeps(p, o) /\ p.keys = o.keys
<1> DEFINE p == Reopened(o, t)
<1>1. CASE p = o
  BY <1>1, KeepsReflexive
<1>2. CASE p # o
  <2>1. p = [keys |-> o.keys, category |-> o.category, names |-> o.names,
             windows |-> Append(o.windows, Window(t)), executions |-> o.executions]
    BY <1>2 DEF Reopened, IsObligation
  <2> HIDE DEF p
  <2>2. /\ IsSequence(o.windows) /\ IsSequence(p.windows)
        /\ Len(p.windows) = Len(o.windows) + 1
        /\ p.windows[Len(o.windows) + 1] = Window(t)
        /\ \A i \in 1..Len(o.windows) : p.windows[i] = o.windows[i]
    BY <2>1, AppendIs DEF IsObligation
  <2>3. DOMAIN p.windows = 1..Len(p.windows) /\ DOMAIN o.windows = 1..Len(o.windows)
        /\ Len(o.windows) \in Nat
    BY <2>2, SequenceIs DEF IsSequence
  <2>4. IsWindow(Window(t))
    BY DEF IsWindow, Window
  <2>5. IsObligation(p)
    <3>1. \A i \in 1..Len(p.windows) : IsWindow(p.windows[i])
      BY <2>2, <2>3, <2>4 DEF IsObligation
    <3> QED
      BY <2>1, <2>2, <3>1 DEF IsObligation
  <2>6. Keeps(p, o)
    <3>1. \A i \in DOMAIN o.windows : i \in DOMAIN p.windows /\ p.windows[i] = o.windows[i]
      BY <2>2, <2>3
    <3> QED
      BY <2>1, <3>1 DEF Keeps
  <2> QED
    BY <2>1, <2>5, <2>6 DEF p
<1> QED
  BY <1>1, <1>2

-----------------------------------------------------------------------------
(* The ledger of obligations.                                              *)

LEMMA FindIs ==
  ASSUME NEW obls, IsSequence(obls), NEW key
  PROVE  LET i == FindObligation(obls, key)
         IN  /\ i \in 0..Len(obls)
             /\ i # 0 => /\ key \in obls[i].keys
                         /\ \A j \in 1..(i - 1) : key \notin obls[j].keys
             /\ i = 0 => \A j \in 1..Len(obls) : key \notin obls[j].keys
<1> DEFINE found == {i \in DOMAIN obls : key \in obls[i].keys}
<1>1. DOMAIN obls = 1..Len(obls) /\ Len(obls) \in Nat
  BY SequenceIs DEF IsSequence
<1>2. CASE found = {}
  BY <1>1, <1>2 DEF FindObligation
<1>3. CASE found # {}
  <2>1. found \subseteq Nat
    BY <1>1
  <2>2. \E i \in found : \A j \in found : i <= j
    <3> HIDE DEF found
    <3> QED
      BY <1>3, <2>1, HasLeast
  <2>3. PICK i \in found : i = FindObligation(obls, key) /\ \A j \in found : i <= j
    BY <1>3, <2>2 DEF FindObligation
  <2>4. i \in 1..Len(obls) /\ key \in obls[i].keys
    BY <1>1, <2>3
  <2>5. ASSUME NEW j \in 1..(i - 1) PROVE key \notin obls[j].keys
    <3>1. j \in 1..Len(obls) /\ ~(i <= j)
      BY <1>1, <2>4
    <3> QED
      BY <1>1, <2>3, <3>1
  <2> QED
    BY <2>3, <2>4, <2>5
<1> QED
  BY <1>2, <1>3

Ledger(obls) == IsSequence(obls) /\ \A i \in 1..Len(obls) : IsObligation(obls[i])

\* One replaced in a sequence.
LEMMA ReplaceIs ==
  ASSUME NEW s, IsSequence(s), NEW i \in 1..Len(s), NEW x
  PROVE  LET t == [s EXCEPT ![i] = x]
         IN  /\ IsSequence(t) /\ Len(t) = Len(s) /\ t[i] = x
             /\ \A j \in 1..Len(s) : j # i => t[j] = s[j]
<1> DEFINE S == {s[j] : j \in 1..Len(s)} \cup {x}
<1>1. (\A j \in 1..Len(s) : s[j] \in S) /\ x \in S
  OBVIOUS
<1> HIDE DEF S
<1>2. s \in Seq(S)
  <2>1. s \in [1..Len(s) -> S]
    BY <1>1 DEF IsSequence
  <2> QED
    BY <2>1, SeqDef DEF IsSequence
<1>3. /\ [s EXCEPT ![i] = x] \in Seq(S) /\ Len([s EXCEPT ![i] = x]) = Len(s)
      /\ \A j \in 1..Len(s) : [s EXCEPT ![i] = x][j] = IF j = i THEN x ELSE s[j]
  BY <1>1, <1>2, ExceptSeq
<1>4. IsSequence([s EXCEPT ![i] = x])
  BY <1>3, MembersSequence
<1> QED
  BY <1>3, <1>4

\* Routing extends the first obligation that shares a wording, or opens one; it
\* is the first that speaks for the risk.
LEMMA RouteIs ==
  ASSUME NEW obls, Ledger(obls), NEW risk, NEW R, NEW t
  PROVE  LET routed == Route(obls, risk, R, t)
             keys == KeysOf(Group(risk, R))
             id == FindObligation(routed, risk.key)
         IN  /\ Ledger(routed)
             /\ \/ /\ Len(routed) = Len(obls) /\ id \in 1..Len(obls)
                   /\ routed[id].keys = obls[id].keys \cup keys
                \/ /\ Len(routed) = Len(obls) + 1 /\ id = Len(obls) + 1
                   /\ routed[id].keys = keys
                   /\ routed[id].category = risk.category /\ routed[id].names = risk.names
             /\ \A i \in 1..Len(obls) : /\ Keeps(routed[i], obls[i])
                                        /\ i # id => routed[i] = obls[i]
<1> DEFINE routed == Route(obls, risk, R, t)
           keys == KeysOf(Group(risk, R))
           sharing == {i \in DOMAIN obls : obls[i].keys \cap keys # {}}
           id == FindObligation(routed, risk.key)
<1>1. /\ IsSequence(obls) /\ DOMAIN obls = 1..Len(obls) /\ Len(obls) \in Nat
      /\ \A i \in 1..Len(obls) : IsObligation(obls[i])
  BY SequenceIs DEF Ledger, IsSequence
<1>2. risk.key \in keys
  BY DEF KeysOf, Group
<1> HIDE DEF keys
<1>3. CASE sharing = {}
  <2> DEFINE o == Opened(risk, keys)
             p == Reopened(o, t)
  <2>1. routed = Append(obls, p)
    BY <1>3 DEF Route, keys
  <2>2. /\ IsObligation(o) /\ o.keys = keys
        /\ o.category = risk.category /\ o.names = risk.names
    BY EmptySequence DEF Opened, IsObligation
  <2> HIDE DEF o
  <2>3. /\ IsObligation(p) /\ p.keys = keys
        /\ p.category = risk.category /\ p.names = risk.names
    BY <2>2, ReopenedKeeps DEF Keeps
  <2> HIDE DEF p, routed
  <2>4. /\ IsSequence(routed) /\ Len(routed) = Len(obls) + 1
        /\ routed[Len(obls) + 1] = p
        /\ \A i \in 1..Len(obls) : routed[i] = obls[i]
    BY <1>1, <2>1, AppendIs
  <2>5. id = Len(obls) + 1
    <3>1. \A i \in 1..Len(obls) : risk.key \notin routed[i].keys
      BY <1>1, <1>2, <1>3, <2>4
    <3>2. /\ id \in 0..Len(routed)
          /\ id # 0 => risk.key \in routed[id].keys
          /\ id = 0 => \A j \in 1..Len(routed) : risk.key \notin routed[j].keys
      BY <2>4, FindIs
    <3>3. Len(obls) + 1 \in 1..Len(routed) /\ risk.key \in routed[Len(obls) + 1].keys
      BY <1>1, <1>2, <2>3, <2>4
    <3> HIDE DEF id
    <3>4. id # 0 /\ id \notin 1..Len(obls)
      BY <3>1, <3>2, <3>3
    <3> QED
      BY <1>1, <2>4, <3>2, <3>4
  <2>6. Ledger(routed)
    <3>1. \A i \in 1..Len(routed) : i = Len(obls) + 1 \/ i \in 1..Len(obls)
      BY <1>1, <2>4
    <3> QED
      BY <1>1, <2>3, <2>4, <3>1 DEF Ledger
  <2>7. \A i \in 1..Len(obls) : Keeps(routed[i], obls[i])
    BY <2>4, KeepsReflexive
  <2> QED
    BY <2>3, <2>4, <2>5, <2>6, <2>7 DEF routed, keys
<1>4. CASE sharing # {}
  <2>1. sharing \subseteq Nat
    BY <1>1
  <2>2. \E i \in sharing : \A j \in sharing : i <= j
    <3> HIDE DEF sharing
    <3> QED
      BY <1>4, <2>1, HasLeast
  <2>3. PICK first \in sharing :
          /\ routed = [obls EXCEPT ![first] = Reopened(Extended(@, keys), t)]
          /\ \A j \in sharing : first <= j
    BY <1>4, <2>2 DEF Route, keys
  <2> DEFINE o == Extended(obls[first], keys)
             p == Reopened(o, t)
  <2>4. first \in 1..Len(obls) /\ IsObligation(obls[first])
    BY <1>1
  <2>5. routed = [obls EXCEPT ![first] = p]
    BY <2>3
  <2>6. IsObligation(o) /\ Keeps(o, obls[first]) /\ o.keys = obls[first].keys \cup keys
    BY <2>4, ExtendedKeeps
  <2> HIDE DEF o
  <2>7. IsObligation(p) /\ Keeps(p, obls[first]) /\ p.keys = obls[first].keys \cup keys
    BY <2>6, ReopenedKeeps, KeepsTransitive
  <2> HIDE DEF p, routed
  <2>8. /\ IsSequence(routed) /\ Len(routed) = Len(obls) /\ routed[first] = p
        /\ \A j \in 1..Len(obls) : j # first => routed[j] = obls[j]
    BY <1>1, <2>4, <2>5, ReplaceIs
  <2>9. id = first
    <3>1. \A i \in 1..(first - 1) : risk.key \notin routed[i].keys
      <4> TAKE i \in 1..(first - 1)
      <4>1. i \in 1..Len(obls) /\ i # first /\ ~(first <= i)
        BY <1>1, <2>4
      <4>2. i \notin sharing
        <5> HIDE DEF sharing
        <5> QED
          BY <2>3, <4>1
      <4> QED
        BY <1>1, <1>2, <2>8, <4>1, <4>2
    <3>2. /\ id \in 0..Len(routed)
          /\ id # 0 => /\ risk.key \in routed[id].keys
                       /\ \A j \in 1..(id - 1) : risk.key \notin routed[j].keys
          /\ id = 0 => \A j \in 1..Len(routed) : risk.key \notin routed[j].keys
      BY <2>8, FindIs
    <3>3. risk.key \in routed[first].keys /\ first \in 1..Len(routed)
      BY <1>2, <2>4, <2>7, <2>8
    <3> HIDE DEF id
    <3>4. id # 0 /\ id \notin 1..(first - 1) /\ first \notin 1..(id - 1)
      BY <3>1, <3>2, <3>3
    <3> QED
      BY <1>1, <2>4, <2>8, <3>2, <3>4
  <2>10. Ledger(routed)
    BY <1>1, <2>7, <2>8 DEF Ledger
  <2>11. \A i \in 1..Len(obls) : Keeps(routed[i], obls[i])
    BY <2>7, <2>8, KeepsReflexive
  <2> QED
    BY <2>4, <2>7, <2>8, <2>9, <2>10, <2>11 DEF routed, keys
<1> QED
  BY <1>3, <1>4

-----------------------------------------------------------------------------
(* What an obligation's wordings have to do with what was named.           *)

\* SpeaksFor, over the risks R.
SpeaksIn(r, n, R) ==
  \/ SameObligation(r, n)
  \/ \E i \in DOMAIN R : LineageKey(R[i]) = LineageKey(r) /\ SameObligation(R[i], n)

\* The wording with the key k speaks for one of the names.
Spoken(k, R, names) ==
  \E i, j \in DOMAIN R : /\ R[i].key = k /\ R[j].key \in names
                         /\ SpeaksIn(R[i], R[j], R)

\* The obligation took its subjects from one of the names.
OpenedBy(o, R, names) ==
  \E j \in DOMAIN R : /\ R[j].key \in names
                      /\ o.category = R[j].category /\ o.names = R[j].names

Sound(o, R, names) == OpenedBy(o, R, names) /\ \A k \in o.keys : Spoken(k, R, names)

\* More risks, and more names.
LEMMA SoundGrows ==
  ASSUME NEW R, NEW n \in Nat, KnownRisks(R, n), NEW Q, NEW m \in Nat, KnownRisks(Q, m), n <= m,
         NEW o, NEW names, NEW more, names \subseteq more, Sound(o, R, names)
  PROVE  Sound(o, Q, more)
<1>1. \A i \in DOMAIN R : i \in DOMAIN Q /\ Q[i] = R[i]
  BY DEF KnownRisks
<1>2. ASSUME NEW k \in o.keys PROVE Spoken(k, Q, more)
  <2>1. PICK i, j \in DOMAIN R : R[i].key = k /\ R[j].key \in names /\ SpeaksIn(R[i], R[j], R)
    BY DEF Sound, Spoken
  <2>2. SpeaksIn(Q[i], Q[j], Q)
    BY <1>1, <2>1 DEF SpeaksIn
  <2> QED
    BY <1>1, <2>1, <2>2 DEF Spoken
<1>3. OpenedBy(o, Q, more)
  BY <1>1 DEF Sound, OpenedBy
<1> QED
  BY <1>2, <1>3 DEF Sound

\* What is adopted speaks for what was named.
LEMMA AdoptSound ==
  ASSUME NEW R, NEW n \in Nat, KnownRisks(R, n), NEW o, IsObligation(o), NEW names, Sound(o, R, names)
  PROVE  Sound(Adopt(o, R), R, names)
<1> DEFINE p == Adopt(o, R)
<1>1. /\ p.keys = o.keys \cup KeysOf(Restated(o, R)) \cup KeysOf(Worded(o, R))
      /\ p.category = o.category /\ p.names = o.names
  BY AdoptKeeps
<1> HIDE DEF p
<1>2. ASSUME NEW r \in Restated(o, R) PROVE Spoken(r.key, R, names)
  <2>1. PICK i \in DOMAIN R : R[i] = r /\ r.restates \in o.keys
    BY DEF Restated
  <2>2. PICK a, j \in DOMAIN R :
          R[a].key = r.restates /\ R[j].key \in names /\ SpeaksIn(R[a], R[j], R)
    BY <2>1 DEF Sound, Spoken
  <2>3. r.restates # None
    BY <2>2 DEF KnownRisks
  <2>4. PICK b \in DOMAIN R : R[b].key = r.restates /\ R[b].restates = None
    BY <2>1, <2>3 DEF KnownRisks
  <2>5. a = b
    BY <2>2, <2>4 DEF KnownRisks
  <2>6. LineageKey(R[a]) = LineageKey(r)
    BY <2>2, <2>3, <2>4, <2>5 DEF LineageKey
  <2>7. SpeaksIn(r, R[j], R)
    BY <2>2, <2>6 DEF SpeaksIn
  <2> QED
    BY <2>1, <2>2, <2>7 DEF Spoken
<1>3. ASSUME NEW r \in Worded(o, R) PROVE Spoken(r.key, R, names)
  <2>1. PICK i \in DOMAIN R : /\ R[i] = r /\ o.names # {}
                              /\ Identity(r) = <<o.category, o.names>>
    BY DEF Worded
  <2>2. PICK j \in DOMAIN R : /\ R[j].key \in names
                              /\ o.category = R[j].category /\ o.names = R[j].names
    BY DEF Sound, OpenedBy
  <2>3. Identity(R[j]) = <<o.category, o.names>>
    BY <2>1, <2>2 DEF Identity
  <2>4. Identity(r) # None
    BY <2>1, <2>2 DEF KnownRisks
  <2>5. SpeaksIn(r, R[j], R)
    BY <2>1, <2>3, <2>4 DEF SpeaksIn, SameObligation
  <2> QED
    BY <2>1, <2>2, <2>5 DEF Spoken
<1>4. \A k \in p.keys : Spoken(k, R, names)
  <2> TAKE k \in p.keys
  <2>1. \/ k \in o.keys
        \/ \E r \in Restated(o, R) : r.key = k
        \/ \E r \in Worded(o, R) : r.key = k
    BY <1>1 DEF KeysOf
  <2> QED
    BY <1>2, <1>3, <2>1 DEF Sound
<1>5. OpenedBy(p, R, names)
  BY <1>1 DEF Sound, OpenedBy
<1> QED
  BY <1>4, <1>5 DEF Sound, p

\* The wordings a risk is routed with are named.
LEMMA GroupSpoken ==
  ASSUME NEW R, NEW a \in DOMAIN R, NEW more, KeysOf(Group(R[a], R)) \subseteq more
  PROVE  \A k \in KeysOf(Group(R[a], R)) : Spoken(k, R, more)
<1> TAKE k \in KeysOf(Group(R[a], R))
<1>1. PICK i \in DOMAIN R : R[i].key = k
  BY DEF KeysOf, Group
<1>2. SpeaksIn(R[i], R[i], R)
  BY DEF SpeaksIn, SameObligation
<1> QED
  BY <1>1, <1>2 DEF Spoken

-----------------------------------------------------------------------------
(* The loop.                                                               *)

GapInv ==
  /\ known \in 0..Len(Register)
  /\ Ledger(obligations)
  /\ DOMAIN named = DOMAIN obligations
  /\ \A i \in 1..Len(obligations) : Sound(obligations[i], Risks, named[i])

\* Every obligation keeps what it has on record.
AllKeep(os, ps) ==
  Len(os) <= Len(ps) /\ \A i \in 1..Len(os) : Keeps(ps[i], os[i])

LEMMA RisksKnown ==
  known \in 0..Len(Register) => known \in Nat /\ KnownRisks(Risks, known)
BY RegisterStep, FirstRisksKnown DEF Risks

\* A quiet step may make more risks known.
LEMMA QuietGaps ==
  ASSUME GapInv, obligations' = obligations, named' = named,
         known' \in known..Len(Register)
  PROVE  GapInv' /\ AllKeep(obligations, obligations')
<1>1. /\ Len(Register) \in Nat /\ known \in Nat /\ known' \in 0..Len(Register)
      /\ known <= known'
  BY RegisterStep DEF GapInv
<1>2. KnownRisks(Risks, known) /\ KnownRisks(Risks', known') /\ known' \in Nat
  <2>1. KnownRisks(SubSeq(Registered, 1, known'), known')
    BY <1>1, FirstRisksKnown
  <2> QED
    BY <1>1, <2>1, RisksKnown DEF GapInv, Risks
<1>3. \A i \in 1..Len(obligations) : Sound(obligations[i], Risks', named[i])
  BY <1>1, <1>2, SoundGrows DEF GapInv
<1>4. AllKeep(obligations, obligations)
  BY KeepsReflexive DEF AllKeep, GapInv, Ledger, IsSequence
<1> QED
  BY <1>1, <1>3, <1>4 DEF GapInv

LEMMA OperateGaps ==
  ASSUME GapInv, Operate
  PROVE  GapInv' /\ AllKeep(obligations, obligations')
<1>1. PICK readable, runner \in BOOLEAN :
        /\ obligations' \in [DOMAIN obligations ->
             UNION {Executions(Answered(Adopt(obligations[i], Risks), tree, readable), tree, runner) :
                      i \in DOMAIN obligations}]
        /\ \A i \in DOMAIN obligations' :
             obligations'[i] \in
               Executions(Answered(Adopt(obligations[i], Risks), tree, readable), tree, runner)
  BY DEF Operate
<1>2. /\ IsSequence(obligations) /\ DOMAIN obligations = 1..Len(obligations)
      /\ Len(obligations) \in Nat /\ DOMAIN obligations' = 1..Len(obligations)
      /\ known' = known /\ named' = named /\ KnownRisks(Risks, known) /\ known \in Nat
  BY <1>1, SequenceIs, RisksKnown DEF GapInv, Ledger, IsSequence, Operate
<1>3. ASSUME NEW i \in 1..Len(obligations)
      PROVE  /\ IsObligation(obligations'[i]) /\ Keeps(obligations'[i], obligations[i])
             /\ Sound(obligations'[i], Risks, named[i])
  <2> DEFINE a == Adopt(obligations[i], Risks)
             b == Answered(a, tree, readable)
             c == obligations'[i]
  <2>1. IsObligation(obligations[i]) /\ Sound(obligations[i], Risks, named[i])
    BY DEF GapInv, Ledger
  <2>2. IsObligation(a) /\ Keeps(a, obligations[i]) /\ Sound(a, Risks, named[i])
    BY <1>2, <2>1, AdoptKeeps, AdoptSound
  <2>3. c \in Executions(b, tree, runner)
    BY <1>1, <1>2
  <2> HIDE DEF a, c
  <2>4. IsObligation(b) /\ Keeps(b, a) /\ b.keys = a.keys
    BY <2>2, AnsweredKeeps
  <2> HIDE DEF b
  <2>5. IsObligation(c) /\ Keeps(c, b) /\ c.keys = b.keys
    BY <2>3, <2>4, ExecutionsKeep
  <2>6. Keeps(c, obligations[i])
    BY <2>2, <2>4, <2>5, KeepsTransitive
  <2>7. Sound(c, Risks, named[i])
    BY <2>2, <2>4, <2>5 DEF Sound, OpenedBy, Keeps
  <2> QED
    BY <2>5, <2>6, <2>7 DEF c
<1>4. IsSequence(obligations') /\ Len(obligations') = Len(obligations)
  <2>1. PICK S : obligations' \in [1..Len(obligations) -> S]
    BY <1>1, <1>2
  <2>2. obligations' \in Seq(S)
    BY <1>2, <2>1, SeqDef
  <2>3. IsSequence(obligations')
    BY <2>2, MembersSequence
  <2>4. Len(obligations') \in Nat /\ 1..Len(obligations') = 1..Len(obligations)
    BY <1>2, <2>3, SequenceIs DEF IsSequence
  <2> QED
    BY <1>2, <2>3, <2>4, SameRange
<1>5. Ledger(obligations') /\ AllKeep(obligations, obligations')
  BY <1>2, <1>3, <1>4 DEF Ledger, AllKeep
<1>6. Risks' = Risks
  BY <1>2 DEF Risks
<1> QED
  BY <1>2, <1>3, <1>4, <1>5, <1>6 DEF GapInv

-----------------------------------------------------------------------------
(* The coverage of a register.                                             *)

\* What the next risk makes of the entries before it.
Weigh(entries, risk, o, obls, t) ==
  IF ~risk.blocks THEN entries ELSE JoinOrJudge(entries, risk, o, obls, t)

\* f tells the entries after each of the first n risks.
TellsCoverage(f, n, R, o, obls, t) ==
  f = [k \in 0..n |-> IF k = 0 THEN <<>> ELSE Weigh(f[k - 1], R[k], o, obls, t)]

LEMMA CoveragesExist ==
  ASSUME NEW R, NEW o, NEW obls, NEW t
  PROVE  \A n \in Nat : \E f : TellsCoverage(f, n, R, o, obls, t)
<1> USE DEF TellsCoverage
<1> DEFINE Told(j) == \E f : TellsCoverage(f, j, R, o, obls, t)
           T == {j \in Nat : Told(j)}
<1>1. 0 \in T
  <2>1. Told(0)
    <3> WITNESS [k \in 0..0 |-> <<>>]
    <3> QED
      OBVIOUS
  <2> HIDE DEF Told
  <2> QED
    BY <2>1
<1>2. ASSUME NEW j \in Nat, j \in T
      PROVE  j + 1 \in T
  <2>1. PICK f : TellsCoverage(f, j, R, o, obls, t)
    BY <1>2
  <2> DEFINE new == Weigh(f[j], R[j + 1], o, obls, t)
             g == [k \in 0..(j + 1) |-> IF k = j + 1 THEN new ELSE f[k]]
  <2>2. \A k \in 0..j : f[k] = IF k = 0 THEN <<>> ELSE Weigh(f[k - 1], R[k], o, obls, t)
    BY <2>1
  <2> HIDE DEF new
  <2>3. g[j + 1] = new /\ \A k \in 0..j : g[k] = f[k]
    BY j + 1 \notin 0..j
  <2>4. g = [k \in 0..(j + 1) |-> g[k]]
    OBVIOUS
  <2> HIDE DEF g
  <2>5. g[0] = <<>>
    BY <2>2, <2>3, 0 \in 0..j
  <2>6. ASSUME NEW k \in 1..(j + 1)
        PROVE  g[k] = Weigh(g[k - 1], R[k], o, obls, t)
    <3>1. CASE k = j + 1
      <4>1. k - 1 = j /\ j \in 0..j
        BY <3>1
      <4> QED
        BY <2>3, <3>1, <4>1 DEF new
    <3>2. CASE k # j + 1
      <4>1. k \in 0..j /\ k - 1 \in 0..j /\ k # 0
        BY <3>2
      <4>2. g[k] = f[k] /\ g[k - 1] = f[k - 1]
        BY <2>3, <4>1
      <4> QED
        BY <2>2, <4>1, <4>2
    <3> QED
      BY <3>1, <3>2
  <2>7. \A k \in 0..(j + 1) : g[k] = IF k = 0 THEN <<>> ELSE Weigh(g[k - 1], R[k], o, obls, t)
    <3>1. \A k \in 0..(j + 1) : k = 0 \/ k \in 1..(j + 1)
      OBVIOUS
    <3>2. \A k \in 1..(j + 1) : k # 0
      OBVIOUS
    <3> QED
      BY <2>5, <2>6, <3>1, <3>2
  <2>8. Told(j + 1)
    BY <2>4, <2>7
  <2> HIDE DEF Told
  <2> QED
    BY <2>8
<1> HIDE DEF T
<1>3. \A j \in Nat : j \in T
  BY <1>1, <1>2, NaturalsByInduction
<1> QED
  BY <1>3 DEF T

LEMMA CoverageStep ==
  ASSUME NEW R, NEW o, NEW obls, NEW t, Len(R) \in Nat
  PROVE  LET f == CoverageOf(R, o, obls, t)
         IN  f[0] = <<>> /\ \A k \in 1..Len(R) : f[k] = Weigh(f[k - 1], R[k], o, obls, t)
<1>1. \E f : TellsCoverage(f, Len(R), R, o, obls, t)
  BY CoveragesExist
<1>2. \E f : f = [n \in 0..Len(R) |->
                    IF n = 0 THEN <<>>
                    ELSE IF ~R[n].blocks THEN f[n - 1]
                    ELSE JoinOrJudge(f[n - 1], R[n], o, obls, t)]
  BY <1>1, Zenon DEF TellsCoverage, Weigh
<1> DEFINE f == CoverageOf(R, o, obls, t)
<1>3. f = [n \in 0..Len(R) |->
             IF n = 0 THEN <<>>
             ELSE IF ~R[n].blocks THEN f[n - 1]
             ELSE JoinOrJudge(f[n - 1], R[n], o, obls, t)]
  BY <1>2, Zenon DEF CoverageOf
<1> HIDE DEF f
<1>4. f[0] = <<>> /\ \A k \in 1..Len(R) : f[k] = Weigh(f[k - 1], R[k], o, obls, t)
  BY <1>3 DEF Weigh
<1> QED
  BY <1>4 DEF f

\* An entry of the coverage of R: the judgement of its leading wording, and
\* every other wording is spoken for by the same obligation or is grounded alike.
EntryOf(e, R, o, obls, t) ==
  /\ e = [keys |-> e.keys, covered |-> e.covered, basis |-> e.basis, clash |-> e.clash,
          obligation |-> e.obligation, ground |-> e.ground, lead |-> e.lead]
  /\ \E j \in DOMAIN R : e.lead = R[j]
  /\ e.obligation = FindObligation(obls, e.lead.key)
  /\ LET judged == Judged(e.lead, o, obls, e.obligation, t)
     IN e.covered = judged.covered /\ e.basis = judged.basis /\ e.ground = judged.ground
  /\ \A k \in e.keys : \E j \in DOMAIN R :
       /\ R[j].key = k
       /\ \/ FindObligation(obls, k) = e.obligation
          \/ e.ground # None /\ GroundKey(R[j], o.modules) = e.ground

Entries(s, R, o, obls, t) ==
  IsSequence(s) /\ \A i \in 1..Len(s) : EntryOf(s[i], R, o, obls, t)

LEMMA JudgedEntry ==
  ASSUME NEW R, NEW j \in DOMAIN R, NEW o, NEW obls, NEW t
  PROVE  EntryOf(Judged(R[j], o, obls, FindObligation(obls, R[j].key), t), R, o, obls, t)
<1> DEFINE e == Judged(R[j], o, obls, FindObligation(obls, R[j].key), t)
<1>1. /\ e = [keys |-> {R[j].key}, covered |-> e.covered, basis |-> e.basis, clash |-> e.clash,
              obligation |-> FindObligation(obls, R[j].key),
              ground |-> GroundKey(R[j], o.modules), lead |-> R[j]]
  BY DEF Judged
<1>2. e.lead = R[j] /\ e.obligation = FindObligation(obls, R[j].key) /\ e.keys = {R[j].key}
  BY <1>1
<1>3. e = Judged(e.lead, o, obls, e.obligation, t)
  BY <1>2
<1> HIDE DEF e
<1> QED
  BY <1>1, <1>2, <1>3 DEF EntryOf, e

LEMMA JoinedEntry ==
  ASSUME NEW R, NEW j \in DOMAIN R, NEW o, NEW obls, NEW t, NEW e, EntryOf(e, R, o, obls, t),
         \/ FindObligation(obls, R[j].key) = e.obligation
         \/ e.ground # None /\ GroundKey(R[j], o.modules) = e.ground
  PROVE  EntryOf(Joined(e, R[j]), R, o, obls, t)
<1> DEFINE p == Joined(e, R[j])
<1>1. p = [e EXCEPT !.keys = e.keys \cup {R[j].key}]
  BY DEF Joined
<1> HIDE DEF p
<1>2. p = [keys |-> e.keys \cup {R[j].key}, covered |-> e.covered, basis |-> e.basis,
           clash |-> e.clash, obligation |-> e.obligation, ground |-> e.ground, lead |-> e.lead]
  BY <1>1 DEF EntryOf
<1>3. /\ p.keys = e.keys \cup {R[j].key} /\ p.covered = e.covered /\ p.basis = e.basis
      /\ p.clash = e.clash /\ p.obligation = e.obligation /\ p.ground = e.ground /\ p.lead = e.lead
  BY <1>2
<1>4. \A k \in p.keys : \E i \in DOMAIN R :
        /\ R[i].key = k
        /\ \/ FindObligation(obls, k) = p.obligation
           \/ p.ground # None /\ GroundKey(R[i], o.modules) = p.ground
  BY <1>3 DEF EntryOf
<1> QED
  BY <1>2, <1>3, <1>4 DEF EntryOf, p

LEMMA WeighEntries ==
  ASSUME NEW R, NEW j \in DOMAIN R, NEW o, NEW obls, NEW t, NEW s, Entries(s, R, o, obls, t)
  PROVE  Entries(Weigh(s, R[j], o, obls, t), R, o, obls, t)
<1> DEFINE ob == FindObligation(obls, R[j].key)
           g == GroundKey(R[j], o.modules)
           byObligation == {i \in DOMAIN s : ob # 0 /\ s[i].obligation = ob}
           byGround == {i \in DOMAIN s : g # None /\ s[i].ground = g}
           into == IF byObligation # {} THEN byObligation ELSE byGround
<1>1. IsSequence(s) /\ DOMAIN s = 1..Len(s) /\ Len(s) \in Nat
  BY SequenceIs DEF Entries, IsSequence
<1>2. CASE ~R[j].blocks
  BY <1>2 DEF Weigh
<1>3. CASE R[j].blocks /\ into = {}
  <2> DEFINE e == Judged(R[j], o, obls, ob, t)
             p == Append(s, e)
  <2>1. Weigh(s, R[j], o, obls, t) = p
    BY <1>3 DEF Weigh, JoinOrJudge
  <2>2. EntryOf(e, R, o, obls, t)
    BY JudgedEntry
  <2> HIDE DEF e
  <2>3. /\ IsSequence(p) /\ Len(p) = Len(s) + 1 /\ p[Len(s) + 1] = e
        /\ \A i \in 1..Len(s) : p[i] = s[i]
    BY <1>1, AppendIs
  <2> HIDE DEF p
  <2>4. \A i \in 1..Len(p) : i = Len(s) + 1 \/ i \in 1..Len(s)
    BY <1>1, <2>3
  <2>5. Entries(p, R, o, obls, t)
    BY <2>2, <2>3, <2>4 DEF Entries
  <2> QED
    BY <2>1, <2>5
<1>4. CASE R[j].blocks /\ into # {}
  <2>1. PICK i \in into :
          Weigh(s, R[j], o, obls, t) = [s EXCEPT ![i] = Joined(s[i], R[j])]
    BY <1>4 DEF Weigh, JoinOrJudge
  <2>2. /\ i \in 1..Len(s)
        /\ \/ ob = s[i].obligation
           \/ s[i].ground # None /\ g = s[i].ground
    BY <1>1, <2>1
  <2>3. EntryOf(s[i], R, o, obls, t)
    BY <2>2 DEF Entries
  <2>4. EntryOf(Joined(s[i], R[j]), R, o, obls, t)
    BY <2>2, <2>3, JoinedEntry
  <2> DEFINE p == [s EXCEPT ![i] = Joined(s[i], R[j])]
  <2>5. /\ IsSequence(p) /\ Len(p) = Len(s) /\ p[i] = Joined(s[i], R[j])
        /\ \A k \in 1..Len(s) : k # i => p[k] = s[k]
    BY <1>1, <2>2, ReplaceIs
  <2> HIDE DEF p
  <2>6. Entries(p, R, o, obls, t)
    BY <2>4, <2>5 DEF Entries
  <2> QED
    BY <2>1, <2>6 DEF p
<1> QED
  BY <1>2, <1>3, <1>4

LEMMA CoverageEntries ==
  ASSUME NEW R, IsSequence(R), NEW o, NEW obls, NEW t
  PROVE  Entries(Coverage(R, o, obls, t), R, o, obls, t)
<1> DEFINE f == CoverageOf(R, o, obls, t)
           T == {n \in Nat : n <= Len(R) => Entries(f[n], R, o, obls, t)}
<1>1. /\ Len(R) \in Nat /\ DOMAIN R = 1..Len(R) /\ f[0] = <<>>
      /\ \A k \in 1..Len(R) : f[k] = Weigh(f[k - 1], R[k], o, obls, t)
  BY SequenceIs, CoverageStep DEF IsSequence
<1> HIDE DEF f
<1>2. 0 \in T
  BY <1>1, EmptySequence DEF Entries
<1>3. ASSUME NEW n \in Nat, n \in T
      PROVE  n + 1 \in T
  <2>1. SUFFICES ASSUME n + 1 <= Len(R) PROVE Entries(f[n + 1], R, o, obls, t)
    OBVIOUS
  <2>2. Entries(f[n], R, o, obls, t)
    BY <1>1, <1>3, <2>1
  <2>3. n + 1 \in 1..Len(R) /\ (n + 1) - 1 = n
    BY <1>1, <2>1
  <2>4. f[n + 1] = Weigh(f[n], R[n + 1], o, obls, t)
    BY <1>1, <2>3
  <2> QED
    BY <1>1, <2>2, <2>3, <2>4, WeighEntries
<1> HIDE DEF T
<1>4. \A n \in Nat : n \in T
  BY <1>2, <1>3, NaturalsByInduction
<1> QED
  BY <1>1, <1>4 DEF T, f, Coverage

\* What is covered by a bound guard has an obligation that discharges it, and
\* no red bound guard covers.
LEMMA JudgedIs ==
  ASSUME NEW risk, NEW o, NEW obls, NEW ob, NEW t
  PROVE  LET e == Judged(risk, o, obls, ob, t)
         IN  /\ e.covered /\ e.basis = "bound" => ob # 0
             /\ ob # 0 /\ BoundVerdict(obls[ob], t, o.passedScripts).refuted => ~e.covered
<1> DEFINE alone == JudgeRisk(risk, o)
           verdict == BoundVerdict(obls[ob], t, o.passedScripts)
           e == Judged(risk, o, obls, ob, t)
<1>1. /\ alone = [covered |-> alone.covered, basis |-> alone.basis, clash |-> alone.clash]
      /\ alone.covered \in BOOLEAN /\ alone.basis # "bound"
  BY DEF JudgeRisk, Entry
<1> HIDE DEF alone, verdict
<1>2. /\ e.covered = (IF ob = 0 THEN alone ELSE ApplyBound(alone, risk, verdict, o)).covered
      /\ e.basis = (IF ob = 0 THEN alone ELSE ApplyBound(alone, risk, verdict, o)).basis
  BY DEF Judged, alone, verdict
<1> HIDE DEF e
<1>3. CASE ob = 0
  BY <1>1, <1>2, <1>3 DEF e
<1>4. CASE ob # 0
  <2>1. verdict.refuted => ~ApplyBound(alone, risk, verdict, o).covered
    BY <1>1 DEF ApplyBound
  <2> QED
    BY <1>2, <1>4, <2>1 DEF e, verdict
<1> QED
  BY <1>3, <1>4

-----------------------------------------------------------------------------
(* The rest of the loop.                                                   *)

LEMMA GateEntries == GapInv => Entries(Gate, Risks, observed, obligations, tree)
BY RisksKnown, CoverageEntries DEF GapInv, Gate, KnownRisks

LEMMA FirstGapIsRisk ==
  ASSUME GapInv, Uncovered(Gate) # {}
  PROVE  \E a \in DOMAIN Risks : FirstGap = Risks[a]
<1>1. Entries(Gate, Risks, observed, obligations, tree)
  BY GateEntries
<1> DEFINE U == Uncovered(Gate)
<1>2. DOMAIN Gate = 1..Len(Gate) /\ Len(Gate) \in Nat
  BY <1>1, SequenceIs DEF Entries, IsSequence
<1>3. U \subseteq 1..Len(Gate) /\ U \subseteq Nat
  BY <1>2 DEF Uncovered
<1>4. \E i \in U : \A j \in U : i <= j
  <2>1. U # {}
    OBVIOUS
  <2> HIDE DEF U
  <2> QED
    BY <1>3, <2>1, HasLeast
<1>5. PICK i \in U : FirstGap = Gate[i].lead
  BY <1>4 DEF FirstGap
<1> QED
  BY <1>1, <1>3, <1>5 DEF Entries, EntryOf

LEMMA RouteGaps ==
  ASSUME GapInv, RouteGap
  PROVE  GapInv' /\ AllKeep(obligations, obligations')
<1>1. /\ Uncovered(Gate) # {} /\ known' \in known..Len(Register)
      /\ obligations' = Route(obligations, FirstGap, Risks', tree)
      /\ named' = [i \in DOMAIN obligations' |->
                     (IF i \in DOMAIN named THEN named[i] ELSE {})
                     \union (IF i = FindObligation(obligations', FirstGap.key)
                             THEN KeysOf(Group(FirstGap, Risks')) ELSE {})]
  <2>1. Len(Registered) = Len(Register) /\ Len(Register) \in Nat
    BY RegisterStep, RegisteredSound DEF RegisterSound
  <2> QED
    BY <2>1 DEF RouteGap, Identified, GapInv
<1>2. PICK a \in DOMAIN Risks : FirstGap = Risks[a]
  BY <1>1, FirstGapIsRisk
<1> DEFINE risk == FirstGap
           Q == Risks'
           keys == KeysOf(Group(risk, Q))
           id == FindObligation(obligations', risk.key)
<1>3. /\ Len(Register) \in Nat /\ known \in Nat /\ known' \in 0..Len(Register) /\ known <= known'
  BY <1>1, RegisterStep DEF GapInv
<1>4. KnownRisks(Risks, known) /\ KnownRisks(Q, known') /\ known' \in Nat
  <2>1. KnownRisks(SubSeq(Registered, 1, known'), known')
    BY <1>3, FirstRisksKnown
  <2> QED
    BY <1>3, <2>1, RisksKnown DEF GapInv, Risks
<1>5. a \in DOMAIN Q /\ Q[a] = risk
  BY <1>2, <1>3, <1>4 DEF KnownRisks
<1>6. \A k \in keys : Spoken(k, Q, keys)
  BY <1>5, GroupSpoken
<1>7. risk.key \in keys
  BY DEF KeysOf, Group
<1>8. Ledger(obligations) /\ Len(obligations) \in Nat /\ DOMAIN named = 1..Len(obligations)
  BY SequenceIs DEF GapInv, Ledger, IsSequence
<1>9. obligations' = Route(obligations, risk, Q, tree)
  BY <1>1
<1> HIDE DEF Q, risk
<1>10. /\ Ledger(obligations')
       /\ \/ /\ Len(obligations') = Len(obligations) /\ id \in 1..Len(obligations)
             /\ obligations'[id].keys = obligations[id].keys \cup keys
          \/ /\ Len(obligations') = Len(obligations) + 1 /\ id = Len(obligations) + 1
             /\ obligations'[id].keys = keys
             /\ obligations'[id].category = risk.category /\ obligations'[id].names = risk.names
       /\ \A i \in 1..Len(obligations) : /\ Keeps(obligations'[i], obligations[i])
                                         /\ i # id => obligations'[i] = obligations[i]
  BY <1>8, <1>9, RouteIs
<1>11. /\ DOMAIN obligations' = 1..Len(obligations') /\ Len(obligations') \in Nat
       /\ DOMAIN named' = DOMAIN obligations'
       /\ \A i \in 1..Len(obligations') :
            named'[i] = (IF i \in 1..Len(obligations) THEN named[i] ELSE {})
                        \union (IF i = id THEN keys ELSE {})
  BY <1>1, <1>8, <1>10, SequenceIs DEF Ledger, IsSequence, Q, risk
<1> HIDE DEF keys, id
<1>12. ASSUME NEW i \in 1..Len(obligations')
       PROVE  Sound(obligations'[i], Q, named'[i])
  <2>1. CASE i \in 1..Len(obligations) /\ i # id
    <3>1. Sound(obligations[i], Risks, named[i])
      BY <2>1 DEF GapInv
    <3>2. Sound(obligations[i], Q, named'[i])
      BY <1>3, <1>4, <1>11, <2>1, <3>1, SoundGrows
    <3> QED
      BY <1>10, <2>1, <3>2
  <2>2. CASE i \in 1..Len(obligations) /\ i = id
    <3>1. Sound(obligations[i], Risks, named[i])
      BY <2>2 DEF GapInv
    <3>2. Sound(obligations[i], Q, named'[i])
      BY <1>3, <1>4, <1>11, <2>2, <3>1, SoundGrows
    <3>3. \A k \in keys : Spoken(k, Q, named'[i])
      BY <1>6, <1>11, <2>2 DEF Spoken
    <3>4. obligations'[i].keys = obligations[i].keys \cup keys
      BY <1>8, <1>10, <2>2
    <3>5. Keeps(obligations'[i], obligations[i])
      BY <1>10, <2>2
    <3> QED
      BY <3>2, <3>3, <3>4, <3>5 DEF Sound, OpenedBy, Keeps
  <2>3. CASE i \notin 1..Len(obligations)
    <3>1. Len(obligations') = Len(obligations) + 1 /\ i = Len(obligations) + 1
      BY <1>8, <1>10, <2>3
    <3>2. /\ i = id /\ obligations'[i].keys = keys
          /\ obligations'[i].category = risk.category /\ obligations'[i].names = risk.names
      <4>1. Len(obligations') # Len(obligations)
        BY <1>8, <3>1
      <4> QED
        BY <1>10, <3>1, <4>1
    <3>3. named'[i] = {} \cup keys
      BY <1>11, <2>3, <3>2
    <3>4. named'[i] = keys
      BY <3>3
    <3>5. OpenedBy(obligations'[i], Q, keys)
      BY <1>5, <1>7, <3>2 DEF OpenedBy
    <3> QED
      BY <1>6, <3>2, <3>4, <3>5 DEF Sound
  <2> QED
    BY <2>1, <2>2, <2>3
<1>13. AllKeep(obligations, obligations')
  BY <1>8, <1>10 DEF AllKeep
<1> QED
  BY <1>3, <1>10, <1>11, <1>12, <1>13 DEF GapInv, Q

LEMMA StepGaps ==
  ASSUME GapInv, [GapsNext]_gapsVars
  PROVE  GapInv' /\ AllKeep(obligations, obligations')
<1>0. known \in Nat
  BY RegisterStep DEF GapInv
<1>1. known \in known..Len(Register) /\ Len(Registered) = Len(Register) /\ Len(Register) \in Nat
  BY RegisterStep, RegisteredSound DEF RegisterSound, GapInv
<1>2. CASE Operate
  BY <1>2, OperateGaps
<1>3. CASE RouteGap
  BY <1>3, RouteGaps
<1>4. CASE RunWave
  <2>1. known' \in {n \in {known, known + 1} : n <= Len(Registered)}
    BY <1>4 DEF RunWave, Identified
  <2>2. known' \in known..Len(Register)
    BY <1>0, <1>1, <2>1
  <2> QED
    BY <1>4, <2>2, QuietGaps DEF RunWave
<1>5. CASE EmptyWave
  <2>1. known' \in {n \in {known, known + 1} : n <= Len(Registered)}
    BY <1>5 DEF EmptyWave, Identified
  <2>2. known' \in known..Len(Register)
    BY <1>0, <1>1, <2>1
  <2> QED
    BY <1>5, <2>2, QuietGaps DEF EmptyWave
<1>6. CASE UNCHANGED <<known, obligations, named>>
  BY <1>1, <1>6, QuietGaps
<1> QED
  BY <1>2, <1>3, <1>4, <1>5, <1>6
     DEF GapsNext, gapsVars, BuilderTurn, Judge, LeaveGate, CloseEnds, Decide, ResumeRun

LEMMA GapInvariance == GapsSpec => []GapInv
<1>1. GapsInit => GapInv
  <2>1. Len(Register) \in Nat
    BY RegisterStep
  <2> QED
    BY <2>1, EmptySequence, SequenceIs, GapsAssumption DEF GapsInit, GapInv, Ledger
<1>2. GapInv /\ [GapsNext]_gapsVars => GapInv'
  BY StepGaps
<1> QED
  BY <1>1, <1>2, PTL DEF GapsSpec

\* Nothing bound, answered or executed for a gap is ever measured again or lost
\* (answer, execute, route and adopt_wordings in verification_obligations.py).
THEOREM GapEvidenceStands == GapsSpec => EvidenceStands
<1> DEFINE A == \A i \in DOMAIN obligations :
       /\ i \in DOMAIN obligations'
       /\ obligations[i].keys \subseteq obligations'[i].keys
       /\ \A x \in DOMAIN obligations[i].executions :
            /\ x \in DOMAIN obligations'[i].executions
            /\ obligations'[i].executions[x] = obligations[i].executions[x]
       /\ \A w \in DOMAIN obligations[i].windows :
            /\ w \in DOMAIN obligations'[i].windows
            /\ obligations[i].windows[w].answered # None =>
                 obligations'[i].windows[w] = obligations[i].windows[w]
<1>1. GapInv /\ GapInv' /\ AllKeep(obligations, obligations') => A
  <2> SUFFICES ASSUME GapInv, GapInv', AllKeep(obligations, obligations') PROVE A
    OBVIOUS
  <2>1. /\ DOMAIN obligations = 1..Len(obligations) /\ Len(obligations) \in Nat
        /\ DOMAIN obligations' = 1..Len(obligations') /\ Len(obligations') \in Nat
    BY SequenceIs DEF GapInv, Ledger, IsSequence
  <2>2. \A i \in DOMAIN obligations : i \in DOMAIN obligations' /\ Keeps(obligations'[i], obligations[i])
    BY <2>1 DEF AllKeep
  <2> QED
    BY <2>2 DEF Keeps
<1>2. GapInv /\ GapInv' /\ [GapsNext]_gapsVars => [A]_gapsVars
  BY <1>1, StepGaps
<1> QED
  BY <1>2, GapInvariance, PTL DEF GapsSpec, EvidenceStands

\* No wording is covered while the obligation that answers for it has a red bound
\* guard on the judged tree (_apply_bound_obligation).
THEOREM RedGuardsRefuse == GapsSpec => []RedGuardRefuses
<1>1. GapInv => RedGuardRefuses
  <2> SUFFICES ASSUME GapInv, NEW e \in DOMAIN Gate,
                      FindObligation(obligations, Gate[e].lead.key) # 0,
                      BoundVerdict(obligations[FindObligation(obligations, Gate[e].lead.key)],
                                   tree, observed.passedScripts).refuted
               PROVE  ~Gate[e].covered
    BY DEF RedGuardRefuses
  <2>1. EntryOf(Gate[e], Risks, observed, obligations, tree)
    BY GateEntries, SequenceIs DEF Entries
  <2> QED
    BY <2>1, JudgedIs DEF EntryOf
<1> QED
  BY <1>1, GapInvariance, PTL

\* Routing one gap closes no other: what a bound guard covers was named, speaks
\* for what was, or is one grounded hypothesis with it (find_obligation,
\* obligation_group, adopt_wordings).
THEOREM AnswersAreNamed == GapsSpec => []AnsweredAsNamed
<1>1. GapInv => AnsweredAsNamed
  <2> SUFFICES ASSUME GapInv, NEW e \in DOMAIN Gate,
                      Gate[e].covered, Gate[e].basis = "bound", NEW k \in Gate[e].keys
               PROVE  \E i \in DOMAIN Risks :
                        /\ Risks[i].key = k
                        /\ \/ \E n \in named[Gate[e].obligation] : \E j \in DOMAIN Risks :
                                Risks[j].key = n /\ SpeaksFor(Risks[i], Risks[j])
                           \/ /\ Gate[e].ground # None
                              /\ GroundKey(Risks[i], observed.modules) = Gate[e].ground
    BY DEF AnsweredAsNamed
  <2>1. EntryOf(Gate[e], Risks, observed, obligations, tree)
    BY GateEntries, SequenceIs DEF Entries
  <2>2. Gate[e].obligation # 0
    BY <2>1, JudgedIs DEF EntryOf
  <2>3. PICK i \in DOMAIN Risks :
          /\ Risks[i].key = k
          /\ \/ FindObligation(obligations, k) = Gate[e].obligation
             \/ Gate[e].ground # None /\ GroundKey(Risks[i], observed.modules) = Gate[e].ground
    BY <2>1 DEF EntryOf
  <2>4. CASE FindObligation(obligations, k) = Gate[e].obligation
    <3> DEFINE ob == Gate[e].obligation
    <3>1. ob \in 1..Len(obligations) /\ k \in obligations[ob].keys
      BY <2>2, <2>4, FindIs DEF GapInv, Ledger, IsSequence
    <3>2. Spoken(k, Risks, named[ob])
      BY <3>1 DEF GapInv, Sound
    <3>3. PICK h, j \in DOMAIN Risks : /\ Risks[h].key = k /\ Risks[j].key \in named[ob]
                                       /\ SpeaksIn(Risks[h], Risks[j], Risks)
      BY <3>2 DEF Spoken
    <3>4. SpeaksFor(Risks[h], Risks[j])
      BY <3>3 DEF SpeaksIn, SpeaksFor
    <3> QED
      BY <3>3, <3>4
  <2>5. CASE Gate[e].ground # None /\ GroundKey(Risks[i], observed.modules) = Gate[e].ground
    BY <2>3, <2>5
  <2> QED
    BY <2>3, <2>4, <2>5
<1> QED
  BY <1>1, GapInvariance, PTL
-----------------------------------------------------------------------------
(* The execution of a scenario.                                            *)

IsResult(r) ==
  r = [error |-> r.error, ready |-> r.ready, asserts |-> r.asserts, seen |-> r.seen,
       browser |-> r.browser, infrastructure |-> r.infrastructure, fixtures |-> r.fixtures,
       checks |-> r.checks, outputs |-> r.outputs, claims |-> r.claims]

\* What is asserted of texts, and did not fail, is so.
LEMMA PrintedAll ==
  ASSUME NEW T, NEW P, FALSE \notin Printed(T, P)
  PROVE  T \subseteq P
<1> SUFFICES ASSUME NEW t \in T, t \notin P PROVE FALSE
  OBVIOUS
<1>1. Occurs(t, P) = FALSE
  BY DEF Occurs
<1>2. Occurs(t, P) \in Printed(T, P)
  BY DEF Printed
<1> HIDE DEF Occurs
<1> QED
  BY <1>1, <1>2

LEMMA AbsentAll ==
  ASSUME NEW T, NEW P, FALSE \notin Absent(T, P)
  PROVE  T \intersect P = {}
BY DEF Absent, Occurs

\* And something was asserted only of what expects something.
LEMMA PrintedSome ==
  ASSUME NEW T, NEW P
  PROVE  T = {} => Printed(T, P) = {} /\ Absent(T, P) = {}
BY DEF Printed, Absent

LEMMA AssertedIs ==
  ASSUME NEW r, IsResult(r), NEW found
  PROVE  Asserted(r, found) =
           [error |-> r.error, ready |-> r.ready, asserts |-> r.asserts \cup found,
            seen |-> r.seen, browser |-> r.browser, infrastructure |-> r.infrastructure,
            fixtures |-> r.fixtures, checks |-> r.checks, outputs |-> r.outputs,
            claims |-> r.claims]
BY DEF IsResult, Asserted

\* q remembers of check n, beside what r does, that it holds and what it printed.
Remembers(r, q, n, holds, printed) ==
  /\ DOMAIN q.checks = DOMAIN r.checks \cup {n}
  /\ \A m \in DOMAIN r.checks \ {n} : q.checks[m] = r.checks[m]
  /\ q.checks[n] => holds /\ (n \in DOMAIN r.checks => r.checks[n])
  /\ DOMAIN q.outputs = DOMAIN r.checks \cup {n}
  /\ \A m \in DOMAIN r.checks \ {n} :
       q.outputs[m] = IF m \in DOMAIN r.outputs THEN r.outputs[m] ELSE {}
  /\ q.outputs[n] = printed \cup (IF n \in DOMAIN r.outputs THEN r.outputs[n] ELSE {})

LEMMA RecordIs ==
  ASSUME NEW r, IsResult(r), NEW n, NEW produced, NEW printed
  PROVE  LET q == RecordCheck(r, n, produced, printed)
         IN  /\ n = None => q = r
             /\ IsResult(q) /\ q.error = r.error /\ q.asserts = r.asserts
             /\ q.seen = r.seen /\ q.fixtures = r.fixtures
             /\ n # None => Remembers(r, q, n, produced # {}, printed)
<1> DEFINE before == n \notin DOMAIN r.checks \/ r.checks[n]
           names == DOMAIN r.checks \union {n}
           C == [m \in names |-> IF m = n THEN before /\ produced # {} /\ AllPassed(produced)
                                 ELSE r.checks[m]]
           O == [m \in names |-> (IF m = n THEN printed ELSE {}) \union
                                 (IF m \in DOMAIN r.outputs THEN r.outputs[m] ELSE {})]
           q == RecordCheck(r, n, produced, printed)
<1>1. n = None => q = r
  BY DEF RecordCheck
<1>2. n # None => q = [r EXCEPT !.checks = C, !.outputs = O]
  BY DEF RecordCheck
<1>3. /\ DOMAIN C = names /\ \A m \in DOMAIN r.checks \ {n} : C[m] = r.checks[m]
      /\ C[n] => produced # {} /\ before
  OBVIOUS
<1>4. /\ DOMAIN O = names
      /\ \A m \in DOMAIN r.checks \ {n} :
           O[m] = IF m \in DOMAIN r.outputs THEN r.outputs[m] ELSE {}
      /\ O[n] = printed \cup (IF n \in DOMAIN r.outputs THEN r.outputs[n] ELSE {})
  OBVIOUS
<1> HIDE DEF C, O, q
<1>5. n # None => /\ IsResult(q) /\ q.error = r.error /\ q.asserts = r.asserts
                  /\ q.seen = r.seen /\ q.fixtures = r.fixtures
                  /\ q.checks = C /\ q.outputs = O
  BY <1>2 DEF IsResult
<1>6. n # None => Remembers(r, q, n, produced # {}, printed)
  BY <1>3, <1>4, <1>5 DEF Remembers
<1> QED
  BY <1>1, <1>5, <1>6 DEF q

\* What an operation, answered by a, makes of the result r.
Follows(s, i, a, r, q) ==
  LET op == Operations(s)[i]
  IN /\ IsResult(q) /\ q.error = r.error /\ r.asserts \subseteq q.asserts
     /\ FALSE \notin q.asserts /\ r.fixtures = Standing(s, i) =>
          /\ Answers(s, i, a)
          /\ q.seen = r.seen \cup Shown(s, i, a)
          /\ q.fixtures = r.fixtures \cup (IF op.kind = "fixture" THEN {op.fixture} ELSE {})
          /\ IF IsCheck(op) /\ op.name # None
             THEN Remembers(r, q, op.name, Asks(op), Shown(s, i, a))
             ELSE q.checks = r.checks /\ q.outputs = r.outputs

\* An assertion that failed answers for whatever follows it.
LEMMA FailureFollows ==
  ASSUME NEW s, NEW i, NEW a, NEW r, IsResult(r)
  PROVE  Follows(s, i, a, r, Asserted(r, {FALSE}))
<1> DEFINE q == Asserted(r, {FALSE})
<1>1. q = [error |-> r.error, ready |-> r.ready, asserts |-> r.asserts \cup {FALSE},
           seen |-> r.seen, browser |-> r.browser, infrastructure |-> r.infrastructure,
           fixtures |-> r.fixtures, checks |-> r.checks, outputs |-> r.outputs,
           claims |-> r.claims]
  BY AssertedIs
<1> HIDE DEF q
<1>2. IsResult(q) /\ q.error = r.error /\ q.asserts = r.asserts \cup {FALSE}
  BY <1>1 DEF IsResult
<1>3. Follows(s, i, a, r, q)
  BY <1>2 DEF Follows
<1> QED
  BY <1>3 DEF q

\* What is asserted and seen of an operation that does nothing else.
LEMMA SeeingIs ==
  ASSUME NEW r, IsResult(r), NEW found, NEW shown
  PROVE  Seeing(Asserted(r, found), shown) =
           [error |-> r.error, ready |-> r.ready, asserts |-> r.asserts \cup found,
            seen |-> r.seen \cup shown, browser |-> r.browser,
            infrastructure |-> r.infrastructure, fixtures |-> r.fixtures,
            checks |-> r.checks, outputs |-> r.outputs, claims |-> r.claims]
<1> DEFINE y == Asserted(r, found)
<1>1. y = [error |-> r.error, ready |-> r.ready, asserts |-> r.asserts \cup found,
           seen |-> r.seen, browser |-> r.browser, infrastructure |-> r.infrastructure,
           fixtures |-> r.fixtures, checks |-> r.checks, outputs |-> r.outputs,
           claims |-> r.claims]
  BY AssertedIs
<1> HIDE DEF y
<1>2. Seeing(y, shown) =
        [error |-> r.error, ready |-> r.ready, asserts |-> r.asserts \cup found,
         seen |-> r.seen \cup shown, browser |-> r.browser,
         infrastructure |-> r.infrastructure, fixtures |-> r.fixtures,
         checks |-> r.checks, outputs |-> r.outputs, claims |-> r.claims]
  BY <1>1 DEF Seeing
<1> QED
  BY <1>2 DEF y

\* The same, as the fields of what results.
Sees(r, q, found, shown) ==
  /\ IsResult(q) /\ q.error = r.error /\ q.asserts = r.asserts \cup found
  /\ q.seen = r.seen \cup shown /\ q.fixtures = r.fixtures
  /\ q.checks = r.checks /\ q.outputs = r.outputs

LEMMA SeeingSees ==
  ASSUME NEW r, IsResult(r), NEW found, NEW shown, NEW q,
         q = Seeing(Asserted(r, found), shown)
  PROVE  /\ Sees(r, q, found, shown)
         /\ \A v : Sees(r, [q EXCEPT !.infrastructure = v], found, shown)
         /\ \A v : Sees(r, [q EXCEPT !.browser = v], found, shown)
<1>1. q = [error |-> r.error, ready |-> r.ready, asserts |-> r.asserts \cup found,
           seen |-> r.seen \cup shown, browser |-> r.browser,
           infrastructure |-> r.infrastructure, fixtures |-> r.fixtures,
           checks |-> r.checks, outputs |-> r.outputs, claims |-> r.claims]
  BY SeeingIs
<1>2. Sees(r, q, found, shown)
  BY <1>1 DEF Sees, IsResult
<1>3. ASSUME NEW v PROVE Sees(r, [q EXCEPT !.infrastructure = v], found, shown)
  <2> DEFINE z == [q EXCEPT !.infrastructure = v]
  <2>1. z = [error |-> r.error, ready |-> r.ready, asserts |-> r.asserts \cup found,
             seen |-> r.seen \cup shown, browser |-> r.browser,
             infrastructure |-> v, fixtures |-> r.fixtures,
             checks |-> r.checks, outputs |-> r.outputs, claims |-> r.claims]
    BY <1>1
  <2> HIDE DEF z
  <2>2. Sees(r, z, found, shown)
    BY <2>1 DEF Sees, IsResult
  <2> QED
    BY <2>2 DEF z
<1>4. ASSUME NEW v PROVE Sees(r, [q EXCEPT !.browser = v], found, shown)
  <2> DEFINE z == [q EXCEPT !.browser = v]
  <2>1. z = [error |-> r.error, ready |-> r.ready, asserts |-> r.asserts \cup found,
             seen |-> r.seen \cup shown, browser |-> v,
             infrastructure |-> r.infrastructure, fixtures |-> r.fixtures,
             checks |-> r.checks, outputs |-> r.outputs, claims |-> r.claims]
    BY <1>1
  <2> HIDE DEF z
  <2>2. Sees(r, z, found, shown)
    BY <2>1 DEF Sees, IsResult
  <2> QED
    BY <2>2 DEF z
<1> QED
  BY <1>2, <1>3, <1>4

\* And a check that is remembered.
LEMMA CheckFollows ==
  ASSUME NEW s, NEW i, IsCheck(Operations(s)[i]), NEW a, NEW r, NEW x, NEW found, NEW shown,
         Sees(r, x, found, shown), NEW q,
         q = RecordCheck(x, Operations(s)[i].name, found, shown),
         found # {} => Asks(Operations(s)[i]), shown = Shown(s, i, a),
         FALSE \notin found /\ r.fixtures = Standing(s, i) => Answers(s, i, a)
  PROVE  Follows(s, i, a, r, q)
<1> DEFINE op == Operations(s)[i]
<1>0. op.kind # "fixture"
  BY DEF IsCheck
<1>1. /\ op.name = None => q = x
      /\ IsResult(q) /\ q.error = x.error /\ q.asserts = x.asserts
      /\ q.seen = x.seen /\ q.fixtures = x.fixtures
      /\ op.name # None => Remembers(x, q, op.name, found # {}, shown)
  BY RecordIs DEF Sees
<1>2. op.name # None => Remembers(r, q, op.name, Asks(op), shown)
  BY <1>1 DEF Sees, Remembers
<1>3. op.name = None => q.checks = r.checks /\ q.outputs = r.outputs
  BY <1>1 DEF Sees
<1>4. /\ q.error = r.error /\ q.asserts = r.asserts \cup found
      /\ q.seen = r.seen \cup shown /\ q.fixtures = r.fixtures
  BY <1>1 DEF Sees
<1> QED
  BY <1>0, <1>1, <1>2, <1>3, <1>4 DEF Follows

LEMMA CommandFollows ==
  ASSUME NEW s, NEW w, NEW b, NEW r, IsResult(r), NEW i, Operations(s)[i].kind = "command",
         None \notin Int
  PROVE  Follows(s, i, w.answers[i], r, Perform(s, w, b, r, i))
<1> DEFINE op == Operations(s)[i]
           a == w.answers[i]
           c == RunCommand(a)
           produced == (IF op.outcome # None THEN {JudgeCommand(op, c)}
                        ELSE IF op.exit # None THEN {c.exit = op.exit} ELSE {})
                       \union Printed(op.contains, c.prints)
           broken == op.outcome # None /\ Classify(c, op.refusal) = "infrastructure_failure"
           y == Seeing(Asserted(r, produced), c.prints)
           x == IF broken THEN [y EXCEPT !.infrastructure = TRUE] ELSE y
           q == Perform(s, w, b, r, i)
<1>1. q = DoCommand(r, op, a)
  BY Zenon DEF Perform
<1>2. CASE Refused(r, op)
  BY <1>1, <1>2, FailureFollows DEF DoCommand
<1>3. CASE ~Refused(r, op)
  <2>1. q = RecordCheck(x, op.name, produced, c.prints)
    BY <1>1, <1>3 DEF DoCommand
  <2> HIDE DEF produced, broken
  <2>2. Sees(r, x, produced, c.prints)
    BY SeeingSees
  <2> HIDE DEF x
  <2>3. produced # {} => Asks(op)
    BY PrintedSome DEF produced, Asks
  <2>4. c.prints = Shown(s, i, a)
    BY Zenon DEF Shown
  <2>5. ASSUME FALSE \notin produced
        PROVE  CommandAnswers(op, a)
    <3> HIDE DEF c
    <3>1. op.contains \subseteq c.prints
      <4>1. FALSE \notin Printed(op.contains, c.prints)
        BY <2>5 DEF produced
      <4> QED
        BY <4>1, PrintedAll
    <3>2. op.outcome # None => JudgeCommand(op, c)
      <4> SUFFICES ASSUME op.outcome # None, ~JudgeCommand(op, c) PROVE FALSE
        OBVIOUS
      <4>1. JudgeCommand(op, c) = FALSE
        BY DEF JudgeCommand
      <4>2. JudgeCommand(op, c) \in produced
        BY DEF produced
      <4> QED
        BY <2>5, <4>1, <4>2
    <3>3. op.outcome = None /\ op.exit # None => c.exit = op.exit
      BY <2>5 DEF produced
    <3>4. /\ a.end = "exits" => c.exit = a.code /\ ~c.timedOut
          /\ a.end # "exits" => c.exit = None
          /\ a.end = "not_launched" => c.prints = {}
          /\ a.end # "not_launched" => c.prints = a.prints
      BY DEF c, RunCommand
    <3>5. None # 0
      OBVIOUS
    <3>6. op.outcome # None /\ op.outcome = "permitted" => c.exit = 0
      BY <3>2 DEF JudgeCommand, Classify, Ok
    <3>7. op.outcome # None /\ op.outcome = "refused" =>
            /\ ~Ok(c) /\ c.exit # None /\ op.refusal # {} /\ op.refusal \subseteq c.prints
            /\ op.exit \in {None, 0, c.exit}
      BY <3>2 DEF JudgeCommand, Classify
    <3> QED
      BY <3>1, <3>3, <3>4, <3>5, <3>6, <3>7 DEF CommandAnswers, Ok
  <2>6. r.fixtures = Standing(s, i) => Approvable(s, i)
    BY <1>3 DEF Refused, Approvable
  <2>7. Approvable(s, i) /\ CommandAnswers(op, a) => Answers(s, i, a)
    BY Zenon DEF Answers
  <2>8. IsCheck(op)
    BY DEF IsCheck
  <2> HIDE DEF q
  <2>9. Follows(s, i, a, r, q)
    BY <2>1, <2>2, <2>3, <2>4, <2>5, <2>6, <2>7, <2>8, CheckFollows
  <2> QED
    BY <2>9 DEF q
<1> QED
  BY <1>2, <1>3

LEMMA StateCheckFollows ==
  ASSUME NEW s, NEW w, NEW b, NEW r, IsResult(r), NEW i,
         Operations(s)[i].kind = "state_check"
  PROVE  Follows(s, i, w.answers[i], r, Perform(s, w, b, r, i))
<1> DEFINE op == Operations(s)[i]
           a == w.answers[i]
           c == RunCommand(a)
           produced == Printed(op.contains, c.prints) \union Absent(op.notContains, c.prints)
           x == Seeing(Asserted(r, produced), c.prints)
           q == Perform(s, w, b, r, i)
<1>1. q = DoStateCheck(r, op, a)
  BY Zenon DEF Perform
<1>2. CASE Refused(r, op)
  BY <1>1, <1>2, FailureFollows DEF DoStateCheck
<1>3. CASE ~Refused(r, op)
  <2>1. q = RecordCheck(x, op.name, produced, c.prints)
    BY <1>1, <1>3 DEF DoStateCheck
  <2>2. Sees(r, x, produced, c.prints)
    BY SeeingSees
  <2> HIDE DEF x, produced
  <2>3. produced # {} => Asks(op)
    BY PrintedSome DEF produced, Asks
  <2>4. c.prints = Shown(s, i, a)
    BY Zenon DEF Shown
  <2>5. ASSUME FALSE \notin produced
        PROVE  StateAnswers(op, a)
    <3>1. op.contains \subseteq c.prints
      <4>1. FALSE \notin Printed(op.contains, c.prints)
        BY <2>5 DEF produced
      <4> QED
        BY <4>1, PrintedAll
    <3>2. op.notContains \intersect c.prints = {}
      <4>1. FALSE \notin Absent(op.notContains, c.prints)
        BY <2>5 DEF produced
      <4> QED
        BY <4>1, AbsentAll
    <3>3. /\ a.end = "not_launched" => c.prints = {}
          /\ a.end # "not_launched" => c.prints = a.prints
      BY DEF RunCommand
    <3> QED
      BY <3>1, <3>2, <3>3 DEF StateAnswers
  <2>6. r.fixtures = Standing(s, i) => Approvable(s, i)
    BY <1>3 DEF Refused, Approvable
  <2>7. Approvable(s, i) /\ StateAnswers(op, a) => Answers(s, i, a)
    BY Zenon DEF Answers
  <2>8. IsCheck(op)
    BY DEF IsCheck
  <2> HIDE DEF q
  <2>9. Follows(s, i, a, r, q)
    BY <2>1, <2>2, <2>3, <2>4, <2>5, <2>6, <2>7, <2>8, CheckFollows
  <2> QED
    BY <2>9 DEF q
<1> QED
  BY <1>2, <1>3

\* What is not a check is only seen.
LEMMA SightFollows ==
  ASSUME NEW s, NEW i, NEW a, NEW r, NEW q, NEW found, NEW shown, Sees(r, q, found, shown),
         Operations(s)[i].kind \notin {"command", "state_check", "fixture"},
         FALSE \notin found => Answers(s, i, a) /\ shown = Shown(s, i, a)
  PROVE  Follows(s, i, a, r, q)
<1>1. ~IsCheck(Operations(s)[i]) /\ Operations(s)[i].kind # "fixture"
  BY DEF IsCheck
<1>2. /\ IsResult(q) /\ q.error = r.error /\ q.asserts = r.asserts \cup found
      /\ q.seen = r.seen \cup shown /\ q.fixtures = r.fixtures
      /\ q.checks = r.checks /\ q.outputs = r.outputs
  BY DEF Sees
<1> QED
  BY <1>1, <1>2 DEF Follows

\* A request whose assertions hold was answered as it was asked to be.
LEMMA RequestAnswered ==
  ASSUME NEW op, NEW answer, FALSE \notin AssertRequest(op, HttpRequest(answer))
  PROVE  RequestAnswers(op, answer)
<1> DEFINE http == HttpRequest(answer)
<1>1. op.status # None => http.status = op.status
  BY DEF AssertRequest
<1>2. op.contains \subseteq http.body
  <2>1. FALSE \notin Printed(op.contains, http.body)
    BY DEF AssertRequest
  <2> QED
    BY <2>1, PrintedAll
<1>3. /\ answer.answered => http.status = answer.status /\ http.body = answer.prints
      /\ ~answer.answered => http.status = None /\ http.body = {}
  BY DEF HttpRequest
<1> QED
  BY <1>1, <1>2, <1>3 DEF RequestAnswers

LEMMA RequestFollows ==
  ASSUME NEW s, NEW w, NEW b, NEW r, IsResult(r), NEW i, Operations(s)[i].kind = "request"
  PROVE  Follows(s, i, w.answers[i], r, Perform(s, w, b, r, i))
<1> DEFINE op == Operations(s)[i]
           a == w.answers[i]
           found == AssertRequest(op, HttpRequest(a))
           shown == HttpRequest(a).body
           q == Perform(s, w, b, r, i)
<1>1. q = DoRequest(r, op, a)
  BY Zenon DEF Perform
<1>2. q = Seeing(Asserted(r, found), shown)
  BY <1>1 DEF DoRequest
<1>3. shown = Shown(s, i, a)
  BY Zenon DEF Shown
<1>4. FALSE \notin found => RequestAnswers(op, a)
  BY RequestAnswered
<1>5. RequestAnswers(op, a) => Answers(s, i, a)
  BY Zenon DEF Answers
<1> HIDE DEF q, found, shown
<1>6. Sees(r, q, found, shown)
  BY <1>2, SeeingSees
<1>7. Follows(s, i, a, r, q)
  BY <1>3, <1>4, <1>5, <1>6, SightFollows
<1> QED
  BY <1>7 DEF q

LEMMA RequestsFollow ==
  ASSUME NEW s, NEW w, NEW b, NEW r, IsResult(r), NEW i,
         Operations(s)[i].kind = "parallel_requests"
  PROVE  Follows(s, i, w.answers[i], r, Perform(s, w, b, r, i))
<1> DEFINE op == Operations(s)[i]
           a == w.answers[i]
           ks == DOMAIN op.requests
           found == UNION {AssertRequest(op.requests[k], HttpRequest(a[k])) : k \in ks}
           shown == UNION {HttpRequest(a[k]).body : k \in ks}
           q == Perform(s, w, b, r, i)
<1>1. q = DoRequests(r, op, a)
  BY Zenon DEF Perform
<1>2. q = Seeing(Asserted(r, found), shown)
  BY <1>1 DEF DoRequests
<1>3. shown = Shown(s, i, a)
  BY Zenon DEF Shown
<1>4. FALSE \notin found => \A k \in ks : RequestAnswers(op.requests[k], a[k])
  <2> SUFFICES ASSUME FALSE \notin found, NEW k \in ks
               PROVE  RequestAnswers(op.requests[k], a[k])
    OBVIOUS
  <2>1. FALSE \notin AssertRequest(op.requests[k], HttpRequest(a[k]))
    OBVIOUS
  <2> QED
    BY <2>1, RequestAnswered
<1>5. (\A k \in ks : RequestAnswers(op.requests[k], a[k])) => Answers(s, i, a)
  BY Zenon DEF Answers
<1> HIDE DEF q, found, shown
<1>6. Sees(r, q, found, shown)
  BY <1>2, SeeingSees
<1>7. Follows(s, i, a, r, q)
  BY <1>3, <1>4, <1>5, <1>6, SightFollows
<1> QED
  BY <1>7 DEF q

LEMMA SessionAnswers ==
  ASSUME NEW s, NEW i, Operations(s)[i].kind = "browser", NEW a, NEW op, op = Operations(s)[i],
         NEW t, t = RunBrowser(op, s.url, a),
         FALSE \notin (IF t.loaded THEN {} ELSE {FALSE})
                      \union (IF t.failed THEN {FALSE} ELSE {}) \union t.found
  PROVE  BrowserAnswers(op, s.url, a) /\ t.shown = Shown(s, i, a)
<1> DEFINE steps == IF s.url # None /\ ~a.opens THEN {} ELSE DOMAIN op.steps
           done == steps \ a.raises
           opened == s.url # None /\ a.opens
           visited == {k \in done : op.steps[k].goto}
           found == {Occurs(op.steps[k].text, a.pages[k]) :
                       k \in {j \in done : op.steps[j].text # None}}
           pages == visited \union (IF opened THEN {0} ELSE {})
                            \union (IF steps # {} /\ a.closes THEN {Len(op.steps)} ELSE {})
<1>1. t.loaded /\ ~t.failed /\ FALSE \notin t.found
  OBVIOUS
<1>2. a.installed
  BY <1>1 DEF RunBrowser
<1>3. /\ t.loaded = (opened \/ visited # {})
      /\ t.failed = ((s.url # None /\ ~a.opens) \/ steps # done \/ ~a.closes)
      /\ t.found = found
      /\ t.shown = a.console \union UNION {a.pages[k] : k \in pages}
  BY <1>2 DEF RunBrowser
<1>4. /\ s.url # None => a.opens
      /\ steps = DOMAIN op.steps /\ done = steps /\ a.closes
  BY <1>1, <1>3
<1>5. ASSUME NEW k \in DOMAIN op.steps, op.steps[k].text # None
      PROVE  op.steps[k].text \in a.pages[k]
  <2> SUFFICES ASSUME op.steps[k].text \notin a.pages[k] PROVE FALSE
    OBVIOUS
  <2>1. Occurs(op.steps[k].text, a.pages[k]) = FALSE
    BY DEF Occurs
  <2>2. Occurs(op.steps[k].text, a.pages[k]) \in found
    BY <1>4, <1>5
  <2> HIDE DEF found
  <2> QED
    BY <1>1, <1>3, <2>1, <2>2
<1>6. DOMAIN op.steps \intersect a.raises = {}
  BY <1>4
<1>7. s.url # None \/ \E k \in DOMAIN op.steps : op.steps[k].goto
  BY <1>1, <1>3, <1>4
<1>8. pages = Pages(op, s.url)
  BY <1>4 DEF Pages
<1>9. Shown(s, i, a) = a.console \union UNION {a.pages[k] : k \in Pages(op, s.url)}
  BY Zenon DEF Shown
<1>10. BrowserAnswers(op, s.url, a)
  BY <1>2, <1>4, <1>5, <1>6, <1>7 DEF BrowserAnswers
<1> HIDE DEF pages
<1>11. t.shown = Shown(s, i, a)
  BY <1>3, <1>8, <1>9
<1> QED
  BY <1>10, <1>11

LEMMA BrowserFollows ==
  ASSUME NEW s, NEW w, NEW b, NEW r, IsResult(r), NEW i, Operations(s)[i].kind = "browser"
  PROVE  Follows(s, i, w.answers[i], r, Perform(s, w, b, r, i))
<1> DEFINE op == Operations(s)[i]
           a == w.answers[i]
           visit == RunBrowser(op, s.url, a)
           found == (IF visit.loaded THEN {} ELSE {FALSE})
                    \union (IF visit.failed THEN {FALSE} ELSE {}) \union visit.found
           shown == visit.shown
           y == Seeing(Asserted(r, found), shown)
           q == Perform(s, w, b, r, i)
<1>1. CASE ~b
  <2>1. q = Asserted(r, {FALSE})
    BY <1>1, Zenon DEF Perform
  <2> QED
    BY <2>1, FailureFollows
<1>2. CASE b
  <2>1. q = DoBrowser(r, op, s.url, a)
    BY <1>2, Zenon DEF Perform
  <2>2. q = [y EXCEPT !.browser = IF @ = "loaded" \/ visit.loaded THEN "loaded" ELSE "no page"]
    BY <2>1 DEF DoBrowser
  <2>3. FALSE \notin found => BrowserAnswers(op, s.url, a) /\ shown = Shown(s, i, a)
    <3>1. visit = RunBrowser(op, s.url, a)
      OBVIOUS
    <3> HIDE DEF visit, op, a
    <3>2. op = Operations(s)[i] /\ op.kind = "browser"
      BY DEF op
    <3>3. FALSE \notin found => BrowserAnswers(op, s.url, a) /\ visit.shown = Shown(s, i, a)
      BY <3>1, <3>2, SessionAnswers
    <3> QED
      BY <3>3
  <2>4. BrowserAnswers(op, s.url, a) => Answers(s, i, a)
    BY Zenon DEF Answers
  <2> HIDE DEF q, found, visit, shown
  <2>5. Sees(r, q, found, shown)
    <3>1. \A v : Sees(r, [y EXCEPT !.browser = v], found, shown)
      BY SeeingSees
    <3> HIDE DEF y
    <3>2. \E v : q = [y EXCEPT !.browser = v]
      BY <2>2
    <3> QED
      BY <3>1, <3>2
  <2>6. Follows(s, i, a, r, q)
    BY <2>3, <2>4, <2>5, SightFollows
  <2> QED
    BY <2>6 DEF q
<1> QED
  BY <1>1, <1>2

LEMMA FixtureFollows ==
  ASSUME NEW s, NEW w, NEW b, NEW r, IsResult(r), NEW i, Operations(s)[i].kind = "fixture"
  PROVE  Follows(s, i, w.answers[i], r, Perform(s, w, b, r, i))
<1> DEFINE op == Operations(s)[i]
           a == w.answers[i]
           q == Perform(s, w, b, r, i)
<1>1. q = DoFixture(r, op, a)
  BY Zenon DEF Perform
<1>2. CASE ~a.written
  <2>1. q = Asserted(r, {FALSE})
    BY <1>1, <1>2 DEF DoFixture
  <2> QED
    BY <2>1, FailureFollows
<1>3. CASE a.written
  <2>1. q = [r EXCEPT !.fixtures = @ \union {op.fixture}]
    BY <1>1, <1>3 DEF DoFixture
  <2>2. Answers(s, i, a) /\ Shown(s, i, a) = {}
    BY <1>3, Zenon DEF Answers, Shown
  <2>3. ~IsCheck(op)
    BY DEF IsCheck
  <2> HIDE DEF q
  <2>4. /\ IsResult(q) /\ q.error = r.error /\ q.asserts = r.asserts
        /\ q.seen = r.seen /\ q.fixtures = r.fixtures \cup {op.fixture}
        /\ q.checks = r.checks /\ q.outputs = r.outputs
    BY <2>1 DEF IsResult
  <2>5. Follows(s, i, a, r, q)
    BY <2>2, <2>3, <2>4 DEF Follows
  <2> QED
    BY <2>5 DEF q
<1> QED
  BY <1>2, <1>3

\* Waiting asserts nothing and shows nothing; a service asserts that it is there.
LEMMA ServiceFollows ==
  ASSUME NEW s, NEW w, NEW b, NEW r, IsResult(r), NEW i,
         Operations(s)[i].kind \notin {"command", "state_check", "request",
                                      "parallel_requests", "browser", "fixture"}
  PROVE  Follows(s, i, w.answers[i], r, Perform(s, w, b, r, i))
<1> DEFINE op == Operations(s)[i]
           a == w.answers[i]
           q == Perform(s, w, b, r, i)
           holds == op.service \in s.services
                      /\ (op.kind = "stop_service" \/ Ready(s.readiness, a.polls))
<1>1. Shown(s, i, a) = {}
  BY Zenon DEF Shown
<1>2. CASE op.kind = "wait"
  <2>1. q = r
    BY <1>2, Zenon DEF Perform
  <2>2. Answers(s, i, a)
    BY <1>2, Zenon DEF Answers
  <2> HIDE DEF q
  <2>3. Sees(r, q, {}, {})
    BY <2>1 DEF Sees
  <2>4. Follows(s, i, a, r, q)
    BY <1>1, <2>2, <2>3, SightFollows
  <2> QED
    BY <2>4 DEF q
<1>3. CASE op.kind # "wait"
  <2>1. q = DoService(r, s, op, a)
    BY <1>3, Zenon DEF Perform
  <2>2. q = Asserted(r, {holds})
    BY <2>1 DEF DoService
  <2>3. holds => Answers(s, i, a)
    BY <1>3, Zenon DEF Answers
  <2>4. CASE ~holds
    <3>1. holds = FALSE
      BY <2>4
    <3>2. q = Asserted(r, {FALSE})
      BY <2>2, <3>1
    <3> QED
      BY <3>2, FailureFollows
  <2>5. CASE holds
    <3> HIDE DEF q, holds
    <3>1. q = [error |-> r.error, ready |-> r.ready, asserts |-> r.asserts \cup {holds},
               seen |-> r.seen, browser |-> r.browser, infrastructure |-> r.infrastructure,
               fixtures |-> r.fixtures, checks |-> r.checks, outputs |-> r.outputs,
               claims |-> r.claims]
      BY <2>2, AssertedIs
    <3>2. Sees(r, q, {holds}, {})
      BY <3>1 DEF Sees, IsResult
    <3>3. Follows(s, i, a, r, q)
      BY <1>1, <2>3, <2>5, <3>2, SightFollows
    <3> QED
      BY <3>3 DEF q
  <2> QED
    BY <2>4, <2>5
<1> QED
  BY <1>2, <1>3

LEMMA PerformFollows ==
  ASSUME NEW s, NEW w, NEW b, NEW r, IsResult(r), NEW i, None \notin Int
  PROVE  Follows(s, i, w.answers[i], r, Perform(s, w, b, r, i))
BY CommandFollows, StateCheckFollows, RequestFollows, RequestsFollow, BrowserFollows,
   FixtureFollows, ServiceFollows

-----------------------------------------------------------------------------
\* f tells the result after each of the first n operations.
TellsExecution(f, n, s, w, b, begun) ==
  f = [k \in 0..n |-> IF k = 0 THEN begun ELSE Perform(s, w, b, f[k - 1], k)]

LEMMA ExecutionsExist ==
  ASSUME NEW s, NEW w, NEW b, NEW begun
  PROVE  \A n \in Nat : \E f : TellsExecution(f, n, s, w, b, begun)
<1> USE DEF TellsExecution
<1> DEFINE Told(j) == \E f : TellsExecution(f, j, s, w, b, begun)
           T == {j \in Nat : Told(j)}
<1>1. 0 \in T
  <2>1. Told(0)
    <3> WITNESS [k \in 0..0 |-> begun]
    <3> QED
      OBVIOUS
  <2> HIDE DEF Told
  <2> QED
    BY <2>1
<1>2. ASSUME NEW j \in Nat, j \in T
      PROVE  j + 1 \in T
  <2>1. PICK f : TellsExecution(f, j, s, w, b, begun)
    BY <1>2
  <2> DEFINE new == Perform(s, w, b, f[j], j + 1)
             g == [k \in 0..(j + 1) |-> IF k = j + 1 THEN new ELSE f[k]]
  <2>2. \A k \in 0..j : f[k] = IF k = 0 THEN begun ELSE Perform(s, w, b, f[k - 1], k)
    BY <2>1
  <2> HIDE DEF new
  <2>3. g[j + 1] = new /\ \A k \in 0..j : g[k] = f[k]
    BY j + 1 \notin 0..j
  <2>4. g = [k \in 0..(j + 1) |-> g[k]]
    OBVIOUS
  <2> HIDE DEF g
  <2>5. g[0] = begun
    BY <2>2, <2>3, 0 \in 0..j
  <2>6. ASSUME NEW k \in 1..(j + 1)
        PROVE  g[k] = Perform(s, w, b, g[k - 1], k)
    <3>1. CASE k = j + 1
      <4>1. k - 1 = j /\ j \in 0..j
        BY <3>1
      <4> QED
        BY <2>3, <3>1, <4>1 DEF new
    <3>2. CASE k # j + 1
      <4>1. k \in 0..j /\ k - 1 \in 0..j /\ k # 0
        BY <3>2
      <4>2. g[k] = f[k] /\ g[k - 1] = f[k - 1]
        BY <2>3, <4>1
      <4> QED
        BY <2>2, <4>1, <4>2
    <3> QED
      BY <3>1, <3>2
  <2>7. \A k \in 0..(j + 1) : g[k] = IF k = 0 THEN begun ELSE Perform(s, w, b, g[k - 1], k)
    <3>1. \A k \in 0..(j + 1) : k = 0 \/ k \in 1..(j + 1)
      OBVIOUS
    <3>2. \A k \in 1..(j + 1) : k # 0
      OBVIOUS
    <3> QED
      BY <2>5, <2>6, <3>1, <3>2
  <2>8. Told(j + 1)
    BY <2>4, <2>7
  <2> HIDE DEF Told
  <2> QED
    BY <2>8
<1> HIDE DEF T
<1>3. \A j \in Nat : j \in T
  BY <1>1, <1>2, NaturalsByInduction
<1> QED
  BY <1>3 DEF T

LEMMA ExecutionStep ==
  ASSUME NEW s, NEW w, NEW b, NEW begun, Len(Operations(s)) \in Nat
  PROVE  LET f == Performed(s, w, b, begun)
         IN  /\ f[0] = begun
             /\ \A k \in 1..Len(Operations(s)) : f[k] = Perform(s, w, b, f[k - 1], k)
<1>1. \E f : TellsExecution(f, Len(Operations(s)), s, w, b, begun)
  BY ExecutionsExist
<1>2. \E f : f = [n \in 0..Len(Operations(s)) |->
                    IF n = 0 THEN begun ELSE Perform(s, w, b, f[n - 1], n)]
  BY <1>1, Zenon DEF TellsExecution
<1> DEFINE f == Performed(s, w, b, begun)
<1>3. f = [n \in 0..Len(Operations(s)) |->
             IF n = 0 THEN begun ELSE Perform(s, w, b, f[n - 1], n)]
  BY <1>2, Zenon DEF Performed
<1> HIDE DEF f
<1>4. f[0] = begun /\ \A k \in 1..Len(Operations(s)) : f[k] = Perform(s, w, b, f[k - 1], k)
  BY <1>3
<1> QED
  BY <1>4 DEF f

\* The checks of a name among the first n operations.
NamedAmong(s, n, m) == {i \in 1..n : IsCheck(Operations(s)[i]) /\ Operations(s)[i].name = m}

\* What the result r remembers of the named checks among the first n operations.
Remembered(s, w, n, r) ==
  /\ DOMAIN r.outputs = DOMAIN r.checks
  /\ \A m : m \in DOMAIN r.checks <=> m # None /\ NamedAmong(s, n, m) # {}
  /\ \A m \in DOMAIN r.checks :
       /\ r.checks[m] => \A i \in NamedAmong(s, n, m) : Asks(Operations(s)[i])
       /\ r.outputs[m] \subseteq ShownBy(s, w, NamedAmong(s, n, m))

\* The result r of the first n operations of s, begun with what was asserted and
\* printed before them, accounts for each.
Accounts(s, w, asserts, printed, n, r) ==
  /\ IsResult(r) /\ r.error = FALSE /\ asserts \subseteq r.asserts
  /\ FALSE \notin r.asserts =>
       /\ \A i \in 1..n : Answers(s, i, w.answers[i])
       /\ r.seen = printed \cup ShownBy(s, w, 1..n)
       /\ r.fixtures = Standing(s, n + 1)
       /\ Remembered(s, w, n, r)

LEMMA NamedNext ==
  ASSUME NEW s, NEW n \in Nat, NEW m
  PROVE  NamedAmong(s, n + 1, m) =
           NamedAmong(s, n, m) \cup
           (IF IsCheck(Operations(s)[n + 1]) /\ Operations(s)[n + 1].name = m THEN {n + 1} ELSE {})
<1>1. 1..(n + 1) = 1..n \cup {n + 1}
  OBVIOUS
<1> QED
  BY <1>1 DEF NamedAmong

LEMMA ShownNext ==
  ASSUME NEW s, NEW w, NEW I, NEW k
  PROVE  ShownBy(s, w, I \cup {k}) = ShownBy(s, w, I) \cup Shown(s, k, w.answers[k])
BY DEF ShownBy

LEMMA StandingNext ==
  ASSUME NEW s, NEW n \in Nat
  PROVE  Standing(s, (n + 1) + 1) =
           Standing(s, n + 1) \cup
           (IF Operations(s)[n + 1].kind = "fixture" THEN {Operations(s)[n + 1].fixture} ELSE {})
<1>1. 1..(((n + 1) + 1) - 1) = 1..((n + 1) - 1) \cup {n + 1}
  OBVIOUS
<1> DEFINE I == 1..((n + 1) - 1)
           J == 1..(((n + 1) + 1) - 1)
<1> HIDE DEF I, J
<1>2. {Operations(s)[j].fixture : j \in {k \in J : Operations(s)[k].kind = "fixture"}} =
      {Operations(s)[j].fixture : j \in {k \in I : Operations(s)[k].kind = "fixture"}} \cup
      (IF Operations(s)[n + 1].kind = "fixture" THEN {Operations(s)[n + 1].fixture} ELSE {})
  BY <1>1 DEF I, J
<1> QED
  BY <1>2 DEF Standing, I, J

LEMMA RememberedStep ==
  ASSUME NEW s, NEW w, NEW n \in Nat, NEW r, NEW q, Remembered(s, w, n, r),
         LET op == Operations(s)[n + 1]
         IN IF IsCheck(op) /\ op.name # None
            THEN Remembers(r, q, op.name, Asks(op), Shown(s, n + 1, w.answers[n + 1]))
            ELSE q.checks = r.checks /\ q.outputs = r.outputs
  PROVE  Remembered(s, w, n + 1, q)
<1> DEFINE op == Operations(s)[n + 1]
           N(m) == NamedAmong(s, n, m)
           M(m) == NamedAmong(s, n + 1, m)
<1>0. /\ DOMAIN r.outputs = DOMAIN r.checks
      /\ \A m : m \in DOMAIN r.checks <=> m # None /\ N(m) # {}
      /\ \A m \in DOMAIN r.checks :
           /\ r.checks[m] => \A i \in N(m) : Asks(Operations(s)[i])
           /\ r.outputs[m] \subseteq ShownBy(s, w, N(m))
  BY Zenon DEF Remembered
<1>1. CASE ~(IsCheck(op) /\ op.name # None)
  <2>1. ASSUME NEW m, m # None PROVE M(m) = N(m)
    <3>1. M(m) = N(m) \cup {}
      BY <1>1, <2>1, NamedNext
    <3> QED
      BY <3>1
  <2>2. q.checks = r.checks /\ q.outputs = r.outputs
    BY <1>1
  <2> HIDE DEF op, M, N
  <2>3. /\ DOMAIN q.outputs = DOMAIN q.checks
        /\ \A m : m \in DOMAIN q.checks <=> m # None /\ M(m) # {}
    <3>1. DOMAIN q.outputs = DOMAIN q.checks
      BY <1>0, <2>2
    <3>2. ASSUME NEW m PROVE m \in DOMAIN q.checks <=> m # None /\ M(m) # {}
      <4>1. m \in DOMAIN q.checks <=> m # None /\ N(m) # {}
        BY <1>0, <2>2
      <4>2. m # None => M(m) = N(m)
        BY <2>1
      <4> QED
        BY <4>1, <4>2
    <3> QED
      BY <3>1, <3>2
  <2>4. ASSUME NEW m \in DOMAIN q.checks
        PROVE  /\ q.checks[m] => \A i \in M(m) : Asks(Operations(s)[i])
               /\ q.outputs[m] \subseteq ShownBy(s, w, M(m))
    <3>1. m \in DOMAIN r.checks /\ M(m) = N(m)
      BY <1>0, <2>1, <2>2, <2>4
    <3> QED
      BY <1>0, <2>2, <3>1
  <2> QED
    BY <2>3, <2>4 DEF Remembered, M
<1>2. CASE IsCheck(op) /\ op.name # None
  <2> DEFINE c == op.name
             shown == Shown(s, n + 1, w.answers[n + 1])
  <2>1. Remembers(r, q, c, Asks(op), shown)
    BY <1>2
  <2>2. M(c) = N(c) \cup {n + 1} /\ \A m : m # c => M(m) = N(m)
    <3>1. M(c) = N(c) \cup {n + 1}
      BY <1>2, NamedNext
    <3>2. ASSUME NEW m, m # c PROVE M(m) = N(m)
      <4>1. M(m) = N(m) \cup {}
        BY <3>2, NamedNext
      <4> QED
        BY <4>1
    <3> QED
      BY <3>1, <3>2
  <2>3. ShownBy(s, w, M(c)) = ShownBy(s, w, N(c)) \cup shown
    BY <2>2, ShownNext
  <2> HIDE DEF M, N, shown
  <2>5. DOMAIN q.outputs = DOMAIN q.checks /\ DOMAIN q.checks = DOMAIN r.checks \cup {c}
    BY <2>1 DEF Remembers
  <2>6. \A m : m \in DOMAIN q.checks <=> m # None /\ M(m) # {}
    BY <1>2, <2>2, <1>0, <2>5
  <2>7. ASSUME NEW m \in DOMAIN q.checks, m # c
        PROVE  /\ q.checks[m] => \A i \in M(m) : Asks(Operations(s)[i])
               /\ q.outputs[m] \subseteq ShownBy(s, w, M(m))
    <3>1. m \in DOMAIN r.checks \ {c} /\ M(m) = N(m)
      BY <2>2, <2>5, <2>7
    <3>2. q.checks[m] = r.checks[m] /\ q.outputs[m] = r.outputs[m]
      BY <2>1, <1>0, <3>1 DEF Remembers
    <3> QED
      BY <1>0, <3>1, <3>2
  <2>8. q.checks[c] => \A i \in M(c) : Asks(Operations(s)[i])
    <3> SUFFICES ASSUME q.checks[c], NEW i \in M(c) PROVE Asks(Operations(s)[i])
      OBVIOUS
    <3>1. CASE i = n + 1
      BY <2>1, <3>1 DEF Remembers
    <3>2. CASE i # n + 1
      <4>1. i \in N(c) /\ c \in DOMAIN r.checks
        BY <1>2, <2>2, <1>0, <3>2
      <4>2. r.checks[c]
        BY <2>1, <4>1 DEF Remembers
      <4> QED
        BY <1>0, <4>1, <4>2
    <3> QED
      BY <3>1, <3>2
  <2>9. q.outputs[c] \subseteq ShownBy(s, w, M(c))
    <3>1. q.outputs[c] = shown \cup (IF c \in DOMAIN r.outputs THEN r.outputs[c] ELSE {})
      BY <2>1 DEF Remembers
    <3>2. c \in DOMAIN r.outputs => r.outputs[c] \subseteq ShownBy(s, w, N(c))
      BY <1>0
    <3> QED
      BY <2>3, <3>1, <3>2
  <2> QED
    BY <2>5, <2>6, <2>7, <2>8, <2>9 DEF Remembered, M
<1> QED
  BY <1>1, <1>2

LEMMA AccountsStep ==
  ASSUME NEW s, NEW w, NEW b, NEW asserts, NEW printed, NEW n \in Nat, NEW r,
         Accounts(s, w, asserts, printed, n, r), None \notin Int
  PROVE  Accounts(s, w, asserts, printed, n + 1, Perform(s, w, b, r, n + 1))
<1> DEFINE op == Operations(s)[n + 1]
           a == w.answers[n + 1]
           q == Perform(s, w, b, r, n + 1)
<1>1. IsResult(r)
  BY DEF Accounts
<1>2. Follows(s, n + 1, a, r, q)
  BY <1>1, PerformFollows
<1> HIDE DEF q
<1>3. IsResult(q) /\ q.error = FALSE /\ asserts \subseteq q.asserts /\ r.asserts \subseteq q.asserts
  BY <1>2 DEF Follows, Accounts
<1>4. ASSUME FALSE \notin q.asserts
      PROVE  /\ \A i \in 1..(n + 1) : Answers(s, i, w.answers[i])
             /\ q.seen = printed \cup ShownBy(s, w, 1..(n + 1))
             /\ q.fixtures = Standing(s, (n + 1) + 1)
             /\ Remembered(s, w, n + 1, q)
  <2>1. /\ \A i \in 1..n : Answers(s, i, w.answers[i])
        /\ r.seen = printed \cup ShownBy(s, w, 1..n)
        /\ r.fixtures = Standing(s, n + 1)
        /\ Remembered(s, w, n, r)
    BY <1>3, <1>4 DEF Accounts
  <2>2. /\ Answers(s, n + 1, a)
        /\ q.seen = r.seen \cup Shown(s, n + 1, a)
        /\ q.fixtures = r.fixtures \cup (IF op.kind = "fixture" THEN {op.fixture} ELSE {})
        /\ IF IsCheck(op) /\ op.name # None
           THEN Remembers(r, q, op.name, Asks(op), Shown(s, n + 1, a))
           ELSE q.checks = r.checks /\ q.outputs = r.outputs
    BY <1>2, <1>4, <2>1 DEF Follows
  <2>3. 1..(n + 1) = 1..n \cup {n + 1}
    OBVIOUS
  <2>4. \A i \in 1..(n + 1) : Answers(s, i, w.answers[i])
    BY <2>1, <2>2, <2>3
  <2>5. q.seen = printed \cup ShownBy(s, w, 1..(n + 1))
    <3>1. ShownBy(s, w, 1..(n + 1)) = ShownBy(s, w, 1..n) \cup Shown(s, n + 1, a)
      BY <2>3, ShownNext
    <3> QED
      BY <2>1, <2>2, <3>1
  <2>6. q.fixtures = Standing(s, (n + 1) + 1)
    BY <2>1, <2>2, StandingNext
  <2>7. Remembered(s, w, n + 1, q)
    BY <2>1, <2>2, RememberedStep
  <2> QED
    BY <2>4, <2>5, <2>6, <2>7
<1>5. Accounts(s, w, asserts, printed, n + 1, q)
  BY <1>3, <1>4 DEF Accounts
<1> QED
  BY <1>5 DEF q

LEMMA AccountsAll ==
  ASSUME NEW s, Len(Operations(s)) \in Nat, NEW w, NEW b, NEW asserts, NEW printed, NEW begun,
         Accounts(s, w, asserts, printed, 0, begun), None \notin Int
  PROVE  \A n \in 0..Len(Operations(s)) :
           Accounts(s, w, asserts, printed, n, Performed(s, w, b, begun)[n])
<1> DEFINE f == Performed(s, w, b, begun)
           L == Len(Operations(s))
           T == {n \in Nat : n <= L => Accounts(s, w, asserts, printed, n, f[n])}
<1>1. f[0] = begun /\ \A k \in 1..L : f[k] = Perform(s, w, b, f[k - 1], k)
  BY ExecutionStep
<1> HIDE DEF f, L
<1>2. L \in Nat
  BY DEF L
<1>3. 0 \in T
  BY <1>1
<1>4. ASSUME NEW n \in Nat, n \in T
      PROVE  n + 1 \in T
  <2>1. SUFFICES ASSUME n + 1 <= L PROVE Accounts(s, w, asserts, printed, n + 1, f[n + 1])
    OBVIOUS
  <2>2. Accounts(s, w, asserts, printed, n, f[n])
    BY <1>2, <1>4, <2>1
  <2>3. n + 1 \in 1..L /\ (n + 1) - 1 = n
    BY <1>2, <2>1
  <2>4. f[n + 1] = Perform(s, w, b, f[n], n + 1)
    BY <1>1, <2>3
  <2> QED
    BY <2>2, <2>4, AccountsStep
<1> HIDE DEF T
<1>5. \A n \in Nat : n \in T
  BY <1>3, <1>4, NaturalsByInduction
<1> QED
  BY <1>2, <1>5 DEF T, f, L

-----------------------------------------------------------------------------
\* What a scenario begins with accounts for no operation.
LEMMA AccountsNone ==
  ASSUME NEW s, NEW w, NEW asserts, NEW printed
  PROVE  LET r == [Unobserved EXCEPT !.seen = printed, !.asserts = asserts]
         IN  IsResult(r) /\ Accounts(s, w, asserts, printed, 0, r)
<1> DEFINE r == [Unobserved EXCEPT !.seen = printed, !.asserts = asserts]
<1>0. PICK e : e = <<>> /\ DOMAIN e = {}
  OBVIOUS
<1> DEFINE u == [error |-> FALSE, ready |-> TRUE, asserts |-> {}, seen |-> {}, browser |-> None,
                 infrastructure |-> FALSE, fixtures |-> {}, checks |-> e, outputs |-> e,
                 claims |-> {}]
<1>7. u = Unobserved
  BY <1>0 DEF Unobserved
<1>8. u.error = FALSE /\ u.fixtures = {} /\ u.checks = e /\ u.outputs = e /\ IsResult(u)
  BY DEF IsResult
<1> HIDE DEF u
<1>9. r = [u EXCEPT !.seen = printed, !.asserts = asserts]
  BY <1>7
<1> HIDE DEF r
<1>1. /\ IsResult(r) /\ r.error = FALSE /\ r.fixtures = {} /\ r.checks = e /\ r.outputs = e
      /\ r.seen = printed /\ r.asserts = asserts
  BY <1>8, <1>9 DEF IsResult
<1>2. IsResult(r) /\ r.error = FALSE /\ asserts \subseteq r.asserts
  BY <1>1
<1>3. r.seen = printed \cup ShownBy(s, w, 1..0)
  <2>1. ShownBy(s, w, {}) = {}
    BY DEF ShownBy
  <2>2. 1..0 = {} /\ r.seen = printed
    BY <1>1
  <2> QED
    BY <2>1, <2>2
<1>4. r.fixtures = Standing(s, 0 + 1)
  <2>1. Standing(s, 0 + 1) = {}
    <3>1. \A x : x \notin Standing(s, 0 + 1)
      BY DEF Standing
    <3> QED
      BY <3>1
  <2>2. r.fixtures = {}
    BY <1>1
  <2> QED
    BY <2>1, <2>2
<1>5. Remembered(s, w, 0, r)
  <2>1. r.checks = e /\ r.outputs = e
    BY <1>1
  <2>2. DOMAIN r.checks = {} /\ DOMAIN r.outputs = {}
    BY <1>0, <2>1
  <2>3. \A m : NamedAmong(s, 0, m) = {}
    BY DEF NamedAmong
  <2> QED
    BY <2>2, <2>3 DEF Remembered
<1>6. \A i \in 1..0 : Answers(s, i, w.answers[i])
  OBVIOUS
<1> QED
  BY <1>2, <1>3, <1>4, <1>5, <1>6 DEF Accounts, r

LEMMA ConcludedIs ==
  ASSUME NEW s, NEW r, IsResult(r)
  PROVE  LET q == Concluded(s, r)
         IN  /\ q.error = r.error
             /\ q.asserts = r.asserts \cup (Printed(s.visible, r.seen) \cup
                                            Absent(s.forbidden, r.seen))
             /\ q.claims = {[category |-> c.category,
                             established |-> ClaimEstablished(c, r)] : c \in s.verifies}
<1> DEFINE found == Printed(s.visible, r.seen) \cup Absent(s.forbidden, r.seen)
           y == Asserted(r, found)
           C == {[category |-> c.category,
                  established |-> ClaimEstablished(c, r)] : c \in s.verifies}
           q == Concluded(s, r)
<1>1. q = [y EXCEPT !.claims = C]
  BY DEF Concluded
<1>2. y = [error |-> r.error, ready |-> r.ready, asserts |-> r.asserts \cup found,
           seen |-> r.seen, browser |-> r.browser, infrastructure |-> r.infrastructure,
           fixtures |-> r.fixtures, checks |-> r.checks, outputs |-> r.outputs,
           claims |-> r.claims]
  BY AssertedIs
<1> HIDE DEF q, y, C, found
<1>3. q.error = r.error /\ q.asserts = r.asserts \cup found /\ q.claims = C
  BY <1>1, <1>2
<1> QED
  BY <1>3 DEF q, C, found

LEMMA ClaimBornOut ==
  ASSUME NEW s, NEW w, NEW c \in s.verifies, Loadable(s), Listed(Operations(s)), NEW r,
         Remembered(s, w, Len(Operations(s)), r), ClaimEstablished(c, r),
         r.seen = RunAll(w.setup).prints \cup ShownBy(s, w, DOMAIN Operations(s))
  PROVE  BornOut(s, w, c)
<1> DEFINE L == Len(Operations(s))
<1>1. \A n : NamedAmong(s, L, n) = ChecksNamed(s, n)
  BY DEF NamedAmong, ChecksNamed, Listed
<1>2. /\ DOMAIN r.outputs = DOMAIN r.checks
      /\ \A m : m \in DOMAIN r.checks <=> m # None /\ NamedAmong(s, L, m) # {}
      /\ \A m \in DOMAIN r.checks :
           /\ r.checks[m] => \A i \in NamedAmong(s, L, m) : Asks(Operations(s)[i])
           /\ r.outputs[m] \subseteq ShownBy(s, w, NamedAmong(s, L, m))
  BY Zenon DEF Remembered
<1>3. \A n \in c.checks : n \in DOMAIN r.checks /\ r.checks[n]
  BY DEF ClaimEstablished
<1> HIDE DEF L
<1>4. \A n \in c.checks : /\ ChecksNamed(s, n) # {}
                          /\ \A i \in ChecksNamed(s, n) : Asks(Operations(s)[i])
  BY <1>1, <1>2, <1>3
<1>5. c.checks = {} =>
        c.observations \subseteq RunAll(w.setup).prints \cup ShownBy(s, w, DOMAIN Operations(s))
  BY DEF ClaimEstablished
<1>6. ASSUME c.checks # {}
      PROVE  c.observations \subseteq ShownBy(s, w, UNION {ChecksNamed(s, n) : n \in c.checks})
  <2>1. c.observations \subseteq UNION {r.outputs[n] : n \in c.checks \intersect DOMAIN r.outputs}
    BY <1>6 DEF ClaimEstablished
  <2>2. SUFFICES ASSUME NEW t \in c.observations
                 PROVE  t \in ShownBy(s, w, UNION {ChecksNamed(s, n) : n \in c.checks})
    OBVIOUS
  <2>3. PICK n \in c.checks \intersect DOMAIN r.outputs : t \in r.outputs[n]
    BY <2>1
  <2>4. t \in ShownBy(s, w, ChecksNamed(s, n))
    BY <1>1, <1>2, <2>3
  <2>5. PICK i \in ChecksNamed(s, n) : t \in Shown(s, i, w.answers[i])
    BY <2>4 DEF ShownBy
  <2>6. i \in UNION {ChecksNamed(s, m) : m \in c.checks}
    BY <2>5
  <2> QED
    BY <2>5, <2>6 DEF ShownBy
<1> QED
  BY <1>4, <1>5, <1>6 DEF BornOut

\* A scenario that passed was answered in everything it asks, and each claim that
\* is established is borne out.
LEMMA PassedMeans ==
  ASSUME NEW s, Listed(Operations(s)), NEW w, NEW b, NEW r, r = Execute(s, w, b),
         Verdict(r) = "PASSED", None \notin Int
  PROVE  /\ Met(s, w)
         /\ Loadable(s) => \A x \in r.claims : x.established =>
                             \E c \in s.verifies : c.category = x.category /\ BornOut(s, w, c)
<1> DEFINE ops == Operations(s)
           L == Len(ops)
           setup == RunAll(w.setup)
           present == Printed(s.files, w.files)
           begun == [Unobserved EXCEPT !.seen = setup.prints, !.asserts = present]
           ready == Ready(s.readiness, w.polls) /\ w.died \intersect s.services = {}
           stops == Interrupted(s, w, b)
           F == Performed(s, w, b, begun)
           last == IF stops = {} THEN L
                   ELSE (CHOOSE i \in stops : \A j \in stops : i <= j) - 1
           q == F[last]
<1>1. r = (IF ~setup.ok THEN [Unobserved EXCEPT !.error = TRUE, !.seen = setup.prints]
           ELSE IF (s.services # {} \/ s.readiness # {}) /\ ~ready
           THEN [begun EXCEPT !.error = TRUE, !.ready = FALSE]
           ELSE IF stops # {} THEN [q EXCEPT !.error = TRUE]
           ELSE Concluded(s, q))
  BY DEF Execute
<1>2. ~r.error /\ FALSE \notin r.asserts
  BY DEF Verdict, ScenarioPassed, AllPassed
<1>3. L \in Nat /\ DOMAIN ops = 1..L
  BY DEF Listed
<1>4. IsResult(begun) /\ Accounts(s, w, present, setup.prints, 0, begun)
  BY AccountsNone
<1>5. \A n \in 0..L : Accounts(s, w, present, setup.prints, n, F[n])
  <2> HIDE DEF begun, present, setup
  <2> QED
    BY <1>3, <1>4, AccountsAll
<1>6. last \in 0..L
  <2>1. stops \subseteq 1..L /\ stops \subseteq Nat
    BY <1>3 DEF Interrupted
  <2> HIDE DEF stops, L
  <2>2. stops # {} => \E i \in stops : \A j \in stops : i <= j
    BY <2>1, HasLeast
  <2>3. CASE stops = {}
    BY <1>3, <2>3 DEF L
  <2>4. CASE stops # {}
    <3>1. PICK i \in stops : last = i - 1
      BY <2>2, <2>4
    <3>2. i \in 1..L
      BY <2>1, <3>1
    <3> HIDE DEF last
    <3> QED
      BY <1>3, <3>1, <3>2
  <2> QED
    BY <2>3, <2>4
<1> HIDE DEF F, last, stops, setup, present
<1>7. Accounts(s, w, present, setup.prints, last, q)
  BY <1>5, <1>6
<1>8. IsResult(q)
  BY <1>7 DEF Accounts
<1>9. setup.ok
  <2>1. [Unobserved EXCEPT !.error = TRUE, !.seen = setup.prints].error = TRUE
    BY DEF Unobserved
  <2> QED
    BY <1>1, <1>2, <2>1
<1>10. (s.services = {} /\ s.readiness = {}) \/ ready
  <2>1. [begun EXCEPT !.error = TRUE, !.ready = FALSE].error = TRUE
    <3> HIDE DEF begun
    <3> QED
      BY <1>4 DEF IsResult
  <2> QED
    BY <1>1, <1>2, <1>9, <2>1
<1>11. stops = {}
  <2>1. [q EXCEPT !.error = TRUE].error = TRUE
    BY <1>8 DEF IsResult
  <2> QED
    BY <1>1, <1>2, <1>9, <1>10, <2>1
<1>12. r = Concluded(s, q) /\ last = L
  BY <1>1, <1>9, <1>10, <1>11 DEF last
<1> HIDE DEF q, begun
<1>13. /\ r.asserts = q.asserts \cup (Printed(s.visible, q.seen) \cup
                                      Absent(s.forbidden, q.seen))
       /\ r.claims = {[category |-> c.category,
                       established |-> ClaimEstablished(c, q)] : c \in s.verifies}
  BY <1>8, <1>12, ConcludedIs
<1>14. /\ FALSE \notin present /\ FALSE \notin Printed(s.visible, q.seen)
       /\ FALSE \notin Absent(s.forbidden, q.seen)
       /\ \A i \in 1..L : Answers(s, i, w.answers[i])
       /\ q.seen = setup.prints \cup ShownBy(s, w, 1..L)
       /\ Remembered(s, w, L, q)
  BY <1>2, <1>7, <1>12, <1>13 DEF Accounts
<1>15. Met(s, w)
  <2>1. s.visible \subseteq q.seen /\ s.forbidden \intersect q.seen = {}
    BY <1>14, PrintedAll, AbsentAll
  <2>2. s.files \subseteq w.files
    BY <1>14, PrintedAll DEF present
  <2>3. ready
    BY <1>10 DEF Ready
  <2>4. w.raises \intersect DOMAIN ops = {}
    BY <1>11 DEF stops, Interrupted
  <2>5. q.seen = RunAll(w.setup).prints \cup ShownBy(s, w, DOMAIN ops)
    BY <1>3, <1>14 DEF setup
  <2>6. \A i \in DOMAIN ops : Answers(s, i, w.answers[i])
    BY <1>3, <1>14
  <2>7. RunAll(w.setup).ok
    BY <1>9 DEF setup
  <2> QED
    BY <2>1, <2>2, <2>3, <2>4, <2>5, <2>6, <2>7 DEF Met
<1>16. ASSUME Loadable(s), NEW x \in r.claims, x.established
       PROVE  \E c \in s.verifies : c.category = x.category /\ BornOut(s, w, c)
  <2>1. PICK c \in s.verifies :
          x = [category |-> c.category, established |-> ClaimEstablished(c, q)]
    BY <1>13
  <2>2. x.category = c.category /\ ClaimEstablished(c, q)
    BY <1>16, <2>1
  <2>3. q.seen = RunAll(w.setup).prints \cup ShownBy(s, w, DOMAIN ops)
    BY <1>3, <1>14 DEF setup
  <2>4. BornOut(s, w, c)
    BY <1>14, <1>16, <2>2, <2>3, ClaimBornOut
  <2> QED
    BY <2>2, <2>4
<1> QED
  BY <1>15, <1>16

-----------------------------------------------------------------------------
(* The suite.                                                              *)

\* An outcome that stands measures every risk it is taken to cover.
OutcomeSound(x) ==
  /\ x = [id |-> x.id, result |-> x.result, verified |-> x.verified, category |-> x.category,
          claims |-> x.claims, held |-> x.held, measures |-> x.measures]
  /\ Established(x) =>
       \A c : c # None /\ (x.category = c \/ c \in x.held) => c \in x.measures

OutcomesSound(outcomes) == \A x \in outcomes : OutcomeSound(x)

EntryOk(e) ==
  /\ Listed(Operations(e.scenario)) /\ e.rank \in Nat /\ e.permanent \in BOOLEAN
  /\ e.permanent => Loadable(e.scenario) /\ e.category = None

LEMMA CaseSound ==
  ASSUME NEW e, EntryOk(e), NEW w, NEW b, NEW v \in BOOLEAN, None \notin Int
  PROVE  OutcomeSound(CaseOutcome(e, Execute(e.scenario, w, b), v, Measures(e, w)))
<1> DEFINE s == e.scenario
           r == Execute(s, w, b)
           m == Measures(e, w)
           claims == IF e.permanent THEN {c.category : c \in r.claims} ELSE {}
           held == IF e.permanent
                   THEN {c.category : c \in {y \in r.claims : y.established}} ELSE {}
           x == CaseOutcome(e, r, v, m)
<1> HIDE DEF r, m
<1>1. x = [id |-> e.id, result |-> IF Verdict(r) = "PASSED" /\ ~v THEN "BLOCKED" ELSE Verdict(r),
           verified |-> v, category |-> e.category, claims |-> claims, held |-> held,
           measures |-> m]
  BY DEF CaseOutcome
<1> HIDE DEF x, claims, held
<1>2. /\ x = [id |-> x.id, result |-> x.result, verified |-> x.verified, category |-> x.category,
              claims |-> x.claims, held |-> x.held, measures |-> x.measures]
      /\ Established(x) => Verdict(r) = "PASSED"
      /\ x.category = e.category /\ x.held = held /\ x.measures = m
  BY <1>1 DEF Established
<1>3. ASSUME Established(x), NEW c, c # None, e.category = c \/ c \in held
      PROVE  c \in m
  <2>1. /\ Met(s, w)
        /\ Loadable(s) => \A y \in r.claims : y.established =>
                            \E d \in s.verifies : d.category = y.category /\ BornOut(s, w, d)
    BY <1>2, <1>3, PassedMeans DEF EntryOk, r
  <2>2. m = {d.category : d \in {y \in s.verifies : BornOut(s, w, y)}}
            \union (IF e.permanent THEN {} ELSE {e.category})
    BY <2>1 DEF m, Measures
  <2>3. CASE e.permanent
    <3>1. c \in held /\ Loadable(s)
      BY <1>3, <2>3 DEF EntryOk
    <3>2. PICK y \in r.claims : y.established /\ y.category = c
      BY <2>3, <3>1 DEF held
    <3>3. PICK d \in s.verifies : d.category = c /\ BornOut(s, w, d)
      BY <2>1, <3>1, <3>2
    <3> QED
      BY <2>2, <3>3
  <2>4. CASE ~e.permanent
    <3>1. c = e.category
      BY <1>3, <2>4 DEF held
    <3> QED
      BY <2>2, <2>4, <3>1
  <2> QED
    BY <2>3, <2>4
<1>4. OutcomeSound(x)
  BY <1>2, <1>3 DEF OutcomeSound
<1> QED
  BY <1>4 DEF x, r, m

LEMMA NotRunSound ==
  ASSUME NEW e, NEW what
  PROVE  OutcomeSound(NotRun(e, what))
<1> DEFINE x == NotRun(e, what)
<1>1. x = [id |-> e.id, result |-> what, verified |-> FALSE, category |-> e.category,
           claims |-> {}, held |-> {}, measures |-> {}]
  BY DEF NotRun
<1> HIDE DEF x
<1>2. /\ x = [id |-> x.id, result |-> x.result, verified |-> x.verified, category |-> x.category,
              claims |-> x.claims, held |-> x.held, measures |-> x.measures]
      /\ ~Established(x)
  BY <1>1 DEF Established
<1> QED
  BY <1>2 DEF OutcomeSound, x

LEMMA DisownSound ==
  ASSUME NEW xs, OutcomesSound(xs), NEW occupant
  PROVE  OutcomesSound(Disown(xs, occupant))
<1> SUFFICES ASSUME NEW y \in Disown(xs, occupant) PROVE OutcomeSound(y)
  BY DEF OutcomesSound
<1>1. PICK x \in xs :
        y = IF x.id = occupant /\ x.verified
            THEN [x EXCEPT !.verified = FALSE,
                           !.result = IF @ = "PASSED" THEN "BLOCKED" ELSE @]
            ELSE x
  BY DEF Disown
<1>2. OutcomeSound(x)
  BY DEF OutcomesSound
<1>3. CASE ~(x.id = occupant /\ x.verified)
  BY <1>1, <1>2, <1>3
<1>4. CASE x.id = occupant /\ x.verified
  <2> DEFINE res == IF x.result = "PASSED" THEN "BLOCKED" ELSE x.result
  <2> HIDE DEF res
  <2>1. y = [x EXCEPT !.verified = FALSE, !.result = res]
    BY <1>1, <1>4 DEF res
  <2>2. x = [id |-> x.id, result |-> x.result, verified |-> x.verified, category |-> x.category,
             claims |-> x.claims, held |-> x.held, measures |-> x.measures]
    BY <1>2 DEF OutcomeSound
  <2>3. y = [id |-> x.id, result |-> res, verified |-> FALSE, category |-> x.category,
             claims |-> x.claims, held |-> x.held, measures |-> x.measures]
    BY <2>1, <2>2
  <2>4. /\ y = [id |-> y.id, result |-> y.result, verified |-> y.verified,
                category |-> y.category, claims |-> y.claims, held |-> y.held,
                measures |-> y.measures]
        /\ ~Established(y)
    BY <2>3 DEF Established
  <2> QED
    BY <2>4 DEF OutcomeSound
<1> QED
  BY <1>3, <1>4

\* A run of the suite, so far.
RunSound(run) ==
  /\ run = [outcomes |-> run.outcomes, problems |-> run.problems, claimed |-> run.claimed,
            started |-> run.started, left |-> run.left]
  /\ OutcomesSound(run.outcomes)

LEMMA RunEntrySound ==
  ASSUME NEW e, EntryOk(e), NEW world, NEW b, NEW run, RunSound(run), None \notin Int
  PROVE  LET q == RunEntry(e, world, b, run)
         IN  RunSound(q) /\ q.left = run.left
<1> DEFINE occupant == Occupant(e, run.claimed, world.records)
           skipped == NotRun(e, "SKIPPED")
           blocked == NotRun(e, "BLOCKED")
           v == EvidenceStandsFor(e, world)
           w == world.of[e.id]
           x == CaseOutcome(e, Execute(e.scenario, w, b), v, Measures(e, w))
           now == [k \in DOMAIN run.claimed \union {e.key} |->
                     IF k = e.key THEN e.id ELSE run.claimed[k]]
           gone == Disown(run.outcomes, occupant) \union {blocked}
           q == RunEntry(e, world, b, run)
<1>1. \/ q = [run EXCEPT !.outcomes = run.outcomes \union {skipped}]
      \/ q = [run EXCEPT !.outcomes = gone, !.problems = TRUE]
      \/ q = [run EXCEPT !.outcomes = run.outcomes \union {x}, !.claimed = now,
                         !.started = run.started + 1]
  BY DEF RunEntry
<1>2. v \in BOOLEAN
  BY DEF EvidenceStandsFor
<1>3. OutcomeSound(skipped) /\ OutcomeSound(blocked)
  BY NotRunSound
<1>4. OutcomeSound(x)
  <2> HIDE DEF v, w
  <2> QED
    BY <1>2, CaseSound
<1>5. OutcomesSound(Disown(run.outcomes, occupant))
  BY DisownSound DEF RunSound
<1> DEFINE more == run.started + 1
<1>6. OutcomesSound(gone)
  <2> HIDE DEF blocked, occupant
  <2> QED
    BY <1>3, <1>5 DEF OutcomesSound
<1> HIDE DEF q, x, skipped, now, gone, more
<1>7. /\ OutcomesSound(run.outcomes)
      /\ run = [outcomes |-> run.outcomes, problems |-> run.problems, claimed |-> run.claimed,
                started |-> run.started, left |-> run.left]
  BY DEF RunSound
<1>8. ASSUME q = [run EXCEPT !.outcomes = run.outcomes \union {skipped}]
      PROVE  RunSound(q) /\ q.left = run.left
  <2>1. q = [outcomes |-> run.outcomes \union {skipped}, problems |-> run.problems,
             claimed |-> run.claimed, started |-> run.started, left |-> run.left]
    BY <1>7, <1>8
  <2>2. OutcomesSound(run.outcomes \union {skipped})
    BY <1>3, <1>7 DEF OutcomesSound
  <2> QED
    BY <2>1, <2>2 DEF RunSound
<1>9. ASSUME q = [run EXCEPT !.outcomes = gone, !.problems = TRUE]
      PROVE  RunSound(q) /\ q.left = run.left
  <2>1. q = [outcomes |-> gone, problems |-> TRUE,
             claimed |-> run.claimed, started |-> run.started, left |-> run.left]
    BY <1>7, <1>9
  <2> QED
    BY <1>6, <2>1 DEF RunSound
<1>10. ASSUME q = [run EXCEPT !.outcomes = run.outcomes \union {x}, !.claimed = now,
                              !.started = more]
       PROVE  RunSound(q) /\ q.left = run.left
  <2>1. q = [outcomes |-> run.outcomes \union {x}, problems |-> run.problems,
             claimed |-> now, started |-> more, left |-> run.left]
    BY <1>7, <1>10
  <2>2. OutcomesSound(run.outcomes \union {x})
    BY <1>4, <1>7 DEF OutcomesSound
  <2> QED
    BY <2>1, <2>2 DEF RunSound
<1>11. RunSound(q) /\ q.left = run.left
  BY <1>1, <1>8, <1>9, <1>10 DEF more
<1> QED
  BY <1>11 DEF q

\* Of the entries that are left, one comes first.
LEMMA FirstIs ==
  ASSUME NEW suite, NEW left, left \subseteq Nat, left # {},
         \A i \in left : suite.entries[i].rank \in Nat /\ suite.entries[i].permanent \in BOOLEAN
  PROVE  FirstOf(suite, left) \in left
<1> DEFINE rank(i) == suite.entries[i].rank
           ranks == {rank(i) : i \in left}
<1>1. ranks \subseteq Nat /\ ranks # {}
  OBVIOUS
<1>2. PICK m \in ranks : \A k \in ranks : m <= k
  <2> HIDE DEF ranks
  <2> QED
    BY <1>1, HasLeast
<1> DEFINE A == {i \in left : rank(i) = m}
           H == {i \in A : suite.entries[i].permanent}
           B == IF H # {} THEN H ELSE A
<1>3. m \in Nat /\ A # {} /\ \A i \in left : m <= rank(i)
  BY <1>1, <1>2
<1>4. B \subseteq left /\ B # {}
  BY <1>3
<1>5. PICK i \in B : \A j \in B : i <= j
  <2> HIDE DEF B
  <2>1. B \subseteq Nat
    BY <1>4
  <2> QED
    BY <1>4, <2>1, HasLeast
<1>6. ASSUME NEW j \in left \ {i}
      PROVE  Before(suite, i, j)
  <2>1. i \in left /\ rank(i) = m
    BY <1>4, <1>5
  <2>2. CASE rank(j) # m
    <3>0. j \in left
      BY <1>6
    <3>1. m \in Nat /\ rank(j) \in Nat /\ m <= rank(j) /\ rank(j) # m
      BY <1>3, <2>2, <3>0
    <3>2. m < rank(j)
      <4> HIDE DEF rank
      <4> QED
        BY <3>1
    <3> QED
      BY <2>1, <2>2, <3>2 DEF Before
  <2>3. CASE rank(j) = m /\ j \notin B
    <3>1. j \in A /\ H # {} /\ ~suite.entries[j].permanent /\ suite.entries[i].permanent
      BY <1>5, <2>3
    <3> QED
      BY <2>1, <2>3, <3>1 DEF Before
  <2>4. CASE rank(j) = m /\ j \in B
    <3>1. i < j
      BY <1>4, <1>5, <2>4
    <3>2. suite.entries[i].permanent = suite.entries[j].permanent
      <4>1. CASE H = {}
        <5>1. ~suite.entries[i].permanent /\ ~suite.entries[j].permanent
          BY <1>5, <2>4, <4>1
        <5> QED
          BY <1>4, <1>5, <2>4, <5>1
      <4>2. CASE H # {}
        <5>1. suite.entries[i].permanent /\ suite.entries[j].permanent
          BY <1>5, <2>4, <4>2
        <5> QED
          BY <1>4, <1>5, <2>4, <5>1
      <4> QED
        BY <4>1, <4>2
    <3> QED
      BY <2>1, <2>4, <3>1, <3>2 DEF Before
  <2> QED
    BY <2>2, <2>3, <2>4
<1>7. \E k \in left : \A j \in left \ {k} : Before(suite, k, j)
  BY <1>4, <1>5, <1>6
<1> QED
  BY <1>7 DEF FirstOf

-----------------------------------------------------------------------------
LEMMA ListedIs == \A q : Listed(q) <=> IsSequence(q)
BY DEF Listed, IsSequence

\* What the next scenario makes of the suite u.
NoEntries == [entries |-> <<>>, conflict |-> FALSE]

Building(u, n, permanent, plan, base, approved) ==
  IF n <= Len(permanent) THEN Admit(u, PermanentEntry(permanent[n]))
  ELSE IF Compiles(plan[n - Len(permanent)], base, approved)
  THEN Admit(u, GeneratedEntry(plan[n - Len(permanent)], base))
  ELSE [u EXCEPT !.conflict = TRUE]

\* f tells the suite after each of the first n scenarios.
TellsSuite(f, n, permanent, plan, base, approved) ==
  f = [k \in 0..n |-> IF k = 0 THEN NoEntries ELSE Building(f[k - 1], k, permanent, plan, base, approved)]

LEMMA SuitesExist ==
  ASSUME NEW permanent, NEW plan, NEW base, NEW approved
  PROVE  \A n \in Nat : \E f : TellsSuite(f, n, permanent, plan, base, approved)
<1> USE DEF TellsSuite
<1> DEFINE Told(j) == \E f : TellsSuite(f, j, permanent, plan, base, approved)
           T == {j \in Nat : Told(j)}
<1>1. 0 \in T
  <2>1. Told(0)
    <3> WITNESS [k \in 0..0 |-> NoEntries]
    <3> QED
      OBVIOUS
  <2> HIDE DEF Told
  <2> QED
    BY <2>1
<1>2. ASSUME NEW j \in Nat, j \in T
      PROVE  j + 1 \in T
  <2>1. PICK f : TellsSuite(f, j, permanent, plan, base, approved)
    BY <1>2
  <2> DEFINE new == Building(f[j], j + 1, permanent, plan, base, approved)
             g == [k \in 0..(j + 1) |-> IF k = j + 1 THEN new ELSE f[k]]
  <2>2. \A k \in 0..j : f[k] = IF k = 0 THEN NoEntries ELSE Building(f[k - 1], k, permanent, plan, base, approved)
    BY <2>1
  <2> HIDE DEF new
  <2>3. g[j + 1] = new /\ \A k \in 0..j : g[k] = f[k]
    BY j + 1 \notin 0..j
  <2>4. g = [k \in 0..(j + 1) |-> g[k]]
    OBVIOUS
  <2> HIDE DEF g
  <2>5. g[0] = NoEntries
    BY <2>2, <2>3, 0 \in 0..j
  <2>6. ASSUME NEW k \in 1..(j + 1)
        PROVE  g[k] = Building(g[k - 1], k, permanent, plan, base, approved)
    <3>1. CASE k = j + 1
      <4>1. k - 1 = j /\ j \in 0..j
        BY <3>1
      <4> QED
        BY <2>3, <3>1, <4>1 DEF new
    <3>2. CASE k # j + 1
      <4>1. k \in 0..j /\ k - 1 \in 0..j /\ k # 0
        BY <3>2
      <4>2. g[k] = f[k] /\ g[k - 1] = f[k - 1]
        BY <2>3, <4>1
      <4> QED
        BY <2>2, <4>1, <4>2
    <3> QED
      BY <3>1, <3>2
  <2>7. \A k \in 0..(j + 1) : g[k] = IF k = 0 THEN NoEntries ELSE Building(g[k - 1], k, permanent, plan, base, approved)
    <3>1. \A k \in 0..(j + 1) : k = 0 \/ k \in 1..(j + 1)
      OBVIOUS
    <3>2. \A k \in 1..(j + 1) : k # 0
      OBVIOUS
    <3> QED
      BY <2>5, <2>6, <3>1, <3>2
  <2>8. Told(j + 1)
    BY <2>4, <2>7
  <2> HIDE DEF Told
  <2> QED
    BY <2>8
<1> HIDE DEF T
<1>3. \A j \in Nat : j \in T
  BY <1>1, <1>2, NaturalsByInduction
<1> QED
  BY <1>3 DEF T

LEMMA SuiteStep ==
  ASSUME NEW permanent, NEW plan, NEW base, NEW approved,
         Len(permanent) \in Nat, Len(plan) \in Nat
  PROVE  LET f == Built(permanent, plan, base, approved)
         IN  /\ f[0] = NoEntries
             /\ \A k \in 1..(Len(permanent) + Len(plan)) :
                  f[k] = Building(f[k - 1], k, permanent, plan, base, approved)
<1> DEFINE f == Built(permanent, plan, base, approved)
<1>1. \E g : TellsSuite(g, Len(permanent) + Len(plan), permanent, plan, base, approved)
  <2>1. PICK N \in Nat : N = Len(permanent) + Len(plan)
    OBVIOUS
  <2>2. \E g : TellsSuite(g, N, permanent, plan, base, approved)
    BY SuitesExist
  <2> QED
    BY <2>1, <2>2
<1>2. \E g : g = [n \in 0..(Len(permanent) + Len(plan)) |->
        IF n = 0 THEN [entries |-> <<>>, conflict |-> FALSE]
        ELSE IF n <= Len(permanent) THEN Admit(g[n - 1], PermanentEntry(permanent[n]))
        ELSE IF Compiles(plan[n - Len(permanent)], base, approved)
        THEN Admit(g[n - 1], GeneratedEntry(plan[n - Len(permanent)], base))
        ELSE [g[n - 1] EXCEPT !.conflict = TRUE]]
  BY <1>1, Zenon DEF TellsSuite, Building, NoEntries
<1>3. f = [n \in 0..(Len(permanent) + Len(plan)) |->
        IF n = 0 THEN [entries |-> <<>>, conflict |-> FALSE]
        ELSE IF n <= Len(permanent) THEN Admit(f[n - 1], PermanentEntry(permanent[n]))
        ELSE IF Compiles(plan[n - Len(permanent)], base, approved)
        THEN Admit(f[n - 1], GeneratedEntry(plan[n - Len(permanent)], base))
        ELSE [f[n - 1] EXCEPT !.conflict = TRUE]]
  BY <1>2, Zenon DEF Built
<1> HIDE DEF f
<1>4. f = [n \in 0..(Len(permanent) + Len(plan)) |->
             IF n = 0 THEN NoEntries
             ELSE Building(f[n - 1], n, permanent, plan, base, approved)]
  BY <1>3, Zenon DEF Building, NoEntries
<1>5. f[0] = NoEntries /\ \A k \in 1..(Len(permanent) + Len(plan)) :
        f[k] = Building(f[k - 1], k, permanent, plan, base, approved)
  BY <1>4
<1> QED
  BY <1>5 DEF f

\* What the next entry makes of the run r.
NoRun(suite, only) ==
  [outcomes |-> {}, problems |-> suite.conflict, claimed |-> <<>>, started |-> 0,
   left |-> {i \in DOMAIN suite.entries : suite.entries[i].id \in only}]

Running(r, suite, world, b) ==
  IF r.left = {} THEN r
  ELSE LET i == FirstOf(suite, r.left)
       IN RunEntry(suite.entries[i], world, b, [r EXCEPT !.left = @ \ {i}])

\* f tells the run after each of the first n entries executed.
TellsRun(f, n, suite, only, world, b) ==
  f = [k \in 0..n |-> IF k = 0 THEN NoRun(suite, only) ELSE Running(f[k - 1], suite, world, b)]

LEMMA RunsExist ==
  ASSUME NEW suite, NEW only, NEW world, NEW b
  PROVE  \A n \in Nat : \E f : TellsRun(f, n, suite, only, world, b)
<1> USE DEF TellsRun
<1> DEFINE Told(j) == \E f : TellsRun(f, j, suite, only, world, b)
           T == {j \in Nat : Told(j)}
<1>1. 0 \in T
  <2>1. Told(0)
    <3> WITNESS [k \in 0..0 |-> NoRun(suite, only)]
    <3> QED
      OBVIOUS
  <2> HIDE DEF Told
  <2> QED
    BY <2>1
<1>2. ASSUME NEW j \in Nat, j \in T
      PROVE  j + 1 \in T
  <2>1. PICK f : TellsRun(f, j, suite, only, world, b)
    BY <1>2
  <2> DEFINE new == Running(f[j], suite, world, b)
             g == [k \in 0..(j + 1) |-> IF k = j + 1 THEN new ELSE f[k]]
  <2>2. \A k \in 0..j : f[k] = IF k = 0 THEN NoRun(suite, only) ELSE Running(f[k - 1], suite, world, b)
    BY <2>1
  <2> HIDE DEF new
  <2>3. g[j + 1] = new /\ \A k \in 0..j : g[k] = f[k]
    BY j + 1 \notin 0..j
  <2>4. g = [k \in 0..(j + 1) |-> g[k]]
    OBVIOUS
  <2> HIDE DEF g
  <2>5. g[0] = NoRun(suite, only)
    BY <2>2, <2>3, 0 \in 0..j
  <2>6. ASSUME NEW k \in 1..(j + 1)
        PROVE  g[k] = Running(g[k - 1], suite, world, b)
    <3>1. CASE k = j + 1
      <4>1. k - 1 = j /\ j \in 0..j
        BY <3>1
      <4> QED
        BY <2>3, <3>1, <4>1 DEF new
    <3>2. CASE k # j + 1
      <4>1. k \in 0..j /\ k - 1 \in 0..j /\ k # 0
        BY <3>2
      <4>2. g[k] = f[k] /\ g[k - 1] = f[k - 1]
        BY <2>3, <4>1
      <4> QED
        BY <2>2, <4>1, <4>2
    <3> QED
      BY <3>1, <3>2
  <2>7. \A k \in 0..(j + 1) : g[k] = IF k = 0 THEN NoRun(suite, only) ELSE Running(g[k - 1], suite, world, b)
    <3>1. \A k \in 0..(j + 1) : k = 0 \/ k \in 1..(j + 1)
      OBVIOUS
    <3>2. \A k \in 1..(j + 1) : k # 0
      OBVIOUS
    <3> QED
      BY <2>5, <2>6, <3>1, <3>2
  <2>8. Told(j + 1)
    BY <2>4, <2>7
  <2> HIDE DEF Told
  <2> QED
    BY <2>8
<1> HIDE DEF T
<1>3. \A j \in Nat : j \in T
  BY <1>1, <1>2, NaturalsByInduction
<1> QED
  BY <1>3 DEF T

LEMMA RunStep ==
  ASSUME NEW suite, NEW only, NEW world, NEW b, Len(suite.entries) \in Nat
  PROVE  LET f == Ran(suite, only, world, b)
         IN  /\ f[0] = NoRun(suite, only)
             /\ \A k \in 1..Len(suite.entries) : f[k] = Running(f[k - 1], suite, world, b)
<1> DEFINE f == Ran(suite, only, world, b)
<1>1. \E g : TellsRun(g, Len(suite.entries), suite, only, world, b)
  BY RunsExist
<1>2. \E g : g = [n \in 0..Len(suite.entries) |->
        IF n = 0
        THEN [outcomes |-> {}, problems |-> suite.conflict, claimed |-> <<>>, started |-> 0,
              left |-> {i \in DOMAIN suite.entries : suite.entries[i].id \in only}]
        ELSE IF g[n - 1].left = {} THEN g[n - 1]
        ELSE LET i == FirstOf(suite, g[n - 1].left)
             IN RunEntry(suite.entries[i], world, b, [g[n - 1] EXCEPT !.left = @ \ {i}])]
  BY <1>1, Zenon DEF TellsRun, Running, NoRun
<1>3. f = [n \in 0..Len(suite.entries) |->
        IF n = 0
        THEN [outcomes |-> {}, problems |-> suite.conflict, claimed |-> <<>>, started |-> 0,
              left |-> {i \in DOMAIN suite.entries : suite.entries[i].id \in only}]
        ELSE IF f[n - 1].left = {} THEN f[n - 1]
        ELSE LET i == FirstOf(suite, f[n - 1].left)
             IN RunEntry(suite.entries[i], world, b, [f[n - 1] EXCEPT !.left = @ \ {i}])]
  BY <1>2, Zenon DEF Ran
<1> HIDE DEF f
<1>4. f = [n \in 0..Len(suite.entries) |->
             IF n = 0 THEN NoRun(suite, only) ELSE Running(f[n - 1], suite, world, b)]
  BY <1>3, Zenon DEF Running, NoRun
<1>5. /\ f[0] = NoRun(suite, only)
      /\ \A k \in 1..Len(suite.entries) : f[k] = Running(f[k - 1], suite, world, b)
  BY <1>4
<1> QED
  BY <1>5 DEF f

-----------------------------------------------------------------------------
SuiteOk(u) ==
  /\ u = [entries |-> u.entries, conflict |-> u.conflict]
  /\ IsSequence(u.entries)
  /\ \A i \in 1..Len(u.entries) : EntryOk(u.entries[i])

LEMMA ConflictOk ==
  ASSUME NEW u, SuiteOk(u)
  PROVE  SuiteOk([u EXCEPT !.conflict = TRUE])
<1>1. PICK q : q = [u EXCEPT !.conflict = TRUE]
  OBVIOUS
<1>2. q = [entries |-> u.entries, conflict |-> TRUE]
  BY <1>1 DEF SuiteOk
<1>3. SuiteOk(q)
  BY <1>2 DEF SuiteOk
<1> QED
  BY <1>1, <1>3

LEMMA AdmitOk ==
  ASSUME NEW u, SuiteOk(u), NEW e, EntryOk(e)
  PROVE  SuiteOk(Admit(u, e))
<1> DEFINE q == Admit(u, e)
           more == Append(u.entries, e)
<1>1. \/ q = [u EXCEPT !.conflict = TRUE]
      \/ q = [u EXCEPT !.entries = more]
  BY DEF Admit
<1>2. /\ u = [entries |-> u.entries, conflict |-> u.conflict]
      /\ IsSequence(u.entries) /\ Len(u.entries) \in Nat
      /\ \A i \in 1..Len(u.entries) : EntryOk(u.entries[i])
  BY DEF SuiteOk, IsSequence
<1>3. /\ IsSequence(more) /\ Len(more) = Len(u.entries) + 1 /\ more[Len(u.entries) + 1] = e
      /\ \A i \in 1..Len(u.entries) : more[i] = u.entries[i]
  BY <1>2, AppendIs
<1> HIDE DEF q, more
<1>4. \A i \in 1..Len(more) : i = Len(u.entries) + 1 \/ i \in 1..Len(u.entries)
  BY <1>2, <1>3
<1>5. \A i \in 1..Len(more) : EntryOk(more[i])
  BY <1>2, <1>3, <1>4
<1>6. \/ q = [entries |-> u.entries, conflict |-> TRUE]
      \/ q = [entries |-> more, conflict |-> u.conflict]
  BY <1>1, <1>2
<1>7. SuiteOk(q)
  BY <1>2, <1>3, <1>5, <1>6 DEF SuiteOk
<1> QED
  BY <1>7 DEF q

\* A scenario of the plan can be ranked, and compiles to a list of operations.
GeneratedOk(g, base) == g.rank \in Nat /\ Listed(Operations(Compiled(g, base)))

LEMMA EntriesOk ==
  ASSUME NEW p, NEW g, NEW base
  PROVE  /\ Loadable(p.scenario) /\ Listed(Operations(p.scenario)) => EntryOk(PermanentEntry(p))
         /\ GeneratedOk(g, base) => EntryOk(GeneratedEntry(g, base))
<1> DEFINE e == PermanentEntry(p)
           c == Compiled(g, base)
           must == g.rank < 2 \/ g.replaces
           h == GeneratedEntry(g, base)
<1>1. /\ e.scenario = p.scenario /\ e.rank = 0 /\ e.permanent = TRUE /\ e.category = None
  BY DEF PermanentEntry, SuiteEntry
<1> HIDE DEF c, must
<1>2. h = SuiteEntry(g.id, g.key, "generated", c, g.rank, g.category, must)
  BY DEF GeneratedEntry, c, must
<1> HIDE DEF h
<1>3. h.scenario = c /\ h.rank = g.rank /\ h.permanent = FALSE
  BY <1>2 DEF SuiteEntry
<1> HIDE DEF e
<1>4. Loadable(p.scenario) /\ Listed(Operations(p.scenario)) => EntryOk(e)
  <2> SUFFICES ASSUME Loadable(p.scenario), Listed(Operations(p.scenario)) PROVE EntryOk(e)
    OBVIOUS
  <2>1. Loadable(e.scenario) /\ Listed(Operations(e.scenario))
    BY <1>1
  <2>2. e.rank \in Nat
    BY <1>1
  <2>3. e.permanent \in BOOLEAN
    BY <1>1
  <2>4. e.category = None
    BY <1>1
  <2> QED
    BY <2>1, <2>2, <2>3, <2>4 DEF EntryOk
<1>5. GeneratedOk(g, base) => EntryOk(h)
  BY <1>3 DEF EntryOk, GeneratedOk, c
<1> QED
  BY <1>4, <1>5 DEF e, h

PlanOk(permanent, plan, base) ==
  /\ Listed(permanent) /\ Listed(plan)
  /\ \A i \in DOMAIN permanent : /\ Loadable(permanent[i].scenario)
                                 /\ Listed(Operations(permanent[i].scenario))
  /\ \A i \in DOMAIN plan : GeneratedOk(plan[i], base)

LEMMA SuiteBuilt ==
  ASSUME NEW permanent, NEW plan, NEW base, NEW approved, PlanOk(permanent, plan, base)
  PROVE  SuiteOk(BuildSuite(permanent, plan, base, approved))
<1> DEFINE P == Len(permanent)
           N == Len(plan)
           f == Built(permanent, plan, base, approved)
           T == {n \in Nat : n <= P + N => SuiteOk(f[n])}
<1>1. /\ P \in Nat /\ N \in Nat /\ DOMAIN permanent = 1..P /\ DOMAIN plan = 1..N
  BY DEF PlanOk, Listed
<1>2. /\ f[0] = NoEntries
      /\ \A k \in 1..(P + N) : f[k] = Building(f[k - 1], k, permanent, plan, base, approved)
  BY <1>1, SuiteStep
<1> HIDE DEF f
<1>3. 0 \in T
  <2>1. NoEntries = [entries |-> NoEntries.entries, conflict |-> NoEntries.conflict]
    BY DEF NoEntries
  <2>2. NoEntries.entries = <<>>
    BY DEF NoEntries
  <2>3. IsSequence(NoEntries.entries) /\ Len(NoEntries.entries) = 0
    BY <2>2, EmptySequence
  <2>4. SuiteOk(NoEntries)
    BY <2>1, <2>3 DEF SuiteOk
  <2> QED
    BY <1>2, <2>4
<1>4. ASSUME NEW n \in Nat, n \in T
      PROVE  n + 1 \in T
  <2>1. SUFFICES ASSUME n + 1 <= P + N PROVE SuiteOk(f[n + 1])
    OBVIOUS
  <2>2. n + 1 \in 1..(P + N) /\ (n + 1) - 1 = n /\ n <= P + N
    BY <1>1, <2>1
  <2>3. SuiteOk(f[n])
    BY <1>4, <2>2
  <2>4. f[n + 1] = Building(f[n], n + 1, permanent, plan, base, approved)
    BY <1>2, <2>2
  <2>5. CASE n + 1 <= P
    <3>1. n + 1 \in DOMAIN permanent
      BY <1>1, <2>5
    <3>2. EntryOk(PermanentEntry(permanent[n + 1]))
      BY <3>1, EntriesOk DEF PlanOk
    <3>3. f[n + 1] = Admit(f[n], PermanentEntry(permanent[n + 1]))
      BY <2>4, <2>5 DEF Building
    <3> QED
      BY <2>3, <3>2, <3>3, AdmitOk
  <2>6. CASE ~(n + 1 <= P)
    <3> DEFINE g == plan[(n + 1) - P]
    <3>1. (n + 1) - P \in DOMAIN plan
      BY <1>1, <2>2, <2>6
    <3>2. EntryOk(GeneratedEntry(g, base))
      BY <3>1, EntriesOk DEF PlanOk
    <3>3. \/ f[n + 1] = Admit(f[n], GeneratedEntry(g, base))
          \/ f[n + 1] = [f[n] EXCEPT !.conflict = TRUE]
      BY <2>4, <2>6 DEF Building
    <3>4. SuiteOk([f[n] EXCEPT !.conflict = TRUE])
      BY <2>3, ConflictOk
    <3> HIDE DEF g
    <3>5. SuiteOk(Admit(f[n], GeneratedEntry(g, base)))
      BY <2>3, <3>2, AdmitOk
    <3> QED
      BY <3>3, <3>4, <3>5
  <2> QED
    BY <2>5, <2>6
<1> HIDE DEF T
<1>5. \A n \in Nat : n \in T
  BY <1>3, <1>4, NaturalsByInduction
<1>6. P + N \in Nat /\ P + N <= P + N
  BY <1>1
<1>7. SuiteOk(f[P + N])
  BY <1>5, <1>6 DEF T
<1> QED
  BY <1>7 DEF f, BuildSuite

LEMMA SuiteRuns ==
  ASSUME NEW u, SuiteOk(u), NEW only, NEW world, NEW b, None \notin Int
  PROVE  OutcomesSound(RunSuite(u, only, world, b).outcomes)
<1> DEFINE L == Len(u.entries)
           f == Ran(u, only, world, b)
           R(r) == RunSound(r) /\ r.left \subseteq 1..L
           T == {n \in Nat : n <= L => R(f[n])}
<1>1. L \in Nat /\ DOMAIN u.entries = 1..L /\ \A i \in 1..L : EntryOk(u.entries[i])
  BY SequenceIs DEF SuiteOk, IsSequence
<1>2. f[0] = NoRun(u, only) /\ \A k \in 1..L : f[k] = Running(f[k - 1], u, world, b)
  BY <1>1, RunStep
<1> HIDE DEF f, L
<1>3. R(NoRun(u, only))
  <2> DEFINE r == NoRun(u, only)
             left == {i \in DOMAIN u.entries : u.entries[i].id \in only}
             none == <<>>
  <2> HIDE DEF none, left
  <2>1. r = [outcomes |-> {}, problems |-> u.conflict, claimed |-> none, started |-> 0,
             left |-> left]
    BY DEF NoRun, none, left
  <2> HIDE DEF r
  <2>2. /\ r = [outcomes |-> r.outcomes, problems |-> r.problems, claimed |-> r.claimed,
                started |-> r.started, left |-> r.left]
        /\ r.outcomes = {} /\ r.left = left
    BY <2>1
  <2>3. left \subseteq 1..L
    BY <1>1 DEF left
  <2>4. R(r)
    BY <2>2, <2>3 DEF RunSound, OutcomesSound
  <2> QED
    BY <2>4 DEF r
<1>4. ASSUME NEW r, R(r)
      PROVE  R(Running(r, u, world, b))
  <2>1. CASE r.left = {}
    BY <1>4, <2>1 DEF Running
  <2>2. CASE r.left # {}
    <3> DEFINE i == FirstOf(u, r.left)
               rest == r.left \ {i}
               q == [r EXCEPT !.left = rest]
    <3>1. Running(r, u, world, b) = RunEntry(u.entries[i], world, b, q)
      BY <2>2 DEF Running
    <3>2. /\ r.left \subseteq Nat
          /\ \A j \in r.left : u.entries[j].rank \in Nat /\ u.entries[j].permanent \in BOOLEAN
      BY <1>1, <1>4 DEF EntryOk
    <3>3. i \in r.left
      BY <2>2, <3>2, FirstIs
    <3> HIDE DEF i
    <3>4. EntryOk(u.entries[i])
      BY <1>1, <1>4, <3>3
    <3>5. rest \subseteq 1..L
      BY <1>4
    <3> HIDE DEF rest
    <3>6. q = [outcomes |-> r.outcomes, problems |-> r.problems, claimed |-> r.claimed,
               started |-> r.started, left |-> rest]
      BY <1>4 DEF RunSound
    <3> HIDE DEF q
    <3>7. RunSound(q) /\ q.left = rest
      BY <1>4, <3>6 DEF RunSound
    <3> DEFINE e == u.entries[i]
               next == RunEntry(e, world, b, q)
    <3> HIDE DEF e
    <3>8. RunSound(next) /\ next.left = q.left
      BY <3>4, <3>7, RunEntrySound DEF e
    <3> HIDE DEF next
    <3>9. R(next)
      BY <3>5, <3>7, <3>8
    <3> QED
      BY <3>1, <3>9 DEF next, e
  <2> QED
    BY <2>1, <2>2
<1> HIDE DEF R
<1>5. 0 \in T
  BY <1>2, <1>3
<1>6. ASSUME NEW n \in Nat, n \in T
      PROVE  n + 1 \in T
  <2>1. SUFFICES ASSUME n + 1 <= L PROVE R(f[n + 1])
    OBVIOUS
  <2>2. n + 1 \in 1..L /\ (n + 1) - 1 = n /\ n <= L
    BY <1>1, <2>1
  <2>3. R(f[n])
    BY <1>6, <2>2
  <2>4. f[n + 1] = Running(f[n], u, world, b)
    BY <1>2, <2>2
  <2> QED
    BY <1>4, <2>3, <2>4
<1> HIDE DEF T
<1>7. \A n \in Nat : n \in T
  BY <1>5, <1>6, NaturalsByInduction
<1>8. R(f[L])
  BY <1>1, <1>7 DEF T
<1> QED
  BY <1>8 DEF R, RunSound, RunSuite, f, L

-----------------------------------------------------------------------------
(* What is measured.                                                       *)

\* What the gate is given of a measurement, or of a measurement and its waves.
IsObserved(o) ==
  o = [outcomes |-> o.outcomes, required |-> o.required, problems |-> o.problems,
       guards |-> o.guards, modules |-> o.modules, scan |-> o.scan,
       passedScripts |-> o.passedScripts]

MeasuredInv == IsObserved(observed) /\ OutcomesSound(observed.outcomes)

LEMMA PlansOk ==
  /\ None \notin Int
  /\ PlanOk(Permanent, Plan, Base)
  /\ \A c \in Covers : PlanOk(Permanent, Append(Plan, Wave[c]), Base)
<1>1. /\ None \notin Int /\ Listed(Permanent) /\ Listed(Plan)
      /\ \A i \in DOMAIN Permanent : /\ Loadable(Permanent[i].scenario)
                                     /\ Listed(Operations(Permanent[i].scenario))
      /\ \A i \in DOMAIN Plan : GeneratedOk(Plan[i], Base)
      /\ \A c \in Covers : GeneratedOk(Wave[c], Base)
  BY GapsAssumption DEF GeneratedOk
<1>2. PlanOk(Permanent, Plan, Base)
  BY <1>1 DEF PlanOk
<1>3. ASSUME NEW c \in Covers
      PROVE  PlanOk(Permanent, Append(Plan, Wave[c]), Base)
  <2> DEFINE g == Wave[c]
             more == Append(Plan, g)
  <2>1. IsSequence(Plan) /\ Len(Plan) \in Nat /\ DOMAIN Plan = 1..Len(Plan)
    BY <1>1, ListedIs, SequenceIs DEF IsSequence
  <2> HIDE DEF g
  <2>2. /\ IsSequence(more) /\ Len(more) = Len(Plan) + 1 /\ more[Len(Plan) + 1] = g
        /\ \A i \in 1..Len(Plan) : more[i] = Plan[i]
    BY <2>1, AppendIs
  <2> HIDE DEF more
  <2>3. Listed(more) /\ DOMAIN more = 1..Len(more)
    BY <2>2, ListedIs, SequenceIs
  <2>4. \A i \in DOMAIN more : i = Len(Plan) + 1 \/ i \in 1..Len(Plan)
    BY <2>1, <2>2, <2>3
  <2>5. GeneratedOk(g, Base)
    BY <1>1 DEF g
  <2>6. \A i \in DOMAIN more : GeneratedOk(more[i], Base)
    BY <1>1, <2>1, <2>2, <2>4, <2>5
  <2>7. PlanOk(Permanent, more, Base)
    BY <1>1, <2>3, <2>6 DEF PlanOk
  <2> QED
    BY <2>7 DEF more, g
<1> QED
  BY <1>1, <1>2, <1>3

LEMMA MeasurementsSound ==
  ASSUME NEW m \in Measurements
  PROVE  IsObserved(Observed[m]) /\ OutcomesSound(Observed[m].outcomes)
<1> DEFINE ids == {Suite.entries[i].id : i \in DOMAIN Suite.entries}
           run == RunSuite(Suite, ids, m.world, Browsers)
           o == Observed[m]
<1>1. SuiteOk(Suite)
  BY PlansOk, SuiteBuilt DEF Suite
<1>2. o = [outcomes |-> run.outcomes, required |-> RequiredIds(Suite),
           problems |-> run.problems, guards |-> m.guards, modules |-> m.modules,
           scan |-> m.scan, passedScripts |-> m.passedScripts]
  BY DEF Observed
<1> HIDE DEF ids
<1>3. OutcomesSound(run.outcomes)
  BY <1>1, PlansOk, SuiteRuns
<1> HIDE DEF o, run
<1>4. IsObserved(o) /\ o.outcomes = run.outcomes
  BY <1>2 DEF IsObserved
<1> QED
  BY <1>3, <1>4 DEF o

LEMMA WavesSound ==
  ASSUME NEW c \in Covers, NEW run \in WaveRuns[c]
  PROVE  OutcomesSound(run.outcomes)
<1> DEFINE u == BuildSuite(Permanent, Append(Plan, Wave[c]), Base, Approved)
           only == {Wave[c].id}
<1>1. PICK w \in WaveWorlds : run = RunSuite(u, only, w, Browsers)
  BY DEF WaveRuns
<1>2. SuiteOk(u)
  <2> DEFINE more == Append(Plan, Wave[c])
  <2>1. PlanOk(Permanent, more, Base)
    BY PlansOk
  <2> HIDE DEF more
  <2> QED
    BY <2>1, SuiteBuilt DEF more
<1> HIDE DEF u, only
<1> QED
  BY <1>1, <1>2, PlansOk, SuiteRuns

\* A wave's outcome is the one of its scenario under another name.
LEMMA RenamedSound ==
  ASSUME NEW x, OutcomeSound(x), NEW id
  PROVE  OutcomeSound([x EXCEPT !.id = id])
<1>1. PICK y : y = [x EXCEPT !.id = id]
  OBVIOUS
<1>2. y = [id |-> id, result |-> x.result, verified |-> x.verified, category |-> x.category,
           claims |-> x.claims, held |-> x.held, measures |-> x.measures]
  BY <1>1 DEF OutcomeSound
<1>3. /\ y = [id |-> y.id, result |-> y.result, verified |-> y.verified,
              category |-> y.category, claims |-> y.claims, held |-> y.held,
              measures |-> y.measures]
      /\ Established(y) => Established(x)
      /\ y.category = x.category /\ y.held = x.held /\ y.measures = x.measures
  BY <1>2 DEF Established
<1>4. OutcomeSound(y)
  BY <1>3 DEF OutcomeSound
<1> QED
  BY <1>1, <1>4

LEMMA MeasuredStep ==
  ASSUME MeasuredInv, [GapsNext]_gapsVars
  PROVE  MeasuredInv'
<1>1. CASE Judge
  BY <1>1, MeasurementsSound DEF Judge, MeasuredInv
<1>2. CASE RunWave
  <2>0. PICK category \in Covers : \E run \in WaveRuns[category] :
          LET id == <<"wave", waves, category>>
              added == {[x EXCEPT !.id = id] : x \in run.outcomes}
          IN observed' = [observed EXCEPT
                            !.outcomes = @ \union added,
                            !.problems = @ \/ run.problems,
                            !.required = IF Wave[category].rank < 2 THEN @ \union {id} ELSE @]
    BY <1>2, Zenon DEF RunWave
  <2> DEFINE id == <<"wave", waves, category>>
  <2>1. PICK run \in WaveRuns[category] :
          observed' = [observed EXCEPT
                         !.outcomes = @ \union {[x EXCEPT !.id = id] : x \in run.outcomes},
                         !.problems = @ \/ run.problems,
                         !.required = IF Wave[category].rank < 2 THEN @ \union {id} ELSE @]
    BY <2>0, Zenon
  <2> HIDE DEF id
  <2> DEFINE added == {[x EXCEPT !.id = id] : x \in run.outcomes}
             all == observed.outcomes \union added
             problems == observed.problems \/ run.problems
             required == IF Wave[category].rank < 2 THEN observed.required \union {id}
                         ELSE observed.required
  <2>2. OutcomesSound(run.outcomes)
    BY WavesSound
  <2>3. OutcomesSound(added)
    BY <2>2, RenamedSound DEF OutcomesSound
  <2>4. OutcomesSound(all)
    BY <2>3 DEF OutcomesSound, MeasuredInv
  <2>5. observed' = [observed EXCEPT !.outcomes = all, !.problems = problems,
                                     !.required = required]
    BY <2>1
  <2> HIDE DEF added, all, problems, required
  <2>6. PICK o : o = observed'
    OBVIOUS
  <2>7. o = [outcomes |-> all, required |-> required, problems |-> problems,
             guards |-> observed.guards, modules |-> observed.modules, scan |-> observed.scan,
             passedScripts |-> observed.passedScripts]
    BY <2>5, <2>6 DEF MeasuredInv, IsObserved
  <2>8. IsObserved(o) /\ o.outcomes = all
    BY <2>7 DEF IsObserved
  <2> QED
    BY <2>4, <2>6, <2>8 DEF MeasuredInv
<1>3. CASE UNCHANGED observed
  BY <1>3 DEF MeasuredInv
<1>4. CASE observed' = Nothing
  BY <1>4 DEF Nothing, MeasuredInv, IsObserved, OutcomesSound
<1> QED
  BY <1>1, <1>2, <1>3, <1>4
     DEF GapsNext, gapsVars, BuilderTurn, Operate, LeaveGate, EmptyWave, RouteGap, CloseEnds,
         Decide, ResumeRun

\* A risk is covered by a scenario only when an outcome that stands covers it.
LEMMA ScenarioCovers ==
  ASSUME NEW risk, NEW o, NEW obls, NEW ob, NEW t
  PROVE  LET e == Judged(risk, o, obls, ob, t)
         IN  e.covered /\ e.basis = "scenario" => Satisfying(risk.category, o) # {}
<1> DEFINE alone == JudgeRisk(risk, o)
           verdict == BoundVerdict(obls[ob], t, o.passedScripts)
           e == Judged(risk, o, obls, ob, t)
<1>1. /\ alone = [covered |-> alone.covered, basis |-> alone.basis, clash |-> alone.clash]
      /\ alone.basis = "scenario" => Satisfying(risk.category, o) # {}
  BY DEF JudgeRisk, Entry
<1> HIDE DEF alone, verdict
<1> DEFINE entry == IF ob = 0 THEN alone ELSE ApplyBound(alone, risk, verdict, o)
<1>2. e.covered = entry.covered /\ e.basis = entry.basis
  BY DEF Judged, alone, verdict
<1>3. entry.basis = "scenario" => alone.basis = "scenario"
  BY <1>1 DEF ApplyBound
<1> HIDE DEF e, entry
<1>4. e.covered /\ e.basis = "scenario" => Satisfying(risk.category, o) # {}
  BY <1>1, <1>2, <1>3
<1> QED
  BY <1>4 DEF e

\* A risk a scenario covers was measured by what the product did: every expectation
\* of a scenario that passed was met, and the claim it is covered by was borne out
\* (execute, _resolve_risk_claims, SuiteExecutor.run and _satisfying_outcome).
THEOREM CoverageMeasured == GapsSpec => []CoverageIsMeasured
<1>1. GapsInit => MeasuredInv
  BY DEF GapsInit, MeasuredInv, Nothing, IsObserved, OutcomesSound
<1>2. MeasuredInv /\ [GapsNext]_gapsVars => MeasuredInv'
  BY MeasuredStep
<1>3. GapInv /\ MeasuredInv => CoverageIsMeasured
  <2> SUFFICES ASSUME GapInv, MeasuredInv, NEW e \in DOMAIN Gate,
                      Gate[e].covered, Gate[e].basis = "scenario"
               PROVE  \E x \in observed.outcomes : /\ x.result = "PASSED"
                                                   /\ Gate[e].lead.category \in x.measures
    BY DEF CoverageIsMeasured
  <2>1. EntryOf(Gate[e], Risks, observed, obligations, tree)
    BY GateEntries, SequenceIs DEF Entries
  <2> DEFINE c == Gate[e].lead.category
  <2>2. Satisfying(c, observed) # {}
    BY <2>1, ScenarioCovers DEF EntryOf
  <2>3. c # None
    <3>1. PICK j \in DOMAIN Risks : Gate[e].lead = Risks[j]
      BY <2>1 DEF EntryOf
    <3>2. KnownRisks(Risks, known)
      BY RisksKnown DEF GapInv
    <3> QED
      BY <3>1, <3>2 DEF KnownRisks
  <2> HIDE DEF c
  <2>4. PICK x \in observed.outcomes : Established(x) /\ (x.category = c \/ c \in x.held)
    BY <2>2 DEF Satisfying
  <2>5. c \in x.measures
    BY <2>3, <2>4 DEF MeasuredInv, OutcomesSound, OutcomeSound
  <2> QED
    BY <2>4, <2>5 DEF Established, c
<1> QED
  BY <1>1, <1>2, <1>3, GapInvariance, PTL DEF GapsSpec
===============================================================================
