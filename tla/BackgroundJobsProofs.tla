------------------------- MODULE BackgroundJobsProofs -------------------------
(***************************************************************************)
(* Proofs about background jobs, for any number of jobs, runs, workers,    *)
(* clients and crashes and any size of the queue.                          *)
(*                                                                         *)
(* The invariants are proved together.  A late write of a worker or of a   *)
(* cancel cannot bring a deleted run back because whoever holds a run, in  *)
(* a request, the queue, a worker or recovery's list, holds one that was   *)
(* made (KnownRuns).  And a worker may let go of a run because by then the *)
(* run has ended, or another worker is at work on it (Accounted, which     *)
(* counts a worker only up to its last write).                             *)
(***************************************************************************)
EXTENDS BackgroundJobs, TLAPS

HoldsRun == {"update", "send", "cancel", "cancelRun", "cancelJob"}

\* A request past its first read has its job, and its run once it has one.
RequestsOK ==
    \A c \in Callers :
        /\ caller[c].pc # "idle" => caller[c].job \in Jobs
        /\ caller[c].pc \in HoldsRun => caller[c].run \in Runs

KnownRuns ==
    /\ \A c \in Callers : caller[c].pc \in HoldsRun => run[caller[c].run] # "none"
    /\ \A i \in 1 .. Len(queue) : run[queue[i]] # "none"
    /\ \A w \in Workers : worker[w].pc # "idle" => run[worker[w].run] # "none"
    /\ \A r \in recovery.runs : run[r] # "none"

\* The steps of a worker that has its last write of the run before it.
AtWork == {"mark", "register", "recheck", "startRun", "execute", "readCanceled",
           "completeRun", "failRun"}

InHand(r) ==
    \/ \E c \in Callers : caller[c].run = r /\ caller[c].pc \in {"update", "send"}
    \/ \E i \in 1 .. Len(queue) : queue[i] = r
    \/ \E w \in Workers : worker[w].run = r /\ worker[w].pc \in AtWork
    \/ ~recovery.listed
    \/ r \in recovery.runs
    \/ r \in stranded

Accounted == \A r \in Runs : Active(r) => InHand(r)

Types == TypeOK /\ RequestsOK

WorkerStates == [pc : WorkerSteps, run : Runs] \cup {IdleWorker}

IInv ==
    /\ Types
    /\ KnownRuns
    /\ NoOrphanRun
    /\ ScheduleKept
    /\ MarkHeldByWorker
    /\ Accounted
-----------------------------------------------------------------------------

(***************************************************************************)
(* A worker is idle or has a run; one that moves on keeps its run.                   *)
(***************************************************************************)
LEMMA StepTyped ==
    ASSUME NEW w \in Workers, NEW pc \in WorkerSteps,
           worker \in [Workers -> WorkerStates], worker[w].pc # "idle", Step(w, pc)
    PROVE  /\ worker' \in [Workers -> WorkerStates]
           /\ worker' = [worker EXCEPT ![w] = [pc |-> pc, run |-> worker[w].run]]
           /\ worker[w].run \in Runs
<1>1. worker[w] \in [pc : WorkerSteps, run : Runs]
  BY DEF WorkerStates, IdleWorker
<1>2. [worker[w] EXCEPT !.pc = pc] = [pc |-> pc, run |-> worker[w].run]
  BY <1>1
<1>3. worker' = [worker EXCEPT ![w] = [pc |-> pc, run |-> worker[w].run]]
  BY <1>2 DEF Step
<1>4. QED
  BY <1>1, <1>2, <1>3 DEF WorkerStates

LEMMA WorkerTyped ==
    ASSUME Types
    PROVE  /\ worker \in [Workers -> WorkerStates]
           /\ \A w \in Workers : worker[w].pc # "idle" =>
                  worker[w].run \in Runs /\ worker[w].pc \in WorkerSteps
  BY DEF Types, TypeOK, WorkerStates, IdleWorker

\* The steps of processRun between the mark and its end.
Moving(w) ==
    \/ RegisterCancel(w) \/ Recheck(w) \/ StartRun(w) \/ Execute(w)
    \/ ReadCanceled(w) \/ FinishRun(w) \/ FinishJob(w) \/ ClearCancel(w)

(***************************************************************************)
(* They keep the worker at work on its run, and the other workers where    *)
(* they are.                                                               *)
(***************************************************************************)
LEMMA WorkerMoves ==
    ASSUME Types, NEW w \in Workers, Moving(w)
    PROVE  /\ worker[w].pc \in WorkerSteps \ {"mark"}
           /\ worker[w].run \in Runs
           /\ \E pc \in WorkerSteps \ {"mark"} :
                 worker' = [worker EXCEPT ![w] = [pc |-> pc, run |-> worker[w].run]]
           /\ UNCHANGED <<caller, queue, marked, recovery, stranded>>
<1>1. PICK pc \in WorkerSteps \ {"mark"} : Step(w, pc)
  BY DEF Moving, RegisterCancel, Recheck, StartRun, Execute, ReadCanceled,
         FinishRun, FinishJob, ClearCancel, WorkerSteps
<1>2. worker[w].pc \notin {"idle", "mark"}
  BY DEF Moving, RegisterCancel, Recheck, StartRun, Execute, ReadCanceled,
         FinishRun, FinishJob, ClearCancel, Is
<1>3. worker \in [Workers -> WorkerStates]
  BY DEF Types, TypeOK, WorkerStates
<1>4. worker' = [worker EXCEPT ![w] = [pc |-> pc, run |-> worker[w].run]]
      /\ worker[w].run \in Runs
  BY <1>1, <1>2, <1>3, StepTyped
<1>5. worker[w].pc \in WorkerSteps \ {"mark"}
  BY <1>2, <1>3 DEF WorkerStates, IdleWorker
<1>6. UNCHANGED <<caller, queue, marked, recovery, stranded>>
  BY DEF Moving, RegisterCancel, Recheck, StartRun, Execute, ReadCanceled,
         FinishRun, FinishJob, ClearCancel
<1>7. QED
  BY <1>1, <1>4, <1>5, <1>6

(***************************************************************************)
(* Every step keeps the types, and the requests keep what they are about.  *)
(***************************************************************************)
LEMMA TypesStep ==
    ASSUME Types, Next
    PROVE  Types'
<1>1. ASSUME NEW c \in Callers, TriggerCreate(c) PROVE Types'
  BY <1>1, JobsAssumption, SMTT(30) DEF TriggerCreate, At, Leave, store, IdleCaller,
     IdleWorker, Callers, TypeOK, Types, RequestsOK, HoldsRun, WorkerSteps,
     WorkerStates
<1>2. ASSUME NEW c \in Callers, TriggerUpdate(c) PROVE Types'
  BY <1>2, JobsAssumption, SMTT(30) DEF TriggerUpdate, At, Go, NextRunAt, store,
     IdleCaller, IdleWorker, Callers, TypeOK, Types, RequestsOK, HoldsRun,
     WorkerSteps, WorkerStates
<1>3. ASSUME NEW c \in Callers, TriggerSend(c) PROVE Types'
  BY <1>3, JobsAssumption, SMTT(30) DEF TriggerSend, At, HasRoom, Leave, store,
     IdleCaller, IdleWorker, Callers, TypeOK, Types, RequestsOK, HoldsRun,
     WorkerSteps, WorkerStates
<1>4. ASSUME NEW c \in Callers, TriggerGivesUp(c) PROVE Types'
  BY <1>4, JobsAssumption, SMTT(30) DEF TriggerGivesUp, At, Leave, store, IdleCaller,
     IdleWorker, Callers, TypeOK, Types, RequestsOK, HoldsRun, WorkerSteps,
     WorkerStates
<1>5. ASSUME NEW c \in Clients, NEW j \in Jobs, TriggerBegin(c, j) PROVE Types'
  BY <1>5, JobsAssumption, SMTT(30) DEF TriggerBegin, At, store, IdleCaller, IdleWorker,
     Callers, TypeOK, Types, RequestsOK, HoldsRun, WorkerSteps, WorkerStates
<1>6. ASSUME NEW c \in Clients, NEW j \in Jobs, DeleteBegin(c, j) PROVE Types'
  BY <1>6, JobsAssumption, SMTT(30) DEF DeleteBegin, At, Active, store, IdleCaller,
     IdleWorker, Callers, TypeOK, Types, RequestsOK, HoldsRun, WorkerSteps,
     WorkerStates
<1>7. ASSUME NEW c \in Clients, NEW r \in Runs, CancelBegin(c, r) PROVE Types'
  BY <1>7, JobsAssumption, SMTT(30) DEF CancelBegin, At, Active, store, IdleCaller,
     IdleWorker, Callers, TypeOK, Types, RequestsOK, HoldsRun, WorkerSteps,
     WorkerStates
<1>8. ASSUME NEW c \in Clients, DeleteStore(c) PROVE Types'
  BY <1>8, JobsAssumption, SMTT(30) DEF DeleteStore, At, DeleteRuns, Leave, store,
     IdleCaller, IdleWorker, Callers, TypeOK, Types, RequestsOK, HoldsRun,
     WorkerSteps, WorkerStates
<1>9. ASSUME NEW c \in Clients, CancelContext(c) PROVE Types'
  BY <1>9, JobsAssumption, SMTT(30) DEF CancelContext, At, Go, store, IdleCaller,
     IdleWorker, Callers, TypeOK, Types, RequestsOK, HoldsRun, WorkerSteps,
     WorkerStates
<1>10. ASSUME NEW c \in Clients, CancelRun(c) PROVE Types'
  BY <1>10, JobsAssumption, SMTT(30) DEF CancelRun, At, Leave, Go, store, IdleCaller,
     IdleWorker, Callers, TypeOK, Types, RequestsOK, HoldsRun, WorkerSteps,
     WorkerStates
<1>11. ASSUME NEW c \in Clients, CancelJob(c) PROVE Types'
  BY <1>11, JobsAssumption, SMTT(30) DEF CancelJob, At, Leave, Rescheduled, NextRunAt,
     store, IdleCaller, IdleWorker, Callers, TypeOK, Types, RequestsOK,
     HoldsRun, WorkerSteps, WorkerStates
<1>12. ASSUME NEW j \in Jobs, ScheduleOne(j) PROVE Types'
  BY <1>12, JobsAssumption, SMTT(30) DEF ScheduleOne, At, NextRunAt, store, IdleCaller,
     IdleWorker, Callers, TypeOK, Types, RequestsOK, HoldsRun, WorkerSteps,
     WorkerStates
<1>13. ASSUME NEW j \in Jobs, Pause(j) PROVE Types'
  BY <1>13, JobsAssumption, SMTT(30) DEF Pause, store, IdleCaller, IdleWorker, Callers,
     TypeOK, Types, RequestsOK, HoldsRun, WorkerSteps, WorkerStates
<1>14. ASSUME NEW j \in Jobs, Resume(j) PROVE Types'
  BY <1>14, JobsAssumption, SMTT(30) DEF Resume, NextRunAt, store, IdleCaller,
     IdleWorker, Callers, TypeOK, Types, RequestsOK, HoldsRun, WorkerSteps,
     WorkerStates
<1>15. ASSUME NEW j \in Jobs, Update(j) PROVE Types'
  BY <1>15, JobsAssumption, SMTT(30) DEF Update, Rescheduled, NextRunAt, store,
     IdleCaller, IdleWorker, Callers, TypeOK, Types, RequestsOK, HoldsRun,
     WorkerSteps, WorkerStates
<1>16. ASSUME EnqueueDueJobs PROVE Types'
  BY <1>16, JobsAssumption, SMTT(30) DEF EnqueueDueJobs, At, store, IdleCaller,
     IdleWorker, Callers, TypeOK, Types, RequestsOK, HoldsRun, WorkerSteps,
     WorkerStates
<1>17. ASSUME NEW w \in Workers, Dequeue(w) PROVE Types'
  BY <1>17, JobsAssumption, SMTT(30) DEF Dequeue, Is, store, IdleCaller, IdleWorker,
     Callers, TypeOK, Types, RequestsOK, HoldsRun, WorkerSteps, WorkerStates
<1>18. ASSUME NEW w \in Workers, MarkRunning(w) PROVE Types'
  <2>1. worker[w].run \in Runs /\ JobOf[worker[w].run] \in Jobs
    BY <1>18, JobsAssumption, SMTT(30) DEF MarkRunning, Is, Types, TypeOK, IdleWorker
  <2>2. /\ worker' \in [Workers -> WorkerStates]
        /\ marked' \in [Jobs -> Runs \cup {None}]
        /\ stranded' \subseteq Runs
    <3>1. worker \in [Workers -> WorkerStates] /\ worker[w].pc = "mark"
      BY <1>18 DEF MarkRunning, Is, Types, TypeOK, WorkerStates
    <3>2. CASE run[worker[w].run] # "deleted" /\ MayMark(w)
      <4>1. Step(w, "register") /\ UNCHANGED stranded
        BY <1>18, <3>2 DEF MarkRunning
      <4>2. worker' \in [Workers -> WorkerStates]
        BY <3>1, <4>1, StepTyped DEF WorkerSteps
      <4>3. QED
        BY <1>18, <2>1, <3>2, <4>1, <4>2 DEF MarkRunning, Types, TypeOK
    <3>3. CASE ~(run[worker[w].run] # "deleted" /\ MayMark(w))
      <4>1. worker' = [worker EXCEPT ![w] = IdleWorker]
        BY <1>18, <3>3 DEF MarkRunning
      <4>2. worker' \in [Workers -> WorkerStates]
        BY <3>1, <4>1 DEF WorkerStates
      <4>3. QED
        BY <1>18, <2>1, <3>3, <4>2 DEF MarkRunning, Types, TypeOK
    <3>4. QED
      BY <3>2, <3>3
  <2>3. QED
    BY <1>18, <2>2 DEF MarkRunning, store, Types, TypeOK, RequestsOK, WorkerStates
<1>19. ASSUME NEW w \in Workers, RegisterCancel(w) PROVE Types'
  BY <1>19, JobsAssumption, StepTyped DEF RegisterCancel, Is, store,
     IdleCaller, IdleWorker, Callers, TypeOK, Types, RequestsOK, HoldsRun,
     WorkerSteps, WorkerStates
<1>20. ASSUME NEW w \in Workers, Recheck(w) PROVE Types'
  BY <1>20, JobsAssumption, StepTyped DEF Recheck, Is, Active, store,
     IdleCaller, IdleWorker, Callers, TypeOK, Types, RequestsOK, HoldsRun,
     WorkerSteps, WorkerStates
<1>21. ASSUME NEW w \in Workers, StartRun(w) PROVE Types'
  BY <1>21, JobsAssumption, StepTyped DEF StartRun, Is, Write, store,
     IdleCaller, IdleWorker, Callers, TypeOK, Types, RequestsOK, HoldsRun,
     WorkerSteps, WorkerStates
<1>22. ASSUME NEW w \in Workers, Execute(w) PROVE Types'
  BY <1>22, JobsAssumption, StepTyped DEF Execute, Is, store, IdleCaller,
     IdleWorker, Callers, TypeOK, Types, RequestsOK, HoldsRun, WorkerSteps,
     WorkerStates
<1>23. ASSUME NEW w \in Workers, ReadCanceled(w) PROVE Types'
  BY <1>23, JobsAssumption, StepTyped DEF ReadCanceled, Is, store, IdleCaller,
     IdleWorker, Callers, TypeOK, Types, RequestsOK, HoldsRun, WorkerSteps,
     WorkerStates
<1>24. ASSUME NEW w \in Workers, FinishRun(w) PROVE Types'
  BY <1>24, JobsAssumption, StepTyped DEF FinishRun, Is, Write, store,
     IdleCaller, IdleWorker, Callers, TypeOK, Types, RequestsOK, HoldsRun,
     WorkerSteps, WorkerStates
<1>25. ASSUME NEW w \in Workers, FinishJob(w) PROVE Types'
  BY <1>25, JobsAssumption, StepTyped DEF FinishJob, Is, Rescheduled,
     NextRunAt, store, IdleCaller, IdleWorker, Callers, TypeOK, Types,
     RequestsOK, HoldsRun, WorkerSteps, WorkerStates
<1>26. ASSUME NEW w \in Workers, ClearCancel(w) PROVE Types'
  BY <1>26, JobsAssumption, StepTyped DEF ClearCancel, Is, store, IdleCaller,
     IdleWorker, Callers, TypeOK, Types, RequestsOK, HoldsRun, WorkerSteps,
     WorkerStates
<1>27. ASSUME NEW w \in Workers, Unmark(w) PROVE Types'
  BY <1>27, JobsAssumption, SMTT(30) DEF Unmark, Is, OwnMark, store, IdleCaller,
     IdleWorker, Callers, TypeOK, Types, RequestsOK, HoldsRun, WorkerSteps,
     WorkerStates
<1>28. ASSUME RecoverList PROVE Types'
  BY <1>28, JobsAssumption, SMTT(30) DEF RecoverList, ListActiveRuns, Active, store,
     IdleCaller, IdleWorker, Callers, TypeOK, Types, RequestsOK, HoldsRun,
     WorkerSteps, WorkerStates
<1>29. ASSUME NEW r \in Runs, RecoverOne(r) PROVE Types'
  <2>1. r \in Runs /\ recovery' \in [listed : BOOLEAN, runs : SUBSET Runs]
    BY <1>29 DEF RecoverOne, Types, TypeOK
  <2>2. queue' \in Seq(Runs) /\ Len(queue') <= QueueSize
    <3>1. queue' = queue \/ (Len(queue) < QueueSize /\ queue' = Append(queue, r))
      BY <1>29 DEF RecoverOne, HasRoom
    <3>2. queue \in Seq(Runs) /\ Len(queue) <= QueueSize
      BY DEF Types, TypeOK
    <3>3. QED
      BY <3>1, <3>2, JobsAssumption
  <2>3. QED
    BY <1>29, <2>1, <2>2 DEF RecoverOne, store, Types, TypeOK, RequestsOK
<1>30. ASSUME Crash PROVE Types'
  BY <1>30, JobsAssumption, SMTT(30) DEF Crash, Listing, store, IdleCaller, IdleWorker,
     Callers, TypeOK, Types, RequestsOK, HoldsRun, WorkerSteps, WorkerStates
<1>31. QED
  BY <1>1, <1>2, <1>3, <1>4, <1>5, <1>6, <1>7, <1>8, <1>9, <1>10, <1>11,
     <1>12, <1>13, <1>14, <1>15, <1>16, <1>17, <1>18, <1>19, <1>20, <1>21,
     <1>22, <1>23, <1>24, <1>25, <1>26, <1>27, <1>28, <1>29, <1>30 DEF Next,
     Trigger, Handle, Process, Recover

(***************************************************************************)
(* A run that was made is never again one that was not.                    *)
(***************************************************************************)
LEMMA RunsStay ==
    ASSUME Types, Next
    PROVE  (\A r \in Runs : run[r] # "none" => run'[r] # "none")
<1>1. ASSUME NEW c \in Callers, TriggerCreate(c) PROVE (\A r \in Runs : run[r] # "none" => run'[r] # "none")
  BY <1>1 DEF TriggerCreate, At, Leave, Types, TypeOK
<1>2. ASSUME NEW c \in Clients, DeleteStore(c) PROVE (\A r \in Runs : run[r] # "none" => run'[r] # "none")
  BY <1>2 DEF DeleteStore, At, DeleteRuns, Leave, Types, TypeOK
<1>3. ASSUME NEW c \in Clients, CancelRun(c) PROVE (\A r \in Runs : run[r] # "none" => run'[r] # "none")
  BY <1>3 DEF CancelRun, At, Leave, Go, Types, TypeOK
<1>4. ASSUME NEW w \in Workers, StartRun(w) PROVE (\A r \in Runs : run[r] # "none" => run'[r] # "none")
  BY <1>4, StepTyped DEF StartRun, Is, Write, Types, TypeOK
<1>5. ASSUME NEW w \in Workers, FinishRun(w) PROVE (\A r \in Runs : run[r] # "none" => run'[r] # "none")
  BY <1>5, StepTyped DEF FinishRun, Is, Write, Types, TypeOK
<1>6. ASSUME NEW c \in Callers, TriggerUpdate(c) \/ TriggerSend(c) \/
                TriggerGivesUp(c)
     PROVE  (\A r \in Runs : run[r] # "none" => run'[r] # "none")
  BY <1>6 DEF TriggerUpdate, TriggerSend, TriggerGivesUp, store
<1>7. ASSUME NEW c \in Clients, NEW j \in Jobs, TriggerBegin(c, j) \/
                DeleteBegin(c, j)
     PROVE  (\A r \in Runs : run[r] # "none" => run'[r] # "none")
  BY <1>7 DEF TriggerBegin, DeleteBegin, store
<1>8. ASSUME NEW c \in Clients, NEW q \in Runs, CancelBegin(c, q)
     PROVE  (\A r \in Runs : run[r] # "none" => run'[r] # "none")
  BY <1>8 DEF CancelBegin, store
<1>9. ASSUME NEW c \in Clients, CancelContext(c) \/ CancelJob(c)
     PROVE  (\A r \in Runs : run[r] # "none" => run'[r] # "none")
  BY <1>9 DEF CancelContext, CancelJob, store
<1>10. ASSUME NEW j \in Jobs, ScheduleOne(j) \/ Pause(j) \/ Resume(j) \/
                Update(j)
     PROVE  (\A r \in Runs : run[r] # "none" => run'[r] # "none")
  BY <1>10 DEF ScheduleOne, Pause, Resume, Update, store
<1>11. ASSUME EnqueueDueJobs \/ RecoverList \/ Crash
     PROVE  (\A r \in Runs : run[r] # "none" => run'[r] # "none")
  BY <1>11 DEF EnqueueDueJobs, RecoverList, Crash, store
<1>12. ASSUME NEW w \in Workers, Dequeue(w) \/ MarkRunning(w) \/
                RegisterCancel(w) \/ Recheck(w) \/ Execute(w) \/
                ReadCanceled(w) \/ FinishJob(w) \/ ClearCancel(w) \/ Unmark(w)
     PROVE  (\A r \in Runs : run[r] # "none" => run'[r] # "none")
  BY <1>12 DEF Dequeue, MarkRunning, RegisterCancel, Recheck, Execute,
     ReadCanceled, FinishJob, ClearCancel, Unmark, store
<1>13. ASSUME NEW q \in Runs, RecoverOne(q)
     PROVE  (\A r \in Runs : run[r] # "none" => run'[r] # "none")
  BY <1>13 DEF RecoverOne, store
<1>14. QED
  BY <1>1, <1>2, <1>3, <1>4, <1>5, <1>6, <1>7, <1>8, <1>9, <1>10, <1>11,
     <1>12, <1>13 DEF Next, Trigger, Handle, Process, Recover

(***************************************************************************)
(* Whoever holds a run holds one that was made.                            *)
(***************************************************************************)
LEMMA KnownStep ==
    ASSUME Types, KnownRuns, Next
    PROVE  KnownRuns'
<1>1. ASSUME NEW c \in Callers, TriggerCreate(c) PROVE KnownRuns'
  BY <1>1, RunsStay, JobsAssumption DEF TriggerCreate, At, Leave, store,
     IdleCaller, IdleWorker, Callers, TypeOK, Types, WorkerSteps,
     WorkerStates, RequestsOK, KnownRuns, HoldsRun
<1>2. ASSUME NEW c \in Callers, TriggerUpdate(c) PROVE KnownRuns'
  BY <1>2, RunsStay, JobsAssumption DEF TriggerUpdate, At, Go, NextRunAt,
     store, IdleCaller, IdleWorker, Callers, TypeOK, Types, WorkerSteps,
     WorkerStates, RequestsOK, KnownRuns, HoldsRun
<1>3. ASSUME NEW c \in Callers, TriggerSend(c) PROVE KnownRuns'
  BY <1>3, RunsStay, JobsAssumption DEF TriggerSend, At, HasRoom, Leave,
     store, IdleCaller, IdleWorker, Callers, TypeOK, Types, WorkerSteps,
     WorkerStates, RequestsOK, KnownRuns, HoldsRun
<1>4. ASSUME NEW c \in Callers, TriggerGivesUp(c) PROVE KnownRuns'
  BY <1>4, RunsStay, JobsAssumption DEF TriggerGivesUp, At, Leave, store,
     IdleCaller, IdleWorker, Callers, TypeOK, Types, WorkerSteps,
     WorkerStates, RequestsOK, KnownRuns, HoldsRun
<1>5. ASSUME NEW c \in Clients, NEW j \in Jobs, TriggerBegin(c, j) PROVE KnownRuns'
  BY <1>5, RunsStay, JobsAssumption DEF TriggerBegin, At, store, IdleCaller,
     IdleWorker, Callers, TypeOK, Types, WorkerSteps, WorkerStates,
     RequestsOK, KnownRuns, HoldsRun
<1>6. ASSUME NEW c \in Clients, NEW j \in Jobs, DeleteBegin(c, j) PROVE KnownRuns'
  BY <1>6, RunsStay, JobsAssumption DEF DeleteBegin, At, Active, store,
     IdleCaller, IdleWorker, Callers, TypeOK, Types, WorkerSteps,
     WorkerStates, RequestsOK, KnownRuns, HoldsRun
<1>7. ASSUME NEW c \in Clients, NEW r \in Runs, CancelBegin(c, r) PROVE KnownRuns'
  BY <1>7, RunsStay, JobsAssumption DEF CancelBegin, At, Active, store,
     IdleCaller, IdleWorker, Callers, TypeOK, Types, WorkerSteps,
     WorkerStates, RequestsOK, KnownRuns, HoldsRun
<1>8. ASSUME NEW c \in Clients, DeleteStore(c) PROVE KnownRuns'
  BY <1>8, RunsStay, JobsAssumption DEF DeleteStore, At, DeleteRuns, Leave,
     store, IdleCaller, IdleWorker, Callers, TypeOK, Types, WorkerSteps,
     WorkerStates, RequestsOK, KnownRuns, HoldsRun
<1>9. ASSUME NEW c \in Clients, CancelContext(c) PROVE KnownRuns'
  BY <1>9, RunsStay, JobsAssumption DEF CancelContext, At, Go, store,
     IdleCaller, IdleWorker, Callers, TypeOK, Types, WorkerSteps,
     WorkerStates, RequestsOK, KnownRuns, HoldsRun
<1>10. ASSUME NEW c \in Clients, CancelRun(c) PROVE KnownRuns'
  BY <1>10, RunsStay, JobsAssumption DEF CancelRun, At, Leave, Go, store,
     IdleCaller, IdleWorker, Callers, TypeOK, Types, WorkerSteps,
     WorkerStates, RequestsOK, KnownRuns, HoldsRun
<1>11. ASSUME NEW c \in Clients, CancelJob(c) PROVE KnownRuns'
  BY <1>11, RunsStay, JobsAssumption DEF CancelJob, At, Leave, Rescheduled,
     NextRunAt, store, IdleCaller, IdleWorker, Callers, TypeOK, Types,
     WorkerSteps, WorkerStates, RequestsOK, KnownRuns, HoldsRun
<1>12. ASSUME NEW j \in Jobs, ScheduleOne(j) PROVE KnownRuns'
  BY <1>12, RunsStay, JobsAssumption DEF ScheduleOne, At, NextRunAt, store,
     IdleCaller, IdleWorker, Callers, TypeOK, Types, WorkerSteps,
     WorkerStates, RequestsOK, KnownRuns, HoldsRun
<1>13. ASSUME NEW w \in Workers, Dequeue(w) PROVE KnownRuns'
  BY <1>13, RunsStay, JobsAssumption DEF Dequeue, Is, store, IdleCaller,
     IdleWorker, Callers, TypeOK, Types, WorkerSteps, WorkerStates,
     RequestsOK, KnownRuns, HoldsRun
<1>14. ASSUME NEW w \in Workers, MarkRunning(w) PROVE KnownRuns'
  <2>1. worker[w].pc = "mark" /\ UNCHANGED <<caller, queue, recovery, run>>
    BY <1>14 DEF MarkRunning, Is, store
  <2>2. \/ worker' = [worker EXCEPT ![w] = IdleWorker]
        \/ worker' = [worker EXCEPT ![w] = [pc |-> "register", run |-> worker[w].run]]
    BY <1>14, <2>1, WorkerTyped, StepTyped DEF MarkRunning, WorkerSteps
  <2>3. ASSUME NEW v \in Workers, worker'[v].pc # "idle"
        PROVE  worker'[v].run = worker[v].run /\ worker[v].pc # "idle"
    BY <2>1, <2>2, <2>3, WorkerTyped DEF IdleWorker
  <2>4. QED
    BY <2>1, <2>3, WorkerTyped DEF KnownRuns
<1>15. ASSUME NEW w \in Workers, Unmark(w) PROVE KnownRuns'
  BY <1>15, RunsStay, JobsAssumption DEF Unmark, Is, OwnMark, store,
     IdleCaller, IdleWorker, Callers, TypeOK, Types, WorkerSteps,
     WorkerStates, RequestsOK, KnownRuns, HoldsRun
<1>16. ASSUME RecoverList PROVE KnownRuns'
  BY <1>16, RunsStay, JobsAssumption DEF RecoverList, ListActiveRuns, Active,
     store, IdleCaller, IdleWorker, Callers, TypeOK, Types, WorkerSteps,
     WorkerStates, RequestsOK, KnownRuns, HoldsRun
<1>17. ASSUME NEW r \in Runs, RecoverOne(r) PROVE KnownRuns'
  <2>1. run[r] # "none" /\ r \in Runs
    BY <1>17 DEF RecoverOne, KnownRuns, Types, TypeOK
  <2>2. queue' = queue \/ queue' = Append(queue, r)
    BY <1>17 DEF RecoverOne
  <2>3. \A i \in 1 .. Len(queue') : run[queue'[i]] # "none"
    <3>1. queue \in Seq(Runs) /\ \A i \in 1 .. Len(queue) : run[queue[i]] # "none"
      BY DEF KnownRuns, Types, TypeOK
    <3>2. CASE queue' = queue
      BY <3>1, <3>2
    <3>3. CASE queue' = Append(queue, r)
      BY <2>1, <3>1, <3>3
    <3>4. QED
      BY <2>2, <3>2, <3>3
  <2>4. recovery'.runs \subseteq recovery.runs /\ UNCHANGED <<run, caller, worker>>
    BY <1>17 DEF RecoverOne, store, Types, TypeOK
  <2>5. QED
    BY <2>3, <2>4 DEF KnownRuns
<1>18. ASSUME Crash PROVE KnownRuns'
  BY <1>18, RunsStay, JobsAssumption DEF Crash, Listing, store, IdleCaller,
     IdleWorker, Callers, TypeOK, Types, WorkerSteps, WorkerStates,
     RequestsOK, KnownRuns, HoldsRun
<1>19. ASSUME NEW w \in Workers, Moving(w) PROVE KnownRuns'
  <2>1. PICK pc \in WorkerSteps \ {"mark"} :
            worker' = [worker EXCEPT ![w] = [pc |-> pc, run |-> worker[w].run]]
    BY <1>19, WorkerMoves
  <2>2. worker[w].pc # "idle" /\ UNCHANGED <<caller, queue, recovery>>
    BY <1>19, WorkerMoves DEF WorkerSteps
  <2>3. ASSUME NEW v \in Workers, worker'[v].pc # "idle"
        PROVE  worker'[v].run = worker[v].run /\ worker[v].pc # "idle"
    BY <2>1, <2>2, <2>3, WorkerTyped
  <2>4. \A r \in Runs : run[r] # "none" => run'[r] # "none"
    BY RunsStay
  <2>5. \A i \in 1 .. Len(queue) : queue[i] \in Runs
    BY DEF Types, TypeOK
  <2>6. \A r \in recovery.runs : r \in Runs
    BY DEF Types, TypeOK
  <2>7. \A v \in Workers : worker'[v].pc # "idle" => run'[worker'[v].run] # "none"
    BY <2>3, <2>4, WorkerTyped DEF KnownRuns
  <2>8. QED
    BY <2>2, <2>4, <2>5, <2>6, <2>7 DEF KnownRuns, Types, RequestsOK
<1>20. ASSUME NEW j \in Jobs, Pause(j) \/ Resume(j) \/ Update(j)
     PROVE  KnownRuns'
  BY <1>20 DEF Pause, Resume, Update, KnownRuns, store
<1>21. ASSUME EnqueueDueJobs
     PROVE  KnownRuns'
  BY <1>21 DEF EnqueueDueJobs, KnownRuns, store
<1>22. QED
  BY <1>1, <1>2, <1>3, <1>4, <1>5, <1>6, <1>7, <1>8, <1>9, <1>10, <1>11,
     <1>12, <1>13, <1>14, <1>15, <1>16, <1>17, <1>18, <1>19, <1>20, <1>21
     DEF Next, Trigger, Handle, Process, Recover, Moving

(***************************************************************************)
(* No step leaves or makes a run of a job that is gone.                    *)
(***************************************************************************)
LEMMA OrphanStep ==
    ASSUME Types, KnownRuns, NoOrphanRun, Next
    PROVE  NoOrphanRun'
<1>1. ASSUME NEW c \in Callers, TriggerCreate(c) PROVE NoOrphanRun'
  BY <1>1, JobsAssumption DEF TriggerCreate, At, Leave, store, Types, TypeOK,
     RequestsOK, KnownRuns, HoldsRun, NoOrphanRun
<1>2. ASSUME NEW c \in Clients, DeleteStore(c) PROVE NoOrphanRun'
  BY <1>2, JobsAssumption DEF DeleteStore, At, DeleteRuns, Leave, store,
     Types, TypeOK, RequestsOK, KnownRuns, HoldsRun, NoOrphanRun
<1>3. ASSUME NEW c \in Clients, CancelRun(c) PROVE NoOrphanRun'
  <2>1. caller[c].run \in Runs /\ run[caller[c].run] # "none"
    BY <1>3 DEF CancelRun, At, Callers, Types, RequestsOK, KnownRuns, HoldsRun
  <2>2. job' = job
    BY <1>3 DEF CancelRun
  <2>3. \/ run' = run
        \/ run[caller[c].run] # "deleted" /\ run' = [run EXCEPT ![caller[c].run] = "canceled"]
    BY <1>3 DEF CancelRun
  <2>4. QED
    BY <2>1, <2>2, <2>3, JobsAssumption DEF NoOrphanRun, Types, TypeOK
<1>4. ASSUME NEW j \in Jobs, Pause(j) PROVE NoOrphanRun'
  BY <1>4, JobsAssumption DEF Pause, store, Types, TypeOK, RequestsOK,
     KnownRuns, HoldsRun, NoOrphanRun
<1>5. ASSUME NEW j \in Jobs, Resume(j) PROVE NoOrphanRun'
  BY <1>5, JobsAssumption DEF Resume, NextRunAt, store, Types, TypeOK,
     RequestsOK, KnownRuns, HoldsRun, NoOrphanRun
<1>6. ASSUME NEW w \in Workers, StartRun(w) PROVE NoOrphanRun'
  BY <1>6, JobsAssumption, StepTyped DEF StartRun, Is, Write, store, Types,
     TypeOK, RequestsOK, KnownRuns, HoldsRun, NoOrphanRun
<1>7. ASSUME NEW w \in Workers, FinishRun(w) PROVE NoOrphanRun'
  BY <1>7, JobsAssumption, StepTyped DEF FinishRun, Is, Write, store, Types,
     TypeOK, RequestsOK, KnownRuns, HoldsRun, NoOrphanRun
<1>8. ASSUME NEW c \in Callers, TriggerUpdate(c) \/ TriggerSend(c) \/
                TriggerGivesUp(c)
     PROVE  NoOrphanRun'
  BY <1>8 DEF TriggerUpdate, TriggerSend, TriggerGivesUp, NoOrphanRun, store
<1>9. ASSUME NEW c \in Clients, NEW j \in Jobs, TriggerBegin(c, j) \/
                DeleteBegin(c, j)
     PROVE  NoOrphanRun'
  BY <1>9 DEF TriggerBegin, DeleteBegin, NoOrphanRun, store
<1>10. ASSUME NEW c \in Clients, NEW r \in Runs, CancelBegin(c, r)
     PROVE  NoOrphanRun'
  BY <1>10 DEF CancelBegin, NoOrphanRun, store
<1>11. ASSUME NEW c \in Clients, CancelContext(c) \/ CancelJob(c)
     PROVE  NoOrphanRun'
  BY <1>11 DEF CancelContext, CancelJob, NoOrphanRun, store
<1>12. ASSUME NEW j \in Jobs, ScheduleOne(j) \/ Update(j)
     PROVE  NoOrphanRun'
  BY <1>12 DEF ScheduleOne, Update, NoOrphanRun, store
<1>13. ASSUME EnqueueDueJobs \/ RecoverList \/ Crash
     PROVE  NoOrphanRun'
  BY <1>13 DEF EnqueueDueJobs, RecoverList, Crash, NoOrphanRun, store
<1>14. ASSUME NEW w \in Workers, Dequeue(w) \/ MarkRunning(w) \/
                RegisterCancel(w) \/ Recheck(w) \/ Execute(w) \/
                ReadCanceled(w) \/ FinishJob(w) \/ ClearCancel(w) \/ Unmark(w)
     PROVE  NoOrphanRun'
  BY <1>14 DEF Dequeue, MarkRunning, RegisterCancel, Recheck, Execute,
     ReadCanceled, FinishJob, ClearCancel, Unmark, NoOrphanRun, store
<1>15. ASSUME NEW r \in Runs, RecoverOne(r)
     PROVE  NoOrphanRun'
  BY <1>15 DEF RecoverOne, NoOrphanRun, store
<1>16. QED
  BY <1>1, <1>2, <1>3, <1>4, <1>5, <1>6, <1>7, <1>8, <1>9, <1>10, <1>11,
     <1>12, <1>13, <1>14, <1>15 DEF Next, Trigger, Handle, Process, Recover

(***************************************************************************)
(* No step takes the next time of an active job with a schedule.           *)
(***************************************************************************)
LEMMA ScheduleStep ==
    ASSUME Types, ScheduleKept, Next
    PROVE  ScheduleKept'
<1>1. ASSUME NEW c \in Callers, TriggerUpdate(c) PROVE ScheduleKept'
  BY <1>1, JobsAssumption DEF TriggerUpdate, At, Go, NextRunAt, store, TypeOK,
     Types, RequestsOK, ScheduleKept
<1>2. ASSUME NEW c \in Clients, DeleteStore(c) PROVE ScheduleKept'
  BY <1>2, JobsAssumption DEF DeleteStore, At, DeleteRuns, Leave, store,
     TypeOK, Types, RequestsOK, ScheduleKept
<1>3. ASSUME NEW c \in Clients, CancelJob(c) PROVE ScheduleKept'
  BY <1>3, JobsAssumption DEF CancelJob, At, Leave, Rescheduled, NextRunAt,
     store, TypeOK, Types, RequestsOK, ScheduleKept
<1>4. ASSUME NEW j \in Jobs, ScheduleOne(j) PROVE ScheduleKept'
  BY <1>4, JobsAssumption DEF ScheduleOne, At, NextRunAt, store, TypeOK,
     Types, RequestsOK, ScheduleKept
<1>5. ASSUME NEW j \in Jobs, Pause(j) PROVE ScheduleKept'
  BY <1>5, JobsAssumption DEF Pause, store, TypeOK, Types, RequestsOK,
     ScheduleKept
<1>6. ASSUME NEW j \in Jobs, Resume(j) PROVE ScheduleKept'
  BY <1>6, JobsAssumption DEF Resume, NextRunAt, store, TypeOK, Types,
     RequestsOK, ScheduleKept
<1>7. ASSUME NEW j \in Jobs, Update(j) PROVE ScheduleKept'
  BY <1>7, JobsAssumption DEF Update, Rescheduled, NextRunAt, store, TypeOK,
     Types, RequestsOK, ScheduleKept
<1>8. ASSUME NEW w \in Workers, FinishJob(w) PROVE ScheduleKept'
  BY <1>8, JobsAssumption, StepTyped DEF FinishJob, Is, Rescheduled,
     NextRunAt, store, TypeOK, Types, RequestsOK, ScheduleKept
<1>9. ASSUME NEW c \in Callers, TriggerCreate(c) \/ TriggerSend(c) \/
                TriggerGivesUp(c)
     PROVE  ScheduleKept'
  BY <1>9 DEF TriggerCreate, TriggerSend, TriggerGivesUp, ScheduleKept, store
<1>10. ASSUME NEW c \in Clients, NEW j \in Jobs, TriggerBegin(c, j) \/
                DeleteBegin(c, j)
     PROVE  ScheduleKept'
  BY <1>10 DEF TriggerBegin, DeleteBegin, ScheduleKept, store
<1>11. ASSUME NEW c \in Clients, NEW r \in Runs, CancelBegin(c, r)
     PROVE  ScheduleKept'
  BY <1>11 DEF CancelBegin, ScheduleKept, store
<1>12. ASSUME NEW c \in Clients, CancelContext(c) \/ CancelRun(c)
     PROVE  ScheduleKept'
  BY <1>12 DEF CancelContext, CancelRun, ScheduleKept, store
<1>13. ASSUME EnqueueDueJobs \/ RecoverList \/ Crash
     PROVE  ScheduleKept'
  BY <1>13 DEF EnqueueDueJobs, RecoverList, Crash, ScheduleKept, store
<1>14. ASSUME NEW w \in Workers, Dequeue(w) \/ MarkRunning(w) \/
                RegisterCancel(w) \/ Recheck(w) \/ StartRun(w) \/ Execute(w)
                \/ ReadCanceled(w) \/ FinishRun(w) \/ ClearCancel(w) \/
                Unmark(w)
     PROVE  ScheduleKept'
  BY <1>14 DEF Dequeue, MarkRunning, RegisterCancel, Recheck, StartRun,
     Execute, ReadCanceled, FinishRun, ClearCancel, Unmark, ScheduleKept,
     store
<1>15. ASSUME NEW r \in Runs, RecoverOne(r)
     PROVE  ScheduleKept'
  BY <1>15 DEF RecoverOne, ScheduleKept, store
<1>16. QED
  BY <1>1, <1>2, <1>3, <1>4, <1>5, <1>6, <1>7, <1>8, <1>9, <1>10, <1>11,
     <1>12, <1>13, <1>14, <1>15 DEF Next, Trigger, Handle, Process, Recover

(***************************************************************************)
(* A mark stays with a worker at work on its run.                          *)
(***************************************************************************)
LEMMA MarkStep ==
    ASSUME Types, MarkHeldByWorker, Next
    PROVE  MarkHeldByWorker'
<1>1. ASSUME NEW w \in Workers, Dequeue(w) PROVE MarkHeldByWorker'
  <2>1. worker[w].pc = "idle" /\ UNCHANGED marked
    BY <1>1 DEF Dequeue, Is
  <2>2. \A v \in Workers \ {w} : worker'[v] = worker[v]
    BY <1>1, WorkerTyped DEF Dequeue
  <2>3. \A v \in Workers, q \in Runs : Processing(v, q) => Processing(v, q)'
    BY <2>1, <2>2 DEF Processing, WorkerSteps
  <2>4. QED
    BY <2>1, <2>3 DEF MarkHeldByWorker, Types, TypeOK
<1>2. ASSUME NEW w \in Workers, MarkRunning(w) PROVE MarkHeldByWorker'
  <2> DEFINE r == worker[w].run
  <2>1. worker[w].pc = "mark" /\ r \in Runs /\ JobOf[r] \in Jobs
    BY <1>2, WorkerTyped, JobsAssumption DEF MarkRunning, Is
  <2>2. CASE run[r] # "deleted" /\ MayMark(w)
    <3>1. worker' = [worker EXCEPT ![w] = [pc |-> "register", run |-> r]]
      BY <1>2, <2>1, <2>2, WorkerTyped, StepTyped DEF MarkRunning, WorkerSteps
    <3>2. marked' = [marked EXCEPT ![JobOf[r]] = r]
      BY <1>2, <2>2 DEF MarkRunning
    <3>3. \A q \in Runs : q = r => Processing(w, q)'
      BY <2>1, <3>1, WorkerTyped DEF Processing, WorkerSteps
    <3>4. \A v \in Workers, q \in Runs : Processing(v, q) => Processing(v, q)'
      BY <2>1, <3>1, WorkerTyped DEF Processing
    <3>5. ASSUME NEW j \in Jobs, marked'[j] # None
          PROVE  \E q \in Runs, v \in Workers :
                    marked'[j] = q /\ JobOf[q] = j /\ Processing(v, q)'
      <4>1. CASE j = JobOf[r]
        <5>1. marked'[j] = r
          BY <2>1, <3>2, <4>1 DEF Types, TypeOK
        <5>2. QED
          BY <2>1, <3>3, <4>1, <5>1
      <4>2. CASE j # JobOf[r]
        <5>1. marked'[j] = marked[j] /\ marked[j] \in Runs
          BY <3>2, <3>5, <4>2 DEF Types, TypeOK
        <5>2. QED
          BY <3>4, <3>5, <5>1 DEF MarkHeldByWorker
      <4>3. QED
        BY <4>1, <4>2
    <3>6. QED
      BY <3>5 DEF MarkHeldByWorker
  <2>3. CASE ~(run[r] # "deleted" /\ MayMark(w))
    <3>1. worker' = [worker EXCEPT ![w] = IdleWorker] /\ UNCHANGED marked
      BY <1>2, <2>3 DEF MarkRunning
    <3>2. \A v \in Workers, q \in Runs : Processing(v, q) => Processing(v, q)'
      BY <2>1, <3>1, WorkerTyped DEF Processing
    <3>3. QED
      BY <3>1, <3>2 DEF MarkHeldByWorker, Types, TypeOK
  <2>4. QED
    BY <2>2, <2>3
<1>3. ASSUME NEW w \in Workers, Unmark(w) PROVE MarkHeldByWorker'
  <2> DEFINE r == worker[w].run
  <2>1. worker' = [worker EXCEPT ![w] = IdleWorker] /\ r \in Runs /\ JobOf[r] \in Jobs
    BY <1>3, WorkerTyped, JobsAssumption DEF Unmark, Is
  <2>2. \A v \in Workers, q \in Runs : Processing(v, q) /\ q # r => Processing(v, q)'
    BY <2>1, WorkerTyped DEF Processing
  <2>3. ASSUME NEW j \in Jobs, marked'[j] # None
        PROVE  marked'[j] = marked[j] /\ marked[j] # r
    <3>1. CASE OwnMark(r)
      BY <1>3, <2>1, <2>3, <3>1, JobsAssumption DEF Unmark, OwnMark, MarkHeldByWorker, Types, TypeOK
    <3>2. CASE ~OwnMark(r)
      BY <1>3, <2>1, <2>3, <3>2, JobsAssumption DEF Unmark, OwnMark, MarkHeldByWorker, Types, TypeOK
    <3>3. QED
      BY <3>1, <3>2
  <2>4. QED
    BY <2>2, <2>3 DEF MarkHeldByWorker, Types, TypeOK
<1>4. ASSUME Crash PROVE MarkHeldByWorker'
  BY <1>4, WorkerTyped, JobsAssumption DEF Crash, Listing, TypeOK, Types,
     MarkHeldByWorker, Processing, IdleWorker
<1>5. ASSUME NEW w \in Workers, Moving(w) PROVE MarkHeldByWorker'
  <2>1. PICK pc \in WorkerSteps \ {"mark"} :
            worker' = [worker EXCEPT ![w] = [pc |-> pc, run |-> worker[w].run]]
    BY <1>5, WorkerMoves
  <2>2. worker[w].pc \in WorkerSteps \ {"mark"} /\ UNCHANGED marked
    BY <1>5, WorkerMoves
  <2>3. \A v \in Workers, r \in Runs : Processing(v, r) => Processing(v, r)'
    BY <2>1, <2>2, WorkerTyped DEF Processing
  <2>4. QED
    BY <2>2, <2>3 DEF MarkHeldByWorker, Types, TypeOK
<1>6. ASSUME NEW c \in Callers, TriggerCreate(c) \/ TriggerUpdate(c) \/
                TriggerSend(c) \/ TriggerGivesUp(c)
     PROVE  MarkHeldByWorker'
  BY <1>6 DEF TriggerCreate, TriggerUpdate, TriggerSend, TriggerGivesUp,
     MarkHeldByWorker, Processing
<1>7. ASSUME NEW c \in Clients, NEW j \in Jobs, TriggerBegin(c, j) \/
                DeleteBegin(c, j)
     PROVE  MarkHeldByWorker'
  BY <1>7 DEF TriggerBegin, DeleteBegin, MarkHeldByWorker, Processing
<1>8. ASSUME NEW c \in Clients, NEW r \in Runs, CancelBegin(c, r)
     PROVE  MarkHeldByWorker'
  BY <1>8 DEF CancelBegin, MarkHeldByWorker, Processing
<1>9. ASSUME NEW c \in Clients, DeleteStore(c) \/ CancelContext(c) \/
                CancelRun(c) \/ CancelJob(c)
     PROVE  MarkHeldByWorker'
  BY <1>9 DEF DeleteStore, CancelContext, CancelRun, CancelJob,
     MarkHeldByWorker, Processing
<1>10. ASSUME NEW j \in Jobs, ScheduleOne(j) \/ Pause(j) \/ Resume(j) \/
                Update(j)
     PROVE  MarkHeldByWorker'
  BY <1>10 DEF ScheduleOne, Pause, Resume, Update, MarkHeldByWorker,
     Processing
<1>11. ASSUME EnqueueDueJobs \/ RecoverList
     PROVE  MarkHeldByWorker'
  BY <1>11 DEF EnqueueDueJobs, RecoverList, MarkHeldByWorker, Processing
<1>12. ASSUME NEW r \in Runs, RecoverOne(r)
     PROVE  MarkHeldByWorker'
  BY <1>12 DEF RecoverOne, MarkHeldByWorker, Processing
<1>13. QED
  BY <1>1, <1>2, <1>3, <1>4, <1>5, <1>6, <1>7, <1>8, <1>9, <1>10, <1>11,
     <1>12 DEF Next, Trigger, Handle, Process, Recover, Moving

(***************************************************************************)
(* A worker leaves its last write behind only when its run is not active,  *)
(* and makes no run active but its own, which it still has to end.         *)
(***************************************************************************)
LEMMA EndsAtWork ==
    ASSUME Types, NEW w \in Workers, Moving(w)
    PROVE  /\ \A q \in Runs : Active(q)' =>
                  Active(q) \/ (q = worker[w].run /\ worker'[w].pc \in AtWork)
           /\ worker[w].pc \in AtWork =>
                  worker'[w].pc \in AtWork \/ ~Active(worker[w].run)'
<1>1. worker[w].run \in Runs /\ worker[w].pc # "idle" /\ worker \in [Workers -> WorkerStates]
  BY WorkerMoves, WorkerTyped DEF WorkerSteps
<1>2. worker'[w].run = worker[w].run
  BY <1>1, WorkerMoves
<1>3. ASSUME NEW pc \in WorkerSteps, Step(w, pc) PROVE worker'[w].pc = pc
  BY <1>1, <1>3, StepTyped
<1>4. run \in [Runs -> {"none", "queued", "running", "completed", "failed", "canceled", "deleted"}]
  BY DEF Types, TypeOK
<1>5. CASE RegisterCancel(w)
  BY <1>3, <1>5 DEF RegisterCancel, store, AtWork, WorkerSteps, Active
<1>6. CASE Recheck(w)
  <2>1. run' = run
    BY <1>6 DEF Recheck, store
  <2>2. CASE Active(worker[w].run)
    <3>1. Step(w, "startRun") \/ Step(w, "failRun")
      BY <1>6, <2>2 DEF Recheck
    <3>2. worker'[w].pc \in AtWork
      BY <1>3, <3>1 DEF AtWork, WorkerSteps
    <3>3. QED
      BY <2>1, <3>2 DEF Active
  <2>3. CASE ~Active(worker[w].run)
    BY <1>2, <2>1, <2>3 DEF Active
  <2>4. QED
    BY <2>2, <2>3
<1>7. CASE StartRun(w)
  BY <1>1, <1>3, <1>4, <1>7 DEF StartRun, Write, AtWork, WorkerSteps, Active
<1>8. CASE Execute(w)
  BY <1>3, <1>8 DEF Execute, store, AtWork, WorkerSteps, Active
<1>9. CASE ReadCanceled(w)
  <2>1. run' = run
    BY <1>9 DEF ReadCanceled, store
  <2>2. CASE run[worker[w].run] = "canceled"
    BY <1>2, <2>1, <2>2 DEF Active
  <2>3. CASE run[worker[w].run] # "canceled"
    <3>1. Step(w, "failRun")
      BY <1>9, <2>3 DEF ReadCanceled
    <3>2. worker'[w].pc \in AtWork
      BY <1>3, <3>1 DEF AtWork, WorkerSteps
    <3>3. QED
      BY <2>1, <3>2 DEF Active
  <2>4. QED
    BY <2>2, <2>3
<1>10. CASE FinishRun(w)
  <2>1. PICK s \in {"failed", "completed"} : Write(worker[w].run, s)
    BY <1>10 DEF FinishRun
  <2>2. QED
    BY <1>1, <1>2, <1>4, <2>1 DEF Write, Active
<1>11. CASE FinishJob(w)
  BY <1>11 DEF FinishJob, Is, AtWork, Active
<1>12. CASE ClearCancel(w)
  BY <1>12 DEF ClearCancel, store, Is, AtWork, Active
<1>13. QED
  BY <1>5, <1>6, <1>7, <1>8, <1>9, <1>10, <1>11, <1>12 DEF Moving

(***************************************************************************)
(* No step lets go of an active run, but for the two that strand it.       *)
(***************************************************************************)
LEMMA AccountedStep ==
    ASSUME Types, NoOrphanRun, Accounted, Next
    PROVE  Accounted'
<1>1. ASSUME NEW c \in Callers, TriggerCreate(c) PROVE Accounted'
  <2>1. \A g \in Callers : caller[g].pc \in {"update", "send"} => caller'[g] = caller[g]
    BY <1>1 DEF TriggerCreate, At, Leave, Types, TypeOK
  <2>2. \A q \in Runs : Active(q)' =>
            Active(q) \/ (caller'[c].run = q /\ caller'[c].pc = "update")
    BY <1>1 DEF TriggerCreate, At, Leave, Active, Types, TypeOK
  <2>3. UNCHANGED <<queue, worker, recovery, stranded>>
    BY <1>1 DEF TriggerCreate
  <2>4. QED
    BY <2>1, <2>2, <2>3 DEF Accounted, InHand
<1>2. ASSUME NEW c \in Callers, TriggerUpdate(c) PROVE Accounted'
  BY <1>2, JobsAssumption DEF TriggerUpdate, At, Go, NextRunAt, store,
     IdleCaller, IdleWorker, Callers, TypeOK, Types, WorkerSteps,
     WorkerStates, RequestsOK, HoldsRun, NoOrphanRun, Accounted, InHand,
     Active, AtWork
<1>3. ASSUME NEW c \in Callers, TriggerSend(c) PROVE Accounted'
  BY <1>3, JobsAssumption DEF TriggerSend, At, HasRoom, Leave, store,
     IdleCaller, IdleWorker, Callers, TypeOK, Types, WorkerSteps,
     WorkerStates, RequestsOK, HoldsRun, NoOrphanRun, Accounted, InHand,
     Active, AtWork
<1>4. ASSUME NEW c \in Callers, TriggerGivesUp(c) PROVE Accounted'
  BY <1>4, JobsAssumption DEF TriggerGivesUp, At, Leave, store, IdleCaller,
     IdleWorker, Callers, TypeOK, Types, WorkerSteps, WorkerStates,
     RequestsOK, HoldsRun, NoOrphanRun, Accounted, InHand, Active, AtWork
<1>5. ASSUME NEW c \in Clients, NEW j \in Jobs, TriggerBegin(c, j) PROVE Accounted'
  BY <1>5, JobsAssumption DEF TriggerBegin, At, store, IdleCaller, IdleWorker,
     Callers, TypeOK, Types, WorkerSteps, WorkerStates, RequestsOK, HoldsRun,
     NoOrphanRun, Accounted, InHand, Active, AtWork
<1>6. ASSUME NEW c \in Clients, NEW j \in Jobs, DeleteBegin(c, j) PROVE Accounted'
  BY <1>6, JobsAssumption DEF DeleteBegin, At, Active, store, IdleCaller,
     IdleWorker, Callers, TypeOK, Types, WorkerSteps, WorkerStates,
     RequestsOK, HoldsRun, NoOrphanRun, Accounted, InHand, AtWork
<1>7. ASSUME NEW c \in Clients, NEW r \in Runs, CancelBegin(c, r) PROVE Accounted'
  BY <1>7, JobsAssumption DEF CancelBegin, At, Active, store, IdleCaller,
     IdleWorker, Callers, TypeOK, Types, WorkerSteps, WorkerStates,
     RequestsOK, HoldsRun, NoOrphanRun, Accounted, InHand, AtWork
<1>8. ASSUME NEW c \in Clients, DeleteStore(c) PROVE Accounted'
  BY <1>8, JobsAssumption DEF DeleteStore, At, DeleteRuns, Leave, store,
     IdleCaller, IdleWorker, Callers, TypeOK, Types, WorkerSteps,
     WorkerStates, RequestsOK, HoldsRun, NoOrphanRun, Accounted, InHand,
     Active, AtWork
<1>9. ASSUME NEW c \in Clients, CancelContext(c) PROVE Accounted'
  BY <1>9, JobsAssumption DEF CancelContext, At, Go, store, IdleCaller,
     IdleWorker, Callers, TypeOK, Types, WorkerSteps, WorkerStates,
     RequestsOK, HoldsRun, NoOrphanRun, Accounted, InHand, Active, AtWork
<1>10. ASSUME NEW c \in Clients, CancelRun(c) PROVE Accounted'
  <2>1. \A g \in Callers : caller[g].pc \in {"update", "send"} => caller'[g] = caller[g]
    BY <1>10 DEF CancelRun, At, Go, Leave, Callers, IdleCaller, Types, TypeOK
  <2>2. \A q \in Runs : Active(q)' => Active(q)
    BY <1>10 DEF CancelRun, At, Active, Types, TypeOK
  <2>3. UNCHANGED <<queue, worker, recovery, stranded>>
    BY <1>10 DEF CancelRun
  <2>4. QED
    BY <2>1, <2>2, <2>3 DEF Accounted, InHand
<1>11. ASSUME NEW c \in Clients, CancelJob(c) PROVE Accounted'
  BY <1>11, JobsAssumption DEF CancelJob, At, Leave, Rescheduled, NextRunAt,
     store, IdleCaller, IdleWorker, Callers, TypeOK, Types, WorkerSteps,
     WorkerStates, RequestsOK, HoldsRun, NoOrphanRun, Accounted, InHand,
     Active, AtWork
<1>12. ASSUME NEW j \in Jobs, ScheduleOne(j) PROVE Accounted'
  <2>1. \A g \in Callers : caller[g].pc \in {"update", "send"} => caller'[g] = caller[g]
    BY <1>12 DEF ScheduleOne, At, Callers, Types, TypeOK
  <2>2. UNCHANGED <<run, queue, worker, recovery, stranded>>
    BY <1>12 DEF ScheduleOne
  <2>3. QED
    BY <2>1, <2>2 DEF Accounted, InHand, Active
<1>13. ASSUME NEW w \in Workers, Dequeue(w) PROVE Accounted'
  <2>1. \A v \in Workers : worker[v].pc \in AtWork => worker'[v] = worker[v]
    BY <1>13, WorkerTyped DEF Dequeue, Is, AtWork
  <2>2. worker'[w] = [pc |-> "mark", run |-> Head(queue)] /\ queue \in Seq(Runs)
    BY <1>13, WorkerTyped DEF Dequeue, Types, TypeOK
  <2>3. ASSUME NEW i \in 1 .. Len(queue)
        PROVE  \/ worker'[w].run = queue[i] /\ worker'[w].pc \in AtWork
               \/ \E k \in 1 .. Len(queue') : queue'[k] = queue[i]
    <3>1. CASE i = 1
      BY <2>2, <3>1 DEF AtWork
    <3>2. CASE i # 1
      <4>1. i - 1 \in 1 .. Len(Tail(queue)) /\ Tail(queue)[i - 1] = queue[i]
        BY <2>2, <3>2
      <4>2. QED
        BY <1>13, <4>1 DEF Dequeue
    <3>3. QED
      BY <3>1, <3>2
  <2>4. UNCHANGED <<run, caller, recovery, stranded>>
    BY <1>13 DEF Dequeue, store
  <2>5. QED
    BY <2>1, <2>3, <2>4 DEF Accounted, InHand, Active
<1>14. ASSUME NEW w \in Workers, MarkRunning(w) PROVE Accounted'
  <2> DEFINE r == worker[w].run
  <2>1. worker[w].pc = "mark" /\ UNCHANGED <<run, caller, queue, recovery>>
    BY <1>14 DEF MarkRunning, Is, store
  <2>2. CASE run[r] # "deleted" /\ MayMark(w)
    <3>1. worker' = [worker EXCEPT ![w] = [pc |-> "register", run |-> r]]
      BY <1>14, <2>1, <2>2, WorkerTyped, StepTyped DEF MarkRunning, WorkerSteps
    <3>2. UNCHANGED stranded
      BY <1>14, <2>2 DEF MarkRunning
    <3>3. \A v \in Workers : worker[v].pc \in AtWork =>
              worker'[v].run = worker[v].run /\ worker'[v].pc \in AtWork
      BY <3>1, WorkerTyped DEF AtWork
    <3>4. QED
      BY <2>1, <3>2, <3>3 DEF Accounted, InHand, Active
  <2>3. CASE ~(run[r] # "deleted" /\ MayMark(w))
    <3>1. /\ worker' = [worker EXCEPT ![w] = IdleWorker]
          /\ stranded' = IF Active(r) THEN stranded \cup {r} ELSE stranded
      BY <1>14, <2>3 DEF MarkRunning
    <3>2. \A v \in Workers : v # w => worker'[v] = worker[v]
      BY <3>1, WorkerTyped
    <3>3. QED
      BY <2>1, <3>1, <3>2 DEF Accounted, InHand, Active
  <2>4. QED
    BY <2>2, <2>3
<1>15. ASSUME NEW w \in Workers, Unmark(w) PROVE Accounted'
  BY <1>15, JobsAssumption DEF Unmark, Is, OwnMark, store, IdleCaller,
     IdleWorker, Callers, TypeOK, Types, WorkerSteps, WorkerStates,
     RequestsOK, HoldsRun, NoOrphanRun, Accounted, InHand, Active, AtWork
<1>16. ASSUME RecoverList PROVE Accounted'
  BY <1>16, JobsAssumption DEF RecoverList, ListActiveRuns, Active, store,
     IdleCaller, IdleWorker, Callers, TypeOK, Types, WorkerSteps,
     WorkerStates, RequestsOK, HoldsRun, NoOrphanRun, Accounted, InHand,
     AtWork
<1>17. ASSUME NEW r \in Runs, RecoverOne(r) PROVE Accounted'
  BY <1>17, JobsAssumption DEF RecoverOne, HasRoom, store, IdleCaller,
     IdleWorker, Callers, TypeOK, Types, WorkerSteps, WorkerStates,
     RequestsOK, HoldsRun, NoOrphanRun, Accounted, InHand, Active, AtWork
<1>18. ASSUME Crash PROVE Accounted'
  BY <1>18, JobsAssumption DEF Crash, Listing, store, IdleCaller, IdleWorker,
     Callers, TypeOK, Types, WorkerSteps, WorkerStates, RequestsOK, HoldsRun,
     NoOrphanRun, Accounted, InHand, Active, AtWork
<1>19. ASSUME NEW w \in Workers, Moving(w) PROVE Accounted'
  <2> DEFINE r == worker[w].run
  <2>1. PICK pc \in WorkerSteps \ {"mark"} :
            worker' = [worker EXCEPT ![w] = [pc |-> pc, run |-> r]]
    BY <1>19, WorkerMoves
  <2>2. worker'[w].pc = pc /\ worker'[w].run = r /\ r \in Runs
    BY <1>19, <2>1, WorkerTyped, WorkerMoves
  <2>3. /\ \A q \in Runs : Active(q)' => Active(q) \/ (q = r /\ pc \in AtWork)
        /\ worker[w].pc \in AtWork => pc \in AtWork \/ ~Active(r)'
    BY <1>19, EndsAtWork, <2>2
  <2>4. \A v \in Workers : v # w => worker'[v] = worker[v]
    BY <2>1, WorkerTyped
  <2>5. UNCHANGED <<caller, queue, recovery, stranded>>
    BY <1>19, WorkerMoves
  <2>6. QED
    BY <2>2, <2>3, <2>4, <2>5 DEF Accounted, InHand
<1>20. ASSUME NEW j \in Jobs, Pause(j) \/ Resume(j) \/ Update(j)
     PROVE  Accounted'
  BY <1>20 DEF Pause, Resume, Update, Accounted, InHand, Active, store
<1>21. ASSUME EnqueueDueJobs
     PROVE  Accounted'
  BY <1>21 DEF EnqueueDueJobs, Accounted, InHand, Active, store
<1>22. QED
  BY <1>1, <1>2, <1>3, <1>4, <1>5, <1>6, <1>7, <1>8, <1>9, <1>10, <1>11,
     <1>12, <1>13, <1>14, <1>15, <1>16, <1>17, <1>18, <1>19, <1>20, <1>21
     DEF Next, Trigger, Handle, Process, Recover, Moving

-----------------------------------------------------------------------------
LEMMA InitInv == Init => IInv
  BY JobsAssumption DEF Init, IInv, Types, TypeOK, RequestsOK, HoldsRun, KnownRuns,
     NoOrphanRun, ScheduleKept, NextRunAt, MarkHeldByWorker, Accounted, Active,
     IdleWorker, IdleCaller, Listing

LEMMA Inductive == IInv /\ [Next]_vars => IInv'
<1>1. ASSUME IInv, Next PROVE IInv'
  BY <1>1, TypesStep, KnownStep, OrphanStep, ScheduleStep, MarkStep, AccountedStep
     DEF IInv
<1>2. ASSUME IInv, UNCHANGED vars PROVE IInv'
  BY <1>2 DEF vars, store, IInv, Types, TypeOK, RequestsOK, KnownRuns, NoOrphanRun,
     ScheduleKept, MarkHeldByWorker, Processing, Accounted, InHand, Active
<1>3. QED
  BY <1>1, <1>2

LEMMA Invariant == Spec => []IInv
<1>1. Init => IInv
  BY InitInv
<1>2. IInv /\ [Next]_vars => IInv'
  BY Inductive
<1>3. QED
  BY <1>1, <1>2, PTL DEF Spec

(***************************************************************************)
(* Every variable keeps its type.                                          *)
(***************************************************************************)
THEOREM TypeCorrect == Spec => []TypeOK
<1>1. IInv => TypeOK
  BY DEF IInv, Types
<1>2. QED
  BY <1>1, Invariant, PTL

(***************************************************************************)
(* A running mark is always held by a worker at work on the marked run:    *)
(* no job stays "already running" with nothing running.                    *)
(***************************************************************************)
THEOREM MarksAreHeld == Spec => []MarkHeldByWorker
<1>1. IInv => MarkHeldByWorker
  BY DEF IInv
<1>2. QED
  BY <1>1, Invariant, PTL

(***************************************************************************)
(* No run is left, made or brought back for a job that is gone.            *)
(***************************************************************************)
THEOREM RunsEndWithJob == Spec => []NoOrphanRun
<1>1. IInv => NoOrphanRun
  BY DEF IInv
<1>2. QED
  BY <1>1, Invariant, PTL

(***************************************************************************)
(* An active job with a schedule always has its next time.                 *)
(***************************************************************************)
THEOREM SchedulesAreKept == Spec => []ScheduleKept
<1>1. IInv => ScheduleKept
  BY DEF IInv
<1>2. QED
  BY <1>1, Invariant, PTL

(***************************************************************************)
(* An active run is on its way to the queue, in it, with a worker, yet to  *)
(* be recovered, or stranded in one of the two known ways: also when two   *)
(* workers have it, when the queue is full, and after any number of        *)
(* crashes.                                                                *)
(***************************************************************************)
THEOREM ActiveRunsAreInHand == Spec => []ActiveRunAccountedFor
<1>1. IInv => ActiveRunAccountedFor
  BY DEF IInv, Accounted, InHand, ActiveRunAccountedFor
<1>2. QED
  BY <1>1, Invariant, PTL
=============================================================================
