---------------------------- MODULE BackgroundJobs ----------------------------
(***************************************************************************)
(* Background jobs (backend/internal/jobs/service.go): HTTP and MCP        *)
(* clients that trigger, cancel, pause and delete, the scheduler, the      *)
(* workers behind the bounded queue, and the recovery of active runs when  *)
(* the server starts again.                                                *)
(*                                                                         *)
(* Jobs and runs live in the store, each of whose operations is atomic;    *)
(* the queue, the running marks and the cancel functions live in the       *)
(* process and are gone after a crash.  A run's id says which job it is    *)
(* of: JobOf stands for BackgroundJobRun.JobID, which never changes.       *)
(***************************************************************************)
EXTENDS Integers, Sequences, FiniteSets, TLC

CONSTANTS Jobs, Runs, Workers, Clients,
          JobOf,       \* the job of each run
          Scheduled,   \* the jobs with a schedule
          Scheduler,   \* the scheduler loop, which triggers as a client does
          QueueSize,   \* defaultQueueSize
          MaxCrashes,  \* bound: restarts of the server
          None

ASSUME JobsAssumption ==
    /\ JobOf \in [Runs -> Jobs]
    /\ Scheduled \subseteq Jobs
    /\ Scheduler \notin Clients
    /\ None \notin Jobs \cup Runs \cup Workers
    /\ QueueSize \in Nat \ {0}
    /\ MaxCrashes \in Nat

VARIABLES
    job,        \* store: per job, "active", "paused" or "deleted"
    next,       \* store: per job, NextRunAt: "none" or "set"
    run,        \* store: per run, its status; "none" before, "deleted" after
    queue,      \* Service.queue
    marked,     \* Service.runningJobs: per job, the run marked as running
    canceler,   \* Service.runCancels: per run, the worker whose context it ends
    worker,     \* per worker, where it is in processRun, with which run
    canceled,   \* per worker, its run's context has been cancelled
    caller,     \* per client and for the scheduler, where it is
    due,        \* the due jobs the scheduler's pass has still to trigger
    recovery,   \* recoverActiveRuns: "list", then the runs still to enqueue
    crashes,
    stranded    \* history: runs whose trigger gave up before the send, or whose
                \* queued entry a worker dropped while they were active

store == <<job, next, run>>
vars == <<store, queue, marked, canceler, worker, canceled, caller, due,
          recovery, crashes, stranded>>

Callers == Clients \cup {Scheduler}

Active(r) == run[r] \in {"queued", "running"}

IdleWorker == [pc |-> "idle", run |-> None]
IdleCaller == [pc |-> "idle", job |-> None, run |-> None]

Listing == [listed |-> FALSE, runs |-> {}]

\* scheduleutil.NextRunAt: none without a schedule.
NextRunAt(j) == IF j \in Scheduled THEN "set" ELSE "none"

\* Wrong variant: NextRunAt is cleared.
Unscheduled(j) == "none"

\* An update of a job leaves NextRunAt alone unless the job is active.
Rescheduled(j) == IF job[j] = "active" THEN NextRunAt(j) ELSE next[j]

Init ==
    /\ job = [j \in Jobs |-> "active"]
    /\ next = [j \in Jobs |-> NextRunAt(j)]
    /\ run = [r \in Runs |-> "none"]
    /\ queue = <<>>
    /\ marked = [j \in Jobs |-> None]
    /\ canceler = [r \in Runs |-> None]
    /\ worker = [w \in Workers |-> IdleWorker]
    /\ canceled = [w \in Workers |-> FALSE]
    /\ caller = [c \in Callers |-> IdleCaller]
    /\ due = {}
    /\ recovery = Listing
    /\ crashes = 0
    /\ stranded = {}
-----------------------------------------------------------------------------
(***************************************************************************)
(* Trigger, by a client or by the scheduler: look at the running mark,     *)
(* create the run, update the job, send to the queue.                      *)
(***************************************************************************)
At(c, pc) == caller[c].pc = pc

Go(c, pc) == caller' = [caller EXCEPT ![c].pc = pc]

Leave(c) == caller' = [caller EXCEPT ![c] = IdleCaller]

HasRoom == Len(queue) < QueueSize

\* Trigger of a client, also the last step of RetryRun.
TriggerBegin(c, j) ==
    /\ c \in Clients
    /\ At(c, "idle")
    /\ job[j] # "deleted"
    /\ marked[j] = None
    /\ caller' = [caller EXCEPT ![c] = [pc |-> "create", job |-> j, run |-> None]]
    /\ UNCHANGED <<store, queue, marked, canceler, worker, canceled, due,
                   recovery, crashes, stranded>>

\* CreateBackgroundJobRun refuses a job that is gone.
TriggerCreate(c) ==
    /\ At(c, "create")
    /\ IF job[caller[c].job] = "deleted"
       THEN /\ Leave(c)
            /\ UNCHANGED run
       ELSE \E r \in Runs :
               /\ run[r] = "none"
               /\ JobOf[r] = caller[c].job
               /\ run' = [run EXCEPT ![r] = "queued"]
               /\ caller' = [caller EXCEPT ![c].pc = "update", ![c].run = r]
    /\ UNCHANGED <<job, next, queue, marked, canceler, worker, canceled, due,
                   recovery, crashes, stranded>>

\* Only the schedule's own trigger moves NextRunAt, paused or not.
TriggerUpdate(c) ==
    /\ At(c, "update")
    /\ next' = [next EXCEPT ![caller[c].job] =
                   IF c = Scheduler THEN NextRunAt(caller[c].job) ELSE @]
    /\ Go(c, "send")
    /\ UNCHANGED <<job, run, queue, marked, canceler, worker, canceled, due,
                   recovery, crashes, stranded>>

TriggerSend(c) ==
    /\ At(c, "send")
    /\ HasRoom
    /\ queue' = Append(queue, caller[c].run)
    /\ Leave(c)
    /\ UNCHANGED <<store, marked, canceler, worker, canceled, due, recovery,
                   crashes, stranded>>

\* The request's context ends while the queue is full (or in a tie).
TriggerGivesUp(c) ==
    /\ c \in Clients
    /\ At(c, "send")
    /\ Leave(c)
    /\ stranded' = stranded \cup {caller[c].run}
    /\ UNCHANGED <<store, queue, marked, canceler, worker, canceled, due,
                   recovery, crashes>>
-----------------------------------------------------------------------------
(***************************************************************************)
(* The scheduler.                                                          *)
(***************************************************************************)
\* A tick takes the list of jobs, of which any that have a next time may be
\* due; what the list says may be stale when used.
EnqueueDueJobs ==
    /\ At(Scheduler, "idle")
    /\ due = {}
    /\ due' \in SUBSET {j \in Jobs : job[j] = "active" /\ next[j] = "set"} \ {{}}
    /\ UNCHANGED <<store, queue, marked, canceler, worker, canceled, caller,
                   recovery, crashes, stranded>>

\* Trigger's first two reads; a busy job is moved to its next time.
ScheduleOne(j) ==
    /\ At(Scheduler, "idle")
    /\ j \in due
    /\ due' = due \ {j}
    /\ IF job[j] # "deleted" /\ marked[j] = None
       THEN caller' = [caller EXCEPT ![Scheduler] =
                          [pc |-> "create", job |-> j, run |-> None]]
       ELSE UNCHANGED caller
    /\ next' = [next EXCEPT ![j] =
                   IF job[j] # "deleted" /\ marked[j] # None THEN NextRunAt(j) ELSE @]
    /\ UNCHANGED <<job, run, queue, marked, canceler, worker, canceled,
                   recovery, crashes, stranded>>
-----------------------------------------------------------------------------
(***************************************************************************)
(* The other requests.                                                     *)
(***************************************************************************)
Pause(j) ==
    /\ job[j] # "deleted"
    /\ job' = [job EXCEPT ![j] = "paused"]
    /\ next' = [next EXCEPT ![j] = "none"]
    /\ UNCHANGED <<run, queue, marked, canceler, worker, canceled, caller, due,
                   recovery, crashes, stranded>>

Resume(j) ==
    /\ job[j] # "deleted"
    /\ job' = [job EXCEPT ![j] = "active"]
    /\ next' = [next EXCEPT ![j] = NextRunAt(j)]
    /\ UNCHANGED <<run, queue, marked, canceler, worker, canceled, caller, due,
                   recovery, crashes, stranded>>

\* Update of a job that keeps its schedule.
Update(j) ==
    /\ job[j] # "deleted"
    /\ marked[j] = None
    /\ next' = [next EXCEPT ![j] = Rescheduled(j)]
    /\ UNCHANGED <<job, run, queue, marked, canceler, worker, canceled, caller,
                   due, recovery, crashes, stranded>>

DeleteBegin(c, j) ==
    /\ c \in Clients
    /\ At(c, "idle")
    /\ job[j] # "deleted"
    /\ \A r \in Runs : JobOf[r] = j => ~Active(r)
    /\ caller' = [caller EXCEPT ![c] = [pc |-> "delete", job |-> j, run |-> None]]
    /\ UNCHANGED <<store, queue, marked, canceler, worker, canceled, due,
                   recovery, crashes, stranded>>

\* Wrong variant: the store keeps the runs of a deleted job.
KeepRuns(j) == run' = run

\* DeleteBackgroundJob deletes the runs with the job, under one lock.
DeleteRuns(j) ==
    run' = [r \in Runs |-> IF JobOf[r] = j /\ run[r] # "none" THEN "deleted" ELSE run[r]]

DeleteStore(c) ==
    LET j == caller[c].job IN
    /\ At(c, "delete")
    /\ job' = [job EXCEPT ![j] = "deleted"]
    /\ next' = [next EXCEPT ![j] = "none"]
    /\ DeleteRuns(j)
    /\ Leave(c)
    /\ UNCHANGED <<queue, marked, canceler, worker, canceled, due, recovery,
                   crashes, stranded>>

CancelBegin(c, r) ==
    /\ c \in Clients
    /\ At(c, "idle")
    /\ Active(r)
    /\ caller' = [caller EXCEPT ![c] = [pc |-> "cancel", job |-> JobOf[r], run |-> r]]
    /\ UNCHANGED <<store, queue, marked, canceler, worker, canceled, due,
                   recovery, crashes, stranded>>

CancelContext(c) ==
    LET w == canceler[caller[c].run] IN
    /\ At(c, "cancel")
    /\ canceled' = IF w = None THEN canceled ELSE [canceled EXCEPT ![w] = TRUE]
    /\ Go(c, "cancelRun")
    /\ UNCHANGED <<store, queue, marked, canceler, worker, due, recovery,
                   crashes, stranded>>

\* The status the request read may be stale: whatever the run is by now, it
\* becomes canceled, unless it is gone.
CancelRun(c) ==
    LET r == caller[c].run IN
    /\ At(c, "cancelRun")
    /\ IF run[r] = "deleted"
       THEN Leave(c) /\ UNCHANGED run
       ELSE Go(c, "cancelJob") /\ run' = [run EXCEPT ![r] = "canceled"]
    /\ UNCHANGED <<job, next, queue, marked, canceler, worker, canceled, due,
                   recovery, crashes, stranded>>

CancelJob(c) ==
    /\ At(c, "cancelJob")
    /\ next' = [next EXCEPT ![caller[c].job] = Rescheduled(caller[c].job)]
    /\ Leave(c)
    /\ UNCHANGED <<job, run, queue, marked, canceler, worker, canceled, due,
                   recovery, crashes, stranded>>
-----------------------------------------------------------------------------
(***************************************************************************)
(* processRun                                                              *)
(***************************************************************************)
Is(w, pc) == worker[w].pc = pc

Step(w, pc) == worker' = [worker EXCEPT ![w].pc = pc]

\* Wrong variant: the workers start when recovery has finished.
DequeueRecovered(w) ==
    /\ recovery.listed /\ recovery.runs = {}
    /\ Is(w, "idle")
    /\ queue # <<>>
    /\ worker' = [worker EXCEPT ![w] = [pc |-> "mark", run |-> Head(queue)]]
    /\ queue' = Tail(queue)
    /\ UNCHANGED <<store, marked, canceler, canceled, caller, due, recovery,
                   crashes, stranded>>

Dequeue(w) ==
    /\ Is(w, "idle")
    /\ queue # <<>>
    /\ worker' = [worker EXCEPT ![w] = [pc |-> "mark", run |-> Head(queue)]]
    /\ queue' = Tail(queue)
    /\ UNCHANGED <<store, marked, canceler, canceled, caller, due, recovery,
                   crashes, stranded>>

\* markRunning lets a run in again that is already marked.
MayMark(w) == marked[JobOf[worker[w].run]] \in {None, worker[w].run}

\* Both records are read, then the mark is taken.  A queued entry whose job is
\* busy with another run is dropped without a trace.
MarkRunning(w) ==
    LET r == worker[w].run IN
    /\ Is(w, "mark")
    /\ IF run[r] # "deleted" /\ MayMark(w)
       THEN /\ marked' = [marked EXCEPT ![JobOf[r]] = r]
            /\ Step(w, "register")
            /\ UNCHANGED stranded
       ELSE /\ worker' = [worker EXCEPT ![w] = IdleWorker]
            /\ stranded' = IF Active(r) THEN stranded \cup {r} ELSE stranded
            /\ UNCHANGED marked
    /\ UNCHANGED <<store, queue, canceler, canceled, caller, due, recovery, crashes>>

RegisterCancel(w) ==
    /\ Is(w, "register")
    /\ canceler' = [canceler EXCEPT ![worker[w].run] = w]
    /\ Step(w, "recheck")
    /\ UNCHANGED <<store, queue, marked, canceled, caller, due, recovery, crashes, stranded>>

\* The second read of the run, and the lookup of the executor.
Recheck(w) ==
    /\ Is(w, "recheck")
    /\ IF Active(worker[w].run)
       THEN Step(w, "startRun") \/ Step(w, "failRun")
       ELSE Step(w, "clear")
    /\ UNCHANGED <<store, queue, marked, canceler, canceled, caller, due,
                   recovery, crashes, stranded>>

Write(r, status) ==
    run' = IF run[r] = "deleted" THEN run ELSE [run EXCEPT ![r] = status]

\* The update of the job that follows (last run, status) is left out.
StartRun(w) ==
    /\ Is(w, "startRun")
    /\ Write(worker[w].run, "running")
    /\ Step(w, "execute")
    /\ UNCHANGED <<job, next, queue, marked, canceler, canceled, caller, due,
                   recovery, crashes, stranded>>

\* Runner.Execute returns a result, an error, or, once its context has been
\* cancelled, context.Canceled.
Execute(w) ==
    /\ Is(w, "execute")
    /\ \/ Step(w, "completeRun")
       \/ Step(w, "failRun")
       \/ canceled[w] /\ Step(w, "readCanceled")
    /\ UNCHANGED <<store, queue, marked, canceler, canceled, caller, due,
                   recovery, crashes, stranded>>

ReadCanceled(w) ==
    /\ Is(w, "readCanceled")
    /\ Step(w, IF run[worker[w].run] = "canceled" THEN "clear" ELSE "failRun")
    /\ UNCHANGED <<store, queue, marked, canceler, canceled, caller, due,
                   recovery, crashes, stranded>>

FinishRun(w) ==
    /\ Is(w, "completeRun") \/ Is(w, "failRun")
    /\ Write(worker[w].run, IF Is(w, "failRun") THEN "failed" ELSE "completed")
    /\ Step(w, "finishJob")
    /\ UNCHANGED <<job, next, queue, marked, canceler, canceled, caller, due,
                   recovery, crashes, stranded>>

FinishJob(w) ==
    LET j == JobOf[worker[w].run] IN
    /\ Is(w, "finishJob")
    /\ next' = [next EXCEPT ![j] = Rescheduled(j)]
    /\ Step(w, "clear")
    /\ UNCHANGED <<job, run, queue, marked, canceler, canceled, caller, due,
                   recovery, crashes, stranded>>

\* The two deferred calls.
ClearCancel(w) ==
    /\ Is(w, "clear")
    /\ canceler' = [canceler EXCEPT ![worker[w].run] = None]
    /\ canceled' = [canceled EXCEPT ![w] = FALSE]
    /\ Step(w, "unmark")
    /\ UNCHANGED <<store, queue, marked, caller, due, recovery, crashes, stranded>>

\* Wrong variant: the mark is left when the run is gone from the store.
UnmarkIfKept(r) == marked[JobOf[r]] = r /\ run[r] # "deleted"

OwnMark(r) == marked[JobOf[r]] = r

Unmark(w) ==
    LET r == worker[w].run IN
    /\ Is(w, "unmark")
    /\ marked' = IF OwnMark(r) THEN [marked EXCEPT ![JobOf[r]] = None] ELSE marked
    /\ worker' = [worker EXCEPT ![w] = IdleWorker]
    /\ UNCHANGED <<store, queue, canceler, canceled, caller, due, recovery, crashes, stranded>>
-----------------------------------------------------------------------------
(***************************************************************************)
(* Crash and restart; recoverActiveRuns runs beside the scheduler and the  *)
(* workers, also when the server starts for the first time.                *)
(***************************************************************************)
Crash ==
    /\ crashes < MaxCrashes
    /\ crashes' = crashes + 1
    /\ queue' = <<>>
    /\ marked' = [j \in Jobs |-> None]
    /\ canceler' = [r \in Runs |-> None]
    /\ worker' = [w \in Workers |-> IdleWorker]
    /\ canceled' = [w \in Workers |-> FALSE]
    /\ caller' = [c \in Callers |-> IdleCaller]
    /\ due' = {}
    /\ recovery' = Listing
    /\ stranded' = {}
    /\ UNCHANGED store

\* Wrong variant: only runs that had started are recovered.
ListRunning == {r \in Runs : run[r] = "running"}

ListActiveRuns == {r \in Runs : Active(r)}

RecoverList ==
    /\ ~recovery.listed
    /\ recovery' = [listed |-> TRUE, runs |-> ListActiveRuns]
    /\ UNCHANGED <<store, queue, marked, canceler, worker, canceled, caller, due,
                   crashes, stranded>>

\* A run whose job has been deleted meanwhile is passed over.
RecoverOne(r) ==
    /\ r \in recovery.runs
    /\ \/ job[JobOf[r]] = "deleted" /\ UNCHANGED queue
       \/ /\ job[JobOf[r]] # "deleted"
          /\ HasRoom
          /\ queue' = Append(queue, r)
    /\ recovery' = [recovery EXCEPT !.runs = @ \ {r}]
    /\ UNCHANGED <<store, marked, canceler, worker, canceled, caller, due,
                   crashes, stranded>>
-----------------------------------------------------------------------------
Process(w) ==
    \/ Dequeue(w)
    \/ MarkRunning(w)
    \/ RegisterCancel(w)
    \/ Recheck(w)
    \/ StartRun(w)
    \/ Execute(w)
    \/ ReadCanceled(w)
    \/ FinishRun(w)
    \/ FinishJob(w)
    \/ ClearCancel(w)
    \/ Unmark(w)

Trigger(c) == TriggerCreate(c) \/ TriggerUpdate(c) \/ TriggerSend(c)

Handle(c) == DeleteStore(c) \/ CancelContext(c) \/ CancelRun(c) \/ CancelJob(c)

Recover == RecoverList \/ \E r \in Runs : RecoverOne(r)

Next ==
    \/ \E c \in Callers : Trigger(c) \/ TriggerGivesUp(c)
    \/ \E c \in Clients, j \in Jobs : TriggerBegin(c, j) \/ DeleteBegin(c, j)
    \/ \E c \in Clients, r \in Runs : CancelBegin(c, r)
    \/ \E c \in Clients : Handle(c)
    \/ \E j \in Jobs : ScheduleOne(j) \/ Pause(j) \/ Resume(j) \/ Update(j)
    \/ EnqueueDueJobs
    \/ \E w \in Workers : Process(w)
    \/ Recover
    \/ Crash

Spec == Init /\ [][Next]_vars

\* The goroutines that have begun something go on with it, and the runners
\* return.  Strong fairness of the senders: Go serves the goroutines blocked
\* on a channel in turn.  No client has to call or to give up.
FairSpec ==
    /\ Spec
    /\ \A w \in Workers : WF_vars(Process(w))
    /\ \A c \in Callers : SF_vars(Trigger(c))
    /\ \A c \in Clients : WF_vars(Handle(c))
    /\ SF_vars(Recover)
-----------------------------------------------------------------------------
WorkerSteps == {"mark", "register", "recheck", "startRun", "execute", "readCanceled",
                "completeRun", "failRun", "finishJob", "clear", "unmark"}

TypeOK ==
    /\ job \in [Jobs -> {"active", "paused", "deleted"}]
    /\ next \in [Jobs -> {"none", "set"}]
    /\ run \in [Runs -> {"none", "queued", "running", "completed", "failed",
                         "canceled", "deleted"}]
    /\ queue \in Seq(Runs)
    /\ Len(queue) <= QueueSize
    /\ marked \in [Jobs -> Runs \cup {None}]
    /\ canceler \in [Runs -> Workers \cup {None}]
    /\ worker \in [Workers -> [pc : WorkerSteps, run : Runs] \cup {IdleWorker}]
    /\ canceled \in [Workers -> BOOLEAN]
    /\ caller \in [Callers -> [pc : {"idle", "create", "update", "send", "delete",
                                     "cancel", "cancelRun", "cancelJob"},
                               job : Jobs \cup {None}, run : Runs \cup {None}]]
    /\ due \subseteq Jobs
    /\ recovery \in [listed : BOOLEAN, runs : SUBSET Runs]
    /\ crashes \in 0 .. MaxCrashes
    /\ stranded \subseteq Runs

\* w is between markRunning and unmarkRunning with r.
Processing(w, r) == worker[w].run = r /\ worker[w].pc \in WorkerSteps \ {"mark"}

(***************************************************************************)
(* A job's running mark is always held by a worker at work on that run, so *)
(* no job stays "already running" with nothing running: not after a        *)
(* duplicate queue entry, a cancel or a delete in the middle of the run.   *)
(***************************************************************************)
MarkHeldByWorker ==
    \A j \in Jobs :
        marked[j] # None =>
            JobOf[marked[j]] = j /\ \E w \in Workers : Processing(w, marked[j])

(***************************************************************************)
(* No run outlives its job: a trigger racing a delete either makes its run *)
(* before, and the run is deleted with the job, or fails; and no late      *)
(* write of a worker or a cancel brings a deleted run back.                *)
(***************************************************************************)
NoOrphanRun ==
    \A r \in Runs : job[JobOf[r]] = "deleted" => run[r] \in {"none", "deleted"}

(***************************************************************************)
(* An active run is somebody's business: its trigger is about to send it,  *)
(* it is queued, a worker has it, recovery has it on its list or has yet   *)
(* to make the list; or it is stranded in one of the two known ways.       *)
(***************************************************************************)
ActiveRunAccountedFor ==
    \A r \in Runs : Active(r) =>
        \/ \E c \in Callers : caller[c].run = r /\ caller[c].pc \in {"update", "send"}
        \/ \E i \in 1 .. Len(queue) : queue[i] = r
        \/ \E w \in Workers : worker[w].run = r
        \/ ~recovery.listed
        \/ r \in recovery.runs
        \/ r \in stranded

(***************************************************************************)
(* An active job with a schedule always has its next time: neither the end *)
(* of a run nor a cancel, a pause and a resume in between loses it.        *)
(***************************************************************************)
ScheduleKept ==
    \A j \in Scheduled : job[j] = "active" => next[j] # "none"

(***************************************************************************)
(* Every active run that is not stranded ends, also across a restart.      *)
(***************************************************************************)
ActiveRunSettles ==
    \A r \in Runs : Active(r) ~> (~Active(r) \/ r \in stranded)

(***************************************************************************)
(* Whoever waits for room in the queue gets it, a trigger and the recovery *)
(* at start that share it: workers never wait for the queue, nor for       *)
(* recovery to end, so they cannot lock each other up.                     *)
(***************************************************************************)
SendersReturn ==
    \A r \in Runs :
        LET Waits == (\E c \in Callers : At(c, "send") /\ caller[c].run = r)
                     \/ r \in recovery.runs
        IN  Waits ~> ~Waits

(***************************************************************************)
(* service_test.go TestCancelRunPreservesCanceledStatusDuringExecution: a  *)
(* run that was reported canceled stays canceled.                          *)
(***************************************************************************)
CanceledStaysCanceled ==
    [][\A r \in Runs : run[r] = "canceled" => run'[r] \in {"canceled", "deleted"}]_vars
=============================================================================
