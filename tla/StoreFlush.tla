----------------------------- MODULE StoreFlush -----------------------------
(***************************************************************************)
(* How the store gets to disk (backend/internal/store/memory.go): changes  *)
(* mark it dirty, a debouncing worker writes a snapshot outside the lock,  *)
(* calls on transient bot state write one themselves, Flush and Close wait *)
(* for what has been changed so far.                                       *)
(*                                                                         *)
(* A step is a section under the store's mutex or one step of os.WriteFile *)
(* on the one metadata file, which truncates it first.  The contents of    *)
(* the store are its version.                                              *)
(***************************************************************************)
EXTENDS Integers, FiniteSets, TLC

CONSTANTS Transients,   \* goroutines that update transient bot state
          Flushers,     \* goroutines that call Flush
          Closers,      \* those of them that call Close
          Worker,       \* flushWorker
          MaxVersion,   \* bound: changes
          MaxFailures   \* bound: failing writes

ASSUME StoreAssumption ==
    /\ MaxVersion \in Nat
    /\ MaxFailures \in Nat
    /\ Worker \notin Transients
    /\ Closers \subseteq Flushers

VARIABLES
    version, dirty,          \* flushVersion, flushDirty
    queued, signal,          \* flushQueued; flushCh is full
    inProgress, completed,   \* flushInProgress, flushCompleted
    lastErr,                 \* flushLastErr is not nil
    closed,                  \* flushClosed, flushStopCh
    worker,                  \* where flushWorker is
    caller,                  \* per transient call, where it is
    flush,                   \* per flusher, where it is and its targetVersion
    io,                      \* per writer, its snapshot and how far WriteFile is
    disk,                    \* the version in the file, or Torn
    mixed,                   \* writes that had the file open together are not done yet
    failures,
    overlapped,              \* history: a write was begun during another one
    acked                    \* history: the last version Flush has vouched for

flags == <<version, dirty, queued, signal, inProgress, completed, lastErr, closed>>
file == <<disk, mixed, failures>>
history == <<overlapped, acked>>
vars == <<flags, worker, caller, flush, io, file, history>>

Writers == Transients \cup {Worker}

Torn == -1

Writing == \E w \in Writers : io[w].step # "none"

NoWrite == [step |-> "none", v |-> 0, ok |-> TRUE]

Init ==
    /\ version = 0 /\ dirty = FALSE
    /\ queued = FALSE /\ signal = FALSE
    /\ inProgress = FALSE /\ completed = 0
    /\ lastErr = FALSE
    /\ closed = FALSE
    /\ worker = "idle"
    /\ caller = [t \in Transients |-> "idle"]
    /\ flush = [f \in Flushers |-> [pc |-> "idle", target |-> 0]]
    /\ io = [w \in Writers |-> NoWrite]
    /\ disk = 0 /\ mixed = FALSE /\ failures = 0
    /\ overlapped = FALSE /\ acked = 0
-----------------------------------------------------------------------------
(***************************************************************************)
(* requestFlushLocked, flushCond.Broadcast, and the start of a write.      *)
(***************************************************************************)
\* Wrong variant: the flag is set but the worker is not told.
RequestSilently == IF closed \/ queued THEN UNCHANGED <<queued, signal>>
                   ELSE queued' = TRUE /\ UNCHANGED signal

Request == IF closed \/ queued THEN UNCHANGED <<queued, signal>>
           ELSE queued' = TRUE /\ signal' = TRUE

AwakenFlushers ==
    flush' = [f \in Flushers |-> IF flush[f].pc = "asleep"
                                 THEN [flush[f] EXCEPT !.pc = "awake"] ELSE flush[f]]

AwakenCallers(others) ==
    caller' = [t \in Transients |-> IF caller[t] = "asleep" THEN "awake" ELSE others[t]]

Broadcast == AwakenFlushers /\ AwakenCallers(caller)

Prepare(w) ==
    /\ inProgress' = TRUE
    /\ queued' = FALSE
    /\ io' = [io EXCEPT ![w] = [step |-> "prepared", v |-> version, ok |-> TRUE]]
    /\ overlapped' = (overlapped \/ Writing)
    /\ UNCHANGED <<version, dirty, signal, completed, lastErr, closed>>

\* persistLocked, at the end of every change.
Change ==
    /\ version < MaxVersion
    /\ version' = version + 1
    /\ dirty' = TRUE
    /\ Request
    /\ UNCHANGED <<inProgress, completed, lastErr, closed, worker, caller, flush, io,
                   file, history>>
-----------------------------------------------------------------------------
(***************************************************************************)
(* writePersistentStoreSnapshot, without the lock.  Two writers that have  *)
(* the file open together can leave any mixture in it.                     *)
(***************************************************************************)
SharesFile(w) == \E x \in Writers \ {w} : io[x].step = "open"

OpenFile(w) ==
    /\ io[w].step = "prepared"
    /\ io' = [io EXCEPT ![w] = [step |-> "open", v |-> io[w].v, ok |-> TRUE]]
    /\ disk' = Torn
    /\ mixed' = SharesFile(w)
    /\ UNCHANGED <<flags, worker, caller, flush, failures, history>>

Returns(w, ok) == io' = [io EXCEPT ![w] = [step |-> "returned", v |-> io[w].v, ok |-> ok]]

WriteFile(w) ==
    /\ io[w].step = "open"
    /\ Returns(w, TRUE)
    /\ disk' \in {io[w].v} \cup (IF mixed THEN {Torn} ELSE {})
    /\ mixed' = (mixed /\ SharesFile(w))
    /\ UNCHANGED <<flags, worker, caller, flush, failures, history>>

WriteFails(w) ==
    /\ io[w].step \in {"prepared", "open"}
    /\ failures < MaxFailures
    /\ failures' = failures + 1
    /\ Returns(w, FALSE)
    /\ disk' \in {disk} \cup (IF io[w].step = "open" THEN {Torn} ELSE {})
    /\ mixed' = (mixed /\ SharesFile(w))
    /\ UNCHANGED <<flags, worker, caller, flush, history>>

\* flushVersion <= version
ClearsDirty(v) == version <= v

\* completePersistentStoreWriteLocked, and where its caller goes from there.
Complete(w) ==
    LET v == io[w].v
        ok == io[w].ok IN
    /\ io[w].step = "returned"
    /\ io' = [io EXCEPT ![w] = NoWrite]
    /\ inProgress' = FALSE
    /\ lastErr' = ~ok
    /\ completed' = IF ok /\ v > completed THEN v ELSE completed
    /\ dirty' = (dirty /\ ~(ok /\ ClearsDirty(v)))
    /\ IF dirty' THEN Request ELSE UNCHANGED <<queued, signal>>
    /\ AwakenFlushers
    /\ worker' = IF w = Worker THEN "idle" ELSE worker
    /\ AwakenCallers([t \in Transients |-> IF t = w THEN "idle" ELSE caller[t]])
    /\ UNCHANGED <<version, closed, file, history>>
-----------------------------------------------------------------------------
(***************************************************************************)
(* flushWorker                                                             *)
(***************************************************************************)
WorkerWakes ==
    /\ worker = "idle"
    /\ signal
    /\ signal' = FALSE
    /\ worker' = "debounce"
    /\ UNCHANGED <<version, dirty, queued, inProgress, completed, lastErr, closed,
                   caller, flush, io, file, history>>

\* Another signal restarts the timer.
DebounceRestarts ==
    /\ worker = "debounce"
    /\ signal
    /\ signal' = FALSE
    /\ UNCHANGED <<version, dirty, queued, inProgress, completed, lastErr, closed,
                   worker, caller, flush, io, file, history>>

DebounceEnds ==
    /\ worker = "debounce"
    /\ \/ /\ closed \/ ~dirty
          /\ queued' = FALSE
          /\ Broadcast
          /\ worker' = IF closed THEN "exited" ELSE "idle"
          /\ UNCHANGED <<version, dirty, signal, inProgress, completed, lastErr, closed, io,
                         overlapped>>
       \/ /\ ~closed /\ dirty
          /\ Prepare(Worker)
          /\ worker' = "writing"
          /\ UNCHANGED <<caller, flush>>
    /\ UNCHANGED <<file, acked>>

\* Wrong variant: the outer select waits for a signal only.
StopsInDebounce ==
    /\ worker = "debounce"
    /\ closed
    /\ worker' = "exited"
    /\ UNCHANGED <<flags, caller, flush, io, file, history>>

WorkerStops ==
    /\ worker \in {"idle", "debounce"}
    /\ closed
    /\ worker' = "exited"
    /\ UNCHANGED <<flags, caller, flush, io, file, history>>
-----------------------------------------------------------------------------
(***************************************************************************)
(* flushPendingPersistenceLocked: writes itself, but not while another     *)
(* write is in progress.                                                   *)
(***************************************************************************)
TransientFlush(t) ==
    /\ caller[t] \in {"idle", "awake"}
    /\ \/ /\ inProgress
          /\ caller' = [caller EXCEPT ![t] = "asleep"]
          /\ UNCHANGED <<flags, io, overlapped>>
       \/ /\ ~inProgress
          /\ ~dirty
          /\ caller[t] = "awake"
          /\ caller' = [caller EXCEPT ![t] = "idle"]
          /\ UNCHANGED <<flags, io, overlapped>>
       \/ /\ ~inProgress
          /\ dirty
          /\ Prepare(t)
          /\ caller' = [caller EXCEPT ![t] = "writing"]
    /\ UNCHANGED <<worker, flush, file, acked>>
-----------------------------------------------------------------------------
(***************************************************************************)
(* Flush and Close                                                         *)
(***************************************************************************)
\* Wrong variant: a write that is still in progress counts.
ReachedWhenPrepared(target) == ~dirty \/ inProgress

TargetReached(target) == ~dirty /\ ~inProgress /\ completed >= target

\* Flush returns: nil vouches for its target.
FlushReturns(f, pc) == flush' = [flush EXCEPT ![f] = [pc |-> pc, target |-> 0]]

Vouch(f, target) ==
    /\ FlushReturns(f, IF lastErr THEN "err" ELSE "ok")
    /\ acked' = IF ~lastErr /\ target > acked THEN target ELSE acked

\* The error case of the loop: nobody is going to try again.
GivesUp(retry, target) == lastErr /\ ~retry /\ ~inProgress /\ completed < target

Waits(f, target, givesUp) ==
    /\ IF givesUp THEN FlushReturns(f, "err")
       ELSE flush' = [flush EXCEPT ![f] = [pc |-> "asleep", target |-> target]]
    /\ UNCHANGED acked

FlushBegins(f) ==
    /\ flush[f].pc \notin {"asleep", "awake"}
    /\ \/ /\ TargetReached(version)
          /\ Vouch(f, version)
          /\ UNCHANGED <<queued, signal>>
       \/ /\ ~TargetReached(version)
          /\ Request
          /\ Waits(f, version, GivesUp(queued', version))
    /\ UNCHANGED <<version, dirty, inProgress, completed, lastErr, closed, worker, caller,
                   io, file, overlapped>>

FlushContinues(f) ==
    LET target == flush[f].target IN
    /\ flush[f].pc = "awake"
    /\ \/ /\ TargetReached(target)
          /\ Vouch(f, target)
          /\ UNCHANGED <<queued, signal>>
       \/ /\ ~TargetReached(target)
          /\ Waits(f, target, GivesUp(queued, target))
          /\ IF dirty /\ ~inProgress /\ ~GivesUp(queued, target)
             THEN Request ELSE UNCHANGED <<queued, signal>>
    /\ UNCHANGED <<version, dirty, inProgress, completed, lastErr, closed, worker, caller,
                   io, file, overlapped>>

\* Close's second part; the changes since its Flush are not looked at.
CloseStore(f) ==
    /\ flush[f].pc = "ok"
    /\ ~closed
    /\ closed' = TRUE
    /\ Broadcast
    /\ UNCHANGED <<version, dirty, queued, signal, inProgress, completed, lastErr, worker,
                   io, file, history>>
-----------------------------------------------------------------------------
WriterStep(w) == OpenFile(w) \/ WriteFile(w) \/ WriteFails(w) \/ Complete(w)

WorkerStep == WorkerWakes \/ DebounceRestarts \/ DebounceEnds \/ WorkerStops

Next ==
    \/ Change
    \/ \E w \in Writers : WriterStep(w)
    \/ WorkerStep
    \/ \E t \in Transients : TransientFlush(t)
    \/ \E f \in Flushers : FlushBegins(f) \/ FlushContinues(f)
    \/ \E f \in Closers : CloseStore(f)

Spec == Init /\ [][Next]_vars

\* The worker's timer fires and goroutines that can go on do; nobody has to
\* change anything or to call Flush, and writes need not fail.
FairSpec ==
    /\ Spec
    /\ WF_vars(WorkerWakes \/ DebounceEnds \/ WorkerStops \/ WriterStep(Worker))
    /\ \A t \in Transients :
          WF_vars((caller[t] = "awake" /\ TransientFlush(t)) \/ WriterStep(t))
    /\ \A f \in Flushers : WF_vars(FlushContinues(f))
-----------------------------------------------------------------------------
TypeOK ==
    /\ version \in 0 .. MaxVersion /\ dirty \in BOOLEAN
    /\ queued \in BOOLEAN /\ signal \in BOOLEAN
    /\ inProgress \in BOOLEAN /\ completed \in 0 .. version
    /\ lastErr \in BOOLEAN /\ closed \in BOOLEAN
    /\ worker \in {"idle", "debounce", "writing", "exited"}
    /\ caller \in [Transients -> {"idle", "asleep", "awake", "writing"}]
    /\ flush \in [Flushers -> [pc : {"idle", "asleep", "awake", "ok", "err"},
                               target : 0 .. version]]
    /\ io \in [Writers -> [step : {"none", "prepared", "open", "returned"},
                           v : 0 .. version, ok : BOOLEAN]]
    /\ disk \in {Torn} \cup 0 .. version
    /\ mixed \in BOOLEAN
    /\ failures \in 0 .. MaxFailures
    /\ overlapped \in BOOLEAN
    /\ acked \in 0 .. version

(***************************************************************************)
(* A store that is not dirty has been written as it is, also when writes   *)
(* overlap and an older snapshot completes last (the version comparison in *)
(* completePersistentStoreWriteLocked).                                    *)
(***************************************************************************)
CleanMeansCompleted == ~dirty => completed = version

(***************************************************************************)
(* A change is never forgotten: as long as the store is open and dirty,    *)
(* the worker has been signalled or is about to look, or a write is under  *)
(* way whose completion asks for another one.  flushPendingPersistence-    *)
(* Locked clears flushQueued under the worker's feet; this is the          *)
(* invariant that still has to hold.                                       *)
(***************************************************************************)
DirtyIsPending == (dirty /\ ~closed) => (signal \/ worker = "debounce" \/ Writing)

(***************************************************************************)
(* As long as no two writes have been under way at once, what Flush has    *)
(* vouched for is in the file whenever nobody is writing, unless the last  *)
(* write failed and said so (plan: the version comparison keeps a write    *)
(* from covering up the changes made while it ran).  After an overlap,     *)
(* which the code allows, the older snapshot may be the one that stays.    *)
(***************************************************************************)
FlushedIsOnDisk == (~overlapped /\ ~Writing /\ ~lastErr) => disk >= acked

(***************************************************************************)
(* Flush returns, however changes, transient calls, other goroutines in    *)
(* Flush and failing writes come in between, on a store that is never      *)
(* closed (on a closed one a change nobody has flushed makes it wait for a *)
(* worker that has ended); and Close gets its worker to end (flushWG.Wait).*)
(***************************************************************************)
FlushAndCloseReturn ==
    /\ \A f \in Flushers :
          (flush[f].pc \in {"asleep", "awake"}) ~> (flush[f].pc \in {"ok", "err"} \/ closed)
    /\ closed ~> (worker = "exited")

(***************************************************************************)
(* A change gets to the file without anybody asking for it, as long as the *)
(* store stays open and writes do not fail for ever and no two of them     *)
(* overlap (then the file can be left behind, see FlushedIsOnDisk).        *)
(***************************************************************************)
ChangesReachDisk ==
    \A v \in 1 .. MaxVersion : (version >= v) ~> (disk >= v \/ closed \/ overlapped)
-----------------------------------------------------------------------------
Promise == INSTANCE WriteBehind WITH
    latest <- version, file <- disk, confirmed <- completed, vouched <- acked,
    alone <- ~overlapped

(***************************************************************************)
(* The store implements a write-behind file: every step of the queue, the  *)
(* worker, the callers and os.WriteFile changes the contents, the file and *)
(* what is known of it as WriteBehind allows, or not at all.  In           *)
(* particular a write that is alone is never older than one that has been  *)
(* confirmed, and Flush vouches for nothing that has not been.             *)
(***************************************************************************)
ImplementsWriteBehind == Promise!Spec
=============================================================================
