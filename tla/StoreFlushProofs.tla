-------------------------- MODULE StoreFlushProofs --------------------------
(***************************************************************************)
(* Proofs about StoreFlush for any number of changes, failing writes,      *)
(* transient calls and flushers.  Two facts carry DirtyIsPending: the      *)
(* worker's writes happen while it is "writing" (so completing one does    *)
(* not take it out of its debounce), and flushQueued alone already means   *)
(* that the worker is going to look.  The last theorem is the refinement:  *)
(* StoreFlush implements WriteBehind.                                      *)
(***************************************************************************)
EXTENDS StoreFlush, TLAPS

QueuedIsPending == queued => (signal \/ worker = "debounce" \/ closed)

WorkerWrites == io[Worker].step # "none" => worker = "writing"

StoreInv ==
    /\ TypeOK
    /\ QueuedIsPending
    /\ WorkerWrites
    /\ CleanMeansCompleted
    /\ DirtyIsPending

Busy(w) == io[w].step # "none"

\* What can be said about the file as long as no two writes have overlapped.
LoneWriter ==
    /\ acked <= completed
    /\ ~overlapped =>
          /\ ~mixed
          /\ \A w, x \in Writers : Busy(w) /\ Busy(x) => w = x
          /\ ~Writing /\ ~lastErr => disk = completed
          /\ \A w \in Writers : Busy(w) => completed <= io[w].v
          /\ \A w \in Writers : io[w].step = "returned" /\ io[w].ok => disk = io[w].v
-----------------------------------------------------------------------------
(* The store starts clean, as loaded, with its worker waiting              *)
(* (startFlushWorker).                                                     *)
LEMMA InitStoreInv == Init => StoreInv
  <1> SUFFICES ASSUME Init PROVE StoreInv
    OBVIOUS
  <1> USE StoreAssumption
  <1>1. TypeOK
    <2>1. io \in [Writers -> [step : {"none", "prepared", "open", "returned"},
                             v : 0 .. version, ok : BOOLEAN]]
      BY DEF Init, NoWrite
    <2>2. flush \in [Flushers -> [pc : {"idle", "asleep", "awake", "ok", "err"},
                                  target : 0 .. version]]
      BY DEF Init
    <2>3. /\ version \in 0 .. MaxVersion /\ completed \in 0 .. version
          /\ failures \in 0 .. MaxFailures /\ disk \in {Torn} \cup 0 .. version
          /\ acked \in 0 .. version
      BY DEF Init
    <2> QED
      BY <2>1, <2>2, <2>3 DEF Init, TypeOK
  <1>2. QueuedIsPending /\ WorkerWrites /\ CleanMeansCompleted /\ DirtyIsPending
    BY DEF Init, QueuedIsPending, WorkerWrites, CleanMeansCompleted, DirtyIsPending,
        NoWrite, Writers
  <1> QED
    BY <1>1, <1>2 DEF StoreInv
-----------------------------------------------------------------------------
(* requestFlushLocked leaves the flags Boolean, and asked for on an open   *)
(* store it leaves a flush queued.                                         *)
LEMMA RequestFacts ==
    ASSUME queued \in BOOLEAN, signal \in BOOLEAN, closed \in BOOLEAN, Request
    PROVE  /\ queued' \in BOOLEAN /\ signal' \in BOOLEAN
           /\ queued' => signal' \/ queued
           /\ signal => signal'
           /\ ~closed => queued'
  BY DEF Request

(* flushCond.Broadcast puts every sleeper back on its feet. *)
LEMMA BroadcastTypes ==
    ASSUME TypeOK
    PROVE  /\ AwakenFlushers => flush' \in [Flushers -> [pc : {"idle", "asleep", "awake", "ok", "err"},
                                                         target : 0 .. version]]
           /\ \A others \in [Transients -> {"idle", "asleep", "awake", "writing"}] :
                AwakenCallers(others) =>
                    caller' \in [Transients -> {"idle", "asleep", "awake", "writing"}]
  BY DEF TypeOK, AwakenFlushers, AwakenCallers

(* A snapshot is of the current version (preparePersistentStoreWriteLocked). *)
LEMMA PrepareTypes ==
    ASSUME TypeOK, NEW w \in Writers, Prepare(w)
    PROVE  /\ io' \in [Writers -> [step : {"none", "prepared", "open", "returned"},
                                   v : 0 .. version', ok : BOOLEAN]]
           /\ inProgress' \in BOOLEAN /\ queued' \in BOOLEAN
           /\ overlapped' \in BOOLEAN
           /\ UNCHANGED <<version, dirty, signal, completed, lastErr, closed>>
  <1>1. [step |-> "prepared", v |-> version, ok |-> TRUE]
          \in [step : {"none", "prepared", "open", "returned"}, v : 0 .. version, ok : BOOLEAN]
    BY StoreAssumption DEF TypeOK
  <1>2. overlapped' \in BOOLEAN
    BY Zenon DEF Prepare
  <1> QED
    BY <1>1, <1>2 DEF TypeOK, Prepare

(* Every step keeps the types. *)
LEMMA TypeStep ==
    ASSUME TypeOK, [Next]_vars
    PROVE  TypeOK'
  <1> USE StoreAssumption DEF TypeOK, flags, file, history
  <1>1. CASE Change
    BY <1>1, RequestFacts DEF Change
  <1>2. CASE \E w \in Writers : OpenFile(w)
    <2>1. PICK w \in Writers : OpenFile(w)
      BY <1>2
    <2>2. mixed' \in BOOLEAN
      BY <2>1, Zenon DEF OpenFile, SharesFile
    <2> QED
      BY <2>1, <2>2 DEF OpenFile, Torn
  <1>3. CASE \E w \in Writers : WriteFile(w)
    <2>1. PICK w \in Writers : WriteFile(w)
      BY <1>3
    <2>2. disk' \in {Torn} \cup 0 .. version
      BY <2>1 DEF WriteFile
    <2>3. mixed' \in BOOLEAN
      BY <2>1, Zenon DEF WriteFile, SharesFile
    <2> QED
      BY <2>1, <2>2, <2>3 DEF WriteFile, Returns
  <1>4. CASE \E w \in Writers : WriteFails(w)
    <2>1. PICK w \in Writers : WriteFails(w)
      BY <1>4
    <2>2. disk' \in {Torn} \cup 0 .. version
      BY <2>1 DEF WriteFails
    <2> QED
      BY <2>1, <2>2 DEF WriteFails, Returns
  <1>5. CASE \E w \in Writers : Complete(w)
    <2>1. PICK w \in Writers : Complete(w)
      BY <1>5
    <2>2. io' \in [Writers -> [step : {"none", "prepared", "open", "returned"},
                              v : 0 .. version', ok : BOOLEAN]]
      BY <2>1 DEF Complete, NoWrite
    <2>3. dirty' \in BOOLEAN /\ lastErr' \in BOOLEAN /\ inProgress' \in BOOLEAN
      BY <2>1, ZenonT(20) DEF Complete
    <2>4. queued' \in BOOLEAN /\ signal' \in BOOLEAN
      BY <2>1, RequestFacts DEF Complete
    <2>5. completed' \in 0 .. version'
      BY <2>1 DEF Complete
    <2>6. flush' \in [Flushers -> [pc : {"idle", "asleep", "awake", "ok", "err"},
                                   target : 0 .. version']]
      BY <2>1, BroadcastTypes DEF Complete
    <2>7. caller' \in [Transients -> {"idle", "asleep", "awake", "writing"}]
      <3>1. [t \in Transients |-> IF t = w THEN "idle" ELSE caller[t]]
              \in [Transients -> {"idle", "asleep", "awake", "writing"}]
        OBVIOUS
      <3> QED
        BY <2>1, <3>1, BroadcastTypes DEF Complete
    <2> QED
      BY <2>1, <2>2, <2>3, <2>4, <2>5, <2>6, <2>7 DEF Complete
  <1>6. CASE WorkerWakes \/ DebounceRestarts
    BY <1>6 DEF WorkerWakes, DebounceRestarts
  <1>7. CASE DebounceEnds
    <2>1. CASE Broadcast /\ UNCHANGED <<dirty, inProgress, io, overlapped>>
      BY <1>7, <2>1, BroadcastTypes DEF DebounceEnds, Broadcast, Prepare
    <2>2. CASE Prepare(Worker) /\ UNCHANGED <<caller, flush>>
      <3>1. Worker \in Writers
        BY DEF Writers
      <3> QED
        BY <1>7, <2>2, <3>1, PrepareTypes DEF DebounceEnds
    <2> QED
      BY <1>7, <2>1, <2>2 DEF DebounceEnds
  <1>8. CASE WorkerStops
    BY <1>8 DEF WorkerStops
  <1>9. CASE \E t \in Transients : TransientFlush(t)
    <2>1. PICK t \in Transients : TransientFlush(t)
      BY <1>9
    <2>2. CASE Prepare(t)
      <3>1. t \in Writers
        BY DEF Writers
      <3>2. caller' \in [Transients -> {"idle", "asleep", "awake", "writing"}]
        BY <2>1 DEF TransientFlush
      <3> QED
        BY <2>1, <2>2, <3>1, <3>2, PrepareTypes DEF TransientFlush
    <2>3. CASE UNCHANGED <<flags, io, overlapped>>
      BY <2>1, <2>3 DEF TransientFlush
    <2> QED
      BY <2>1, <2>2, <2>3 DEF TransientFlush
  <1>10. CASE \E f \in Flushers : FlushBegins(f)
    BY <1>10, RequestFacts DEF FlushBegins, Vouch, Waits, FlushReturns
  <1>11. CASE \E f \in Flushers : FlushContinues(f)
    BY <1>11, RequestFacts DEF FlushContinues, Vouch, Waits, FlushReturns
  <1>12. CASE \E f \in Closers : CloseStore(f)
    BY <1>12, BroadcastTypes DEF CloseStore, Broadcast
  <1>13. CASE UNCHANGED vars
    BY <1>13 DEF vars
  <1> QED
    BY <1>1, <1>2, <1>3, <1>4, <1>5, <1>6, <1>7, <1>8, <1>9, <1>10, <1>11, <1>12, <1>13
    DEF Next, WriterStep, WorkerStep
-----------------------------------------------------------------------------
(***************************************************************************)
(* flushQueued means that the worker will look: it is cleared by whoever   *)
(* looks or writes, and set only together with a signal.                   *)
(***************************************************************************)
LEMMA QueuedStep ==
    ASSUME TypeOK, QueuedIsPending, WorkerWrites, [Next]_vars
    PROVE  QueuedIsPending' /\ WorkerWrites'
  <1> USE StoreAssumption DEF TypeOK, QueuedIsPending, WorkerWrites, flags, file
  <1>1. CASE Change
    BY <1>1 DEF Change, Request
  <1>2. CASE \E w \in Writers : OpenFile(w) \/ WriteFile(w) \/ WriteFails(w)
    <2>1. PICK w \in Writers : OpenFile(w) \/ WriteFile(w) \/ WriteFails(w)
      BY <1>2
    <2>2. io[w].step # "none" /\ \E r : io' = [io EXCEPT ![w] = r]
      BY <2>1 DEF OpenFile, WriteFile, WriteFails, Returns
    <2>3. UNCHANGED <<flags, worker>>
      BY <2>1 DEF OpenFile, WriteFile, WriteFails
    <2> QED
      BY <2>2, <2>3
  <1>3. CASE \E w \in Writers : Complete(w)
    <2>1. PICK w \in Writers : Complete(w)
      BY <1>3
    <2>2. io'[Worker].step # "none" => w # Worker /\ io[Worker].step # "none"
      BY <2>1 DEF Complete, NoWrite, Writers
    <2>3. worker' = "debounce" <=> worker = "debounce"
      BY <2>1 DEF Complete
    <2>4. queued' => signal' \/ worker' = "debounce" \/ closed'
      BY <2>1, <2>3 DEF Complete, Request
    <2> QED
      BY <2>1, <2>2, <2>4 DEF Complete
  <1>4. CASE WorkerStep
    BY <1>4 DEF WorkerStep, WorkerWakes, DebounceRestarts, DebounceEnds, WorkerStops,
        Broadcast, Prepare, Writers
  <1>5. CASE \E t \in Transients : TransientFlush(t)
    BY <1>5 DEF TransientFlush, Prepare, Writers
  <1>6. CASE \E f \in Flushers : FlushBegins(f) \/ FlushContinues(f)
    BY <1>6 DEF FlushBegins, FlushContinues, Request
  <1>7. CASE \E f \in Closers : CloseStore(f)
    BY <1>7 DEF CloseStore
  <1>8. CASE UNCHANGED vars
    BY <1>8 DEF vars
  <1> QED
    BY <1>1, <1>2, <1>3, <1>4, <1>5, <1>6, <1>7, <1>8 DEF Next, WriterStep

LastCompleted(c, v, ok) == IF ok /\ v > c THEN v ELSE c

(* flushCompleted is the newest version a write has completed with. *)
LEMMA LastCompletedIsLast ==
    ASSUME NEW n \in Nat, NEW c \in 0 .. n, NEW v \in 0 .. n, NEW ok \in BOOLEAN
    PROVE  /\ ok /\ n <= v => LastCompleted(c, v, ok) = n
           /\ c = n => LastCompleted(c, v, ok) = n
  BY DEF LastCompleted

(* ... and never goes back. *)
LEMMA LastCompletedGrows ==
    ASSUME NEW n \in Nat, NEW c \in 0 .. n, NEW v \in 0 .. n, NEW ok \in BOOLEAN
    PROVE  /\ c <= LastCompleted(c, v, ok)
           /\ ~ok => LastCompleted(c, v, ok) = c
           /\ ok /\ c <= v => LastCompleted(c, v, ok) = v
  BY DEF LastCompleted

(***************************************************************************)
(* Only completing a write of the current version clears the flag, whoever *)
(* completes last (completePersistentStoreWriteLocked).                    *)
(***************************************************************************)
LEMMA CleanStep ==
    ASSUME TypeOK, CleanMeansCompleted, [Next]_vars
    PROVE  CleanMeansCompleted'
  <1> USE StoreAssumption DEF TypeOK, CleanMeansCompleted, flags, file
  <1>1. CASE Change
    BY <1>1 DEF Change
  <1>2. CASE \E w \in Writers : OpenFile(w) \/ WriteFile(w) \/ WriteFails(w)
    <2>1. UNCHANGED flags
      BY <1>2 DEF OpenFile, WriteFile, WriteFails
    <2> QED
      BY <2>1
  <1>3. CASE \E w \in Writers : Complete(w)
    <2>1. PICK w \in Writers : Complete(w)
      BY <1>3
    <2>2. io[w].v \in 0 .. version /\ version' = version
      BY <2>1 DEF Complete
    <2>3. ~dirty' => ~dirty \/ (io[w].ok /\ version <= io[w].v)
      BY <2>1 DEF Complete, ClearsDirty
    <2>4. completed' = LastCompleted(completed, io[w].v, io[w].ok)
      BY <2>1 DEF Complete, LastCompleted
    <2>5. /\ io[w].ok /\ version <= io[w].v => completed' = version
          /\ completed = version => completed' = version
      BY <2>2, <2>4, LastCompletedIsLast
    <2> QED
      <3>1. CASE ~dirty
        <4>1. completed = version
          BY <3>1
        <4> QED
          BY <4>1, <2>2, <2>5
      <3>2. CASE io[w].ok /\ version <= io[w].v
        BY <3>2, <2>2, <2>5
      <3> QED
        BY <2>3, <3>1, <3>2
  <1>4. CASE WorkerStep
    BY <1>4 DEF WorkerStep, WorkerWakes, DebounceRestarts, DebounceEnds, WorkerStops, Prepare
  <1>5. CASE \E t \in Transients : TransientFlush(t)
    BY <1>5 DEF TransientFlush, Prepare
  <1>6. CASE \E f \in Flushers : FlushBegins(f) \/ FlushContinues(f)
    BY <1>6 DEF FlushBegins, FlushContinues
  <1>7. CASE \E f \in Closers : CloseStore(f)
    BY <1>7 DEF CloseStore
  <1>8. CASE UNCHANGED vars
    BY <1>8 DEF vars
  <1> QED
    BY <1>1, <1>2, <1>3, <1>4, <1>5, <1>6, <1>7, <1>8 DEF Next, WriterStep

(***************************************************************************)
(* A dirty store is on somebody's list after every step: the one who       *)
(* clears flushQueued writes, and a write that ends with the store still   *)
(* dirty asks for another.                                                 *)
(***************************************************************************)
LEMMA DirtyStep ==
    ASSUME TypeOK, QueuedIsPending, WorkerWrites, DirtyIsPending, [Next]_vars
    PROVE  DirtyIsPending'
  <1> USE StoreAssumption DEF TypeOK, DirtyIsPending, flags, file
  <1>1. CASE Change
    BY <1>1 DEF Change, Request, QueuedIsPending
  <1>2. CASE \E w \in Writers : OpenFile(w) \/ WriteFile(w) \/ WriteFails(w)
    <2>1. PICK w \in Writers : OpenFile(w) \/ WriteFile(w) \/ WriteFails(w)
      BY <1>2
    <2>2. io'[w].step # "none"
      <3>1. CASE OpenFile(w)
        BY <3>1 DEF OpenFile
      <3>2. CASE WriteFile(w)
        BY <3>2 DEF WriteFile, Returns
      <3>3. CASE WriteFails(w)
        BY <3>3 DEF WriteFails, Returns
      <3> QED
        BY <2>1, <3>1, <3>2, <3>3
    <2>3. Writing'
      BY <2>2 DEF Writing
    <2> QED
      BY <2>3
  <1>3. CASE \E w \in Writers : Complete(w)
    <2>1. PICK w \in Writers : Complete(w)
      BY <1>3
    <2>2. worker' = "debounce" <=> worker = "debounce"
      BY <2>1 DEF Complete, WorkerWrites
    <2>3. dirty' /\ ~closed' => signal' \/ worker = "debounce"
      BY <2>1 DEF Complete, Request, QueuedIsPending
    <2> QED
      BY <2>2, <2>3
  <1>4. CASE WorkerWakes \/ DebounceRestarts \/ WorkerStops
    BY <1>4 DEF WorkerWakes, DebounceRestarts, WorkerStops
  <1>5. CASE DebounceEnds
    <2>1. CASE closed \/ ~dirty
      BY <1>5, <2>1 DEF DebounceEnds
    <2>2. CASE ~closed /\ dirty
      <3>1. Prepare(Worker) /\ Worker \in Writers
        BY <1>5, <2>2 DEF DebounceEnds, Writers
      <3>2. io'[Worker].step # "none"
        BY <3>1 DEF Prepare
      <3> QED
        BY <3>1, <3>2 DEF Writing
    <2> QED
      BY <2>1, <2>2
  <1>6. CASE \E t \in Transients : TransientFlush(t)
    <2>1. PICK t \in Transients : TransientFlush(t)
      BY <1>6
    <2>2. CASE Prepare(t)
      <3>1. io'[t].step # "none" /\ t \in Writers
        BY <2>2 DEF Prepare, Writers
      <3> QED
        BY <3>1 DEF Writing
    <2>3. CASE UNCHANGED <<flags, io>>
      BY <2>1, <2>3 DEF TransientFlush, Writing
    <2> QED
      BY <2>1, <2>2, <2>3 DEF TransientFlush
  <1>7. CASE \E f \in Flushers : FlushBegins(f) \/ FlushContinues(f)
    <2>1. UNCHANGED <<dirty, closed, worker, io>>
      BY <1>7 DEF FlushBegins, FlushContinues
    <2>2. signal => signal'
      BY <1>7 DEF FlushBegins, FlushContinues, Request
    <2> QED
      BY <2>1, <2>2 DEF Writing
  <1>8. CASE \E f \in Closers : CloseStore(f)
    BY <1>8 DEF CloseStore
  <1>9. CASE UNCHANGED vars
    BY <1>9 DEF vars, Writing
  <1> QED
    BY <1>1, <1>2, <1>3, <1>4, <1>5, <1>6, <1>7, <1>8, <1>9 DEF Next, WriterStep, WorkerStep
-----------------------------------------------------------------------------
(***************************************************************************)
(* The inductive invariant holds in every reachable state.                 *)
(***************************************************************************)
THEOREM StoreInvariant == Spec => []StoreInv
  <1>1. StoreInv /\ [Next]_vars => StoreInv'
    BY TypeStep, QueuedStep, CleanStep, DirtyStep DEF StoreInv
  <1> QED
    BY InitStoreInv, <1>1, PTL DEF Spec

(* Every variable keeps its type. *)
THEOREM StoreTypeCorrect == Spec => []TypeOK
  BY StoreInvariant, PTL DEF StoreInv

(***************************************************************************)
(* A store that is not dirty has completed a write of its current version  *)
(* (flushDirty and flushCompleted).                                        *)
(***************************************************************************)
THEOREM CleanStoreIsWritten == Spec => []CleanMeansCompleted
  BY StoreInvariant, PTL DEF StoreInv

(***************************************************************************)
(* No change is forgotten while the store is open (requestFlushLocked,     *)
(* flushWorker, flushPendingPersistenceLocked).                            *)
(***************************************************************************)
THEOREM NoChangeForgotten == Spec => []DirtyIsPending
  BY StoreInvariant, PTL DEF StoreInv
-----------------------------------------------------------------------------
(***************************************************************************)
(* A write that is begun while another is under way sets overlapped; up to *)
(* then there is one writer, its snapshot is no older than what has been   *)
(* completed, and the file holds the last completed version once it has    *)
(* ended.                                                                  *)
(***************************************************************************)
LEMMA LonePrepare ==
    ASSUME TypeOK, LoneWriter, NEW w \in Writers, Prepare(w), UNCHANGED <<file, acked>>
    PROVE  LoneWriter'
  <1> USE StoreAssumption DEF TypeOK, file
  <1>1. UNCHANGED <<disk, mixed, acked, completed, lastErr>>
    BY DEF Prepare
  <1>2. acked' <= completed'
    BY <1>1 DEF LoneWriter
  <1>3. CASE overlapped'
    BY <1>2, <1>3 DEF LoneWriter
  <1>4. CASE ~overlapped'
    <2>1. ~overlapped /\ \A x \in Writers : io[x].step = "none"
      BY <1>4 DEF Prepare, Writing
    <2>2. /\ io'[w] = [step |-> "prepared", v |-> version, ok |-> TRUE]
          /\ \A x \in Writers \ {w} : io'[x] = io[x]
      BY DEF Prepare
    <2>3. Writing'
      BY <2>2 DEF Writing
    <2>4. \A x \in Writers : Busy(x)' <=> x = w
      BY <2>1, <2>2 DEF Busy
    <2>5. \A x \in Writers : io'[x].step # "returned"
      BY <2>1, <2>2
    <2>6. \A x \in Writers : Busy(x)' => completed' <= io'[x].v
      BY <1>1, <2>2, <2>4
    <2>7. ~mixed'
      BY <1>1, <2>1 DEF LoneWriter
    <2> QED
      BY <1>2, <2>3, <2>4, <2>5, <2>6, <2>7 DEF LoneWriter
  <1> QED
    BY <1>3, <1>4

(* Completing the one write (completePersistentStoreWriteLocked). *)
LEMMA LoneComplete ==
    ASSUME TypeOK, LoneWriter, NEW w \in Writers, Complete(w)
    PROVE  LoneWriter'
  <1> USE StoreAssumption DEF TypeOK, file, history
  <1> DEFINE c == LastCompleted(completed, io[w].v, io[w].ok)
  <1>1. /\ UNCHANGED <<version, disk, mixed, overlapped, acked>>
        /\ io'[w].step = "none"
        /\ \A x \in Writers \ {w} : io'[x] = io[x]
        /\ completed' = c
        /\ io[w].step = "returned"
    BY DEF Complete, NoWrite, LastCompleted
  <1>2. lastErr' <=> ~io[w].ok
    BY DEF Complete
  <1>3. /\ completed <= c
        /\ ~io[w].ok => c = completed
        /\ io[w].ok /\ completed <= io[w].v => c = io[w].v
    <2>1. io[w] \in [step : {"none", "prepared", "open", "returned"},
                     v : 0 .. version, ok : BOOLEAN]
      OBVIOUS
    <2>2. io[w].v \in 0 .. version /\ io[w].ok \in BOOLEAN
      BY <2>1
    <2>3. version \in Nat /\ completed \in 0 .. version
      OBVIOUS
    <2> QED
      <3> HIDE DEF TypeOK
      <3> QED
        BY <2>2, <2>3, LastCompletedGrows, SMTT(30)
  <1>4. acked' <= completed'
    <2>1. acked \in Int /\ completed \in Int /\ c \in Int
      BY DEF LastCompleted
    <2>2. acked <= completed /\ completed <= c
      BY <1>3 DEF LoneWriter
    <2>3. acked <= c
      <3> HIDE DEF c, TypeOK
      <3> QED
        BY <2>1, <2>2
    <2> QED
      BY <1>1, <2>3
  <1>5. CASE overlapped
    BY <1>1, <1>4, <1>5 DEF LoneWriter
  <1>6. CASE ~overlapped
    <2>1. \A x \in Writers : io'[x].step = "none"
      BY <1>1, <1>6 DEF LoneWriter, Busy
    <2>2. ~lastErr' => disk' = completed'
      BY <1>1, <1>2, <1>3, <1>6 DEF LoneWriter, Busy
    <2>3. ~mixed'
      BY <1>1, <1>6 DEF LoneWriter
    <2> QED
      BY <1>4, <2>1, <2>2, <2>3 DEF LoneWriter, Busy
  <1> QED
    BY <1>5, <1>6

(* WriteFile's steps (writePersistentStoreSnapshot). *)
LEMMA LoneWrite ==
    ASSUME TypeOK, LoneWriter, NEW w \in Writers, OpenFile(w) \/ WriteFile(w) \/ WriteFails(w)
    PROVE  LoneWriter'
  <1> USE StoreAssumption DEF TypeOK, flags, file, history
  <1>1. /\ UNCHANGED <<completed, lastErr, overlapped, acked, version>>
        /\ io[w].step # "none" /\ io'[w].step # "none" /\ io'[w].v = io[w].v
        /\ \A x \in Writers \ {w} : io'[x] = io[x]
    <2>1. /\ io'[w].step # "none" /\ io'[w].v = io[w].v
          /\ \A x \in Writers \ {w} : io'[x] = io[x]
      <3>1. CASE OpenFile(w)
        BY <3>1 DEF OpenFile
      <3>2. CASE WriteFile(w)
        BY <3>2 DEF WriteFile, Returns
      <3>3. CASE WriteFails(w)
        BY <3>3 DEF WriteFails, Returns
      <3> QED
        BY <3>1, <3>2, <3>3
    <2>2. UNCHANGED <<completed, lastErr, overlapped, acked, version>> /\ io[w].step # "none"
      BY DEF OpenFile, WriteFile, WriteFails
    <2> QED
      BY <2>1, <2>2
  <1>2. Writing'
    BY <1>1 DEF Writing
  <1>3. CASE overlapped
    BY <1>1, <1>3 DEF LoneWriter
  <1>4. CASE ~overlapped
    <2>1. \A x \in Writers : x # w => io[x].step = "none" /\ io'[x].step = "none"
      BY <1>1, <1>4 DEF LoneWriter, Busy
    <2>2. ~mixed'
      BY <1>4, <2>1 DEF OpenFile, WriteFile, WriteFails, SharesFile, LoneWriter
    <2>3. io'[w].step = "returned" /\ io'[w].ok => disk' = io'[w].v
      <3>1. CASE OpenFile(w)
        BY <3>1 DEF OpenFile
      <3>2. CASE WriteFile(w)
        BY <1>4, <3>2 DEF WriteFile, Returns, LoneWriter
      <3>3. CASE WriteFails(w)
        BY <3>3 DEF WriteFails, Returns
      <3> QED
        BY <3>1, <3>2, <3>3
    <2>4. completed' <= io'[w].v
      BY <1>1, <1>4 DEF LoneWriter, Busy
    <2> QED
      BY <1>1, <1>2, <1>4, <2>1, <2>2, <2>3, <2>4 DEF LoneWriter, Busy
  <1> QED
    BY <1>3, <1>4

(* Steps that touch neither the file nor a write keep all of it. *)
LEMMA LoneWriterStep ==
    ASSUME TypeOK, LoneWriter, [Next]_vars
    PROVE  LoneWriter'
  <1> USE StoreAssumption DEF TypeOK, flags, file, history
  <1>1. CASE Change
    BY <1>1 DEF Change, LoneWriter, Busy, Writing
  <1>2. CASE \E w \in Writers : WriterStep(w)
    BY <1>2, LoneWrite, LoneComplete DEF WriterStep
  <1>3. CASE WorkerWakes \/ DebounceRestarts \/ WorkerStops
    BY <1>3 DEF WorkerWakes, DebounceRestarts, WorkerStops, LoneWriter, Busy, Writing
  <1>4. CASE DebounceEnds
    <2>1. Worker \in Writers
      BY DEF Writers
    <2>2. CASE Prepare(Worker)
      BY <1>4, <2>1, <2>2, LonePrepare DEF DebounceEnds
    <2>3. CASE UNCHANGED <<completed, lastErr, io, overlapped>>
      BY <1>4, <2>3 DEF DebounceEnds, LoneWriter, Busy, Writing
    <2> QED
      BY <1>4, <2>2, <2>3 DEF DebounceEnds
  <1>5. CASE \E t \in Transients : TransientFlush(t)
    <2>1. PICK t \in Transients : TransientFlush(t)
      BY <1>5
    <2>2. t \in Writers
      BY DEF Writers
    <2>3. CASE Prepare(t)
      BY <2>1, <2>2, <2>3, LonePrepare DEF TransientFlush
    <2>4. CASE UNCHANGED <<flags, io, overlapped>>
      BY <2>1, <2>4 DEF TransientFlush, LoneWriter, Busy, Writing
    <2> QED
      BY <2>1, <2>3, <2>4 DEF TransientFlush
  <1>6. CASE \E f \in Flushers : FlushBegins(f) \/ FlushContinues(f)
    <2>1. UNCHANGED <<completed, lastErr, io, disk, mixed, overlapped>>
      BY <1>6 DEF FlushBegins, FlushContinues
    <2>2. acked' <= completed'
      <3>1. CASE \E f \in Flushers : FlushBegins(f)
        BY <3>1 DEF FlushBegins, Vouch, Waits, TargetReached, LoneWriter
      <3>2. CASE \E f \in Flushers : FlushContinues(f)
        BY <3>2 DEF FlushContinues, Vouch, Waits, TargetReached, LoneWriter
      <3> QED
        BY <1>6, <3>1, <3>2
    <2> QED
      BY <2>1, <2>2 DEF LoneWriter, Busy, Writing
  <1>7. CASE \E f \in Closers : CloseStore(f)
    BY <1>7 DEF CloseStore, LoneWriter, Busy, Writing
  <1>8. CASE UNCHANGED vars
    BY <1>8 DEF vars, LoneWriter, Busy, Writing
  <1> QED
    BY <1>1, <1>2, <1>3, <1>4, <1>5, <1>6, <1>7, <1>8 DEF Next, WorkerStep

(* The strengthening for what is said of the file. *)
THEOREM LoneWriterInvariant == Spec => []LoneWriter
  <1>1. Init => LoneWriter
    <2>1. ASSUME Init PROVE \A w \in Writers : io[w].step = "none"
      BY <2>1 DEF Init, NoWrite
    <2>2. ASSUME Init PROVE acked <= completed /\ disk = completed /\ ~mixed
      BY <2>2 DEF Init
    <2> QED
      BY <2>1, <2>2 DEF LoneWriter, Busy, Writing
  <1>2. TypeOK /\ LoneWriter /\ [Next]_vars => LoneWriter'
    BY LoneWriterStep
  <1> QED
    BY StoreInvariant, <1>1, <1>2, PTL DEF Spec, StoreInv

(***************************************************************************)
(* As long as no two writes have been under way at once, what Flush has    *)
(* vouched for is in the file whenever nobody is writing and the last      *)
(* write did not fail (Flush, flushWorker, the version comparison of       *)
(* completePersistentStoreWriteLocked).                                    *)
(***************************************************************************)
THEOREM FlushedStoreIsOnDisk == Spec => []FlushedIsOnDisk
  <1>1. TypeOK /\ LoneWriter => FlushedIsOnDisk
    BY StoreAssumption DEF FlushedIsOnDisk, LoneWriter, TypeOK
  <1> QED
    BY StoreInvariant, LoneWriterInvariant, <1>1, PTL DEF StoreInv
-----------------------------------------------------------------------------
(***************************************************************************)
(* The refinement: what each step of the store is to WriteBehind.          *)
(***************************************************************************)
Kept == UNCHANGED <<version, disk, completed, acked>>

(* A write that is begun is the end of being alone, or nothing. *)
LEMMA PrepareMaps ==
    ASSUME TypeOK, NEW w \in Writers, Prepare(w), UNCHANGED <<disk, acked>>
    PROVE  [Promise!Next]_(Promise!vars)
  <1>1. Kept
    BY DEF Prepare, Kept
  <1>2. CASE overlapped' = overlapped
    BY <1>1, <1>2 DEF Kept, Promise!vars
  <1>3. CASE overlapped' # overlapped
    <2>1. overlapped' \in BOOLEAN
      BY PrepareTypes
    <2>2. ~overlapped /\ overlapped'
      BY <1>3, <2>1, Zenon DEF TypeOK, Prepare
    <2> QED
      BY <1>1, <2>2 DEF Kept, Promise!Next, Promise!Overlap
  <1> QED
    BY <1>2, <1>3

(* os.WriteFile tears the file, or puts in what is not older than the last *)
(* completed write. *)
LEMMA FileMaps ==
    ASSUME TypeOK, LoneWriter, NEW w \in Writers, OpenFile(w) \/ WriteFile(w) \/ WriteFails(w)
    PROVE  [Promise!Next]_(Promise!vars)
  <1>1. UNCHANGED <<version, completed, acked, overlapped>>
    BY DEF OpenFile, WriteFile, WriteFails, flags, history
  <1>2. disk' \in {disk, Torn, io[w].v}
    BY DEF OpenFile, WriteFile, WriteFails
  <1>3. CASE disk' = disk
    BY <1>1, <1>3 DEF Promise!vars
  <1>4. CASE disk' = Torn
    BY <1>1, <1>4 DEF Promise!Next, Promise!Tear, Promise!Torn, Torn
  <1>5. CASE WriteFile(w) /\ disk' = io[w].v
    <2>1. io[w].v \in 0 .. version
      BY DEF TypeOK
    <2>2. ~overlapped => io[w].v >= completed
      <3>1. Busy(w)
        BY <1>5 DEF WriteFile, Busy
      <3>2. ~overlapped => completed <= io[w].v
        BY <3>1 DEF LoneWriter
      <3> QED
        BY <2>1, <3>2, StoreAssumption DEF TypeOK
    <2> QED
      BY <1>1, <1>5, <2>1, <2>2 DEF Promise!Next, Promise!Write
  <1>6. WriteFile(w) \/ disk' \in {disk, Torn}
    BY DEF OpenFile, WriteFails
  <1> QED
    BY <1>2, <1>3, <1>4, <1>5, <1>6

(* A completed write is confirmed for what it has put into the file. *)
LEMMA CompleteMaps ==
    ASSUME TypeOK, LoneWriter, NEW w \in Writers, Complete(w)
    PROVE  [Promise!Next]_(Promise!vars)
  <1>1. UNCHANGED <<version, disk, acked, overlapped>>
    BY DEF Complete, file, history
  <1>2. CASE completed' = completed
    BY <1>1, <1>2 DEF Promise!vars
  <1>3. CASE completed' # completed
    <2>1. io[w].ok /\ io[w].v > completed /\ completed' = io[w].v /\ io[w].step = "returned"
      BY <1>3 DEF Complete
    <2>2. io[w].v \in 0 .. version /\ version \in Nat /\ completed \in 0 .. version
      BY StoreAssumption DEF TypeOK
    <2>3. completed' \in completed .. version
      BY <2>1, <2>2
    <2>4. ~overlapped => disk = completed'
      BY <2>1 DEF LoneWriter
    <2> QED
      BY <1>1, <2>3, <2>4 DEF Promise!Next, Promise!Confirm
  <1> QED
    BY <1>2, <1>3

(* Flush vouches for a target that has been completed. *)
LEMMA FlushMaps ==
    ASSUME TypeOK, LoneWriter, NEW f \in Flushers, FlushBegins(f) \/ FlushContinues(f)
    PROVE  [Promise!Next]_(Promise!vars)
  <1>1. UNCHANGED <<version, disk, completed, overlapped>>
    BY DEF FlushBegins, FlushContinues, file
  <1>2. completed \in Nat /\ acked \in Nat /\ acked <= completed
    BY StoreAssumption DEF TypeOK, LoneWriter
  <1>3. acked' = acked \/ \E target \in 0 .. version : completed >= target /\ target > acked
                                                    /\ acked' = target
    <2>1. version \in 0 .. version /\ flush[f].target \in 0 .. version
      BY StoreAssumption DEF TypeOK
    <2>2. CASE FlushBegins(f)
      BY <2>1, <2>2 DEF FlushBegins, Vouch, Waits, TargetReached
    <2>3. CASE FlushContinues(f)
      BY <2>1, <2>3 DEF FlushContinues, Vouch, Waits, TargetReached
    <2> QED
      BY <2>2, <2>3
  <1>4. acked' \in acked .. completed
    BY <1>2, <1>3
  <1> QED
    BY <1>1, <1>4 DEF Promise!Next, Promise!Vouch

(***************************************************************************)
(* Every step of the store is a step of WriteBehind or none.               *)
(***************************************************************************)
LEMMA StepMaps ==
    ASSUME TypeOK, LoneWriter, [Next]_vars
    PROVE  [Promise!Next]_(Promise!vars)
  <1> USE DEF flags, file, history
  <1>1. CASE Change
    BY <1>1 DEF Change, Promise!Next, Promise!Change
  <1>2. CASE \E w \in Writers : WriterStep(w)
    BY <1>2, FileMaps, CompleteMaps DEF WriterStep
  <1>3. CASE WorkerWakes \/ DebounceRestarts \/ WorkerStops
    BY <1>3 DEF WorkerWakes, DebounceRestarts, WorkerStops, Promise!vars
  <1>4. CASE DebounceEnds
    <2>1. Worker \in Writers
      BY DEF Writers
    <2>2. CASE Prepare(Worker)
      BY <1>4, <2>1, <2>2, PrepareMaps DEF DebounceEnds
    <2>3. CASE UNCHANGED <<version, completed, overlapped>>
      BY <1>4, <2>3 DEF DebounceEnds, Promise!vars
    <2> QED
      BY <1>4, <2>2, <2>3 DEF DebounceEnds
  <1>5. CASE \E t \in Transients : TransientFlush(t)
    <2>1. PICK t \in Transients : TransientFlush(t)
      BY <1>5
    <2>2. t \in Writers
      BY DEF Writers
    <2>3. CASE Prepare(t)
      BY <2>1, <2>2, <2>3, PrepareMaps DEF TransientFlush
    <2>4. CASE UNCHANGED <<flags, io, overlapped>>
      BY <2>1, <2>4 DEF TransientFlush, Promise!vars
    <2> QED
      BY <2>1, <2>3, <2>4 DEF TransientFlush
  <1>6. CASE \E f \in Flushers : FlushBegins(f) \/ FlushContinues(f)
    BY <1>6, FlushMaps
  <1>7. CASE \E f \in Closers : CloseStore(f)
    BY <1>7 DEF CloseStore, Promise!vars
  <1>8. CASE UNCHANGED vars
    BY <1>8 DEF vars, Promise!vars
  <1> QED
    BY <1>1, <1>2, <1>3, <1>4, <1>5, <1>6, <1>7, <1>8 DEF Next, WorkerStep

(***************************************************************************)
(* The store implements the promise of a write-behind file, whatever       *)
(* number of changes, callers and failing writes there are: the file only  *)
(* moves forward and Flush vouches only for what a write has reached, as   *)
(* long as writes do not overlap.                                          *)
(***************************************************************************)
THEOREM StoreImplementsWriteBehind == Spec => ImplementsWriteBehind
  <1>1. Init => Promise!Init
    BY DEF Init, Promise!Init
  <1>2. TypeOK /\ LoneWriter /\ [Next]_vars => [Promise!Next]_(Promise!vars)
    BY StepMaps
  <1> QED
    BY StoreInvariant, LoneWriterInvariant, <1>1, <1>2, PTL
    DEF Spec, StoreInv, ImplementsWriteBehind, Promise!Spec
=============================================================================
