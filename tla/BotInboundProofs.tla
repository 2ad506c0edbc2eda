-------------------------- MODULE BotInboundProofs --------------------------
(***************************************************************************)
(* Proofs about the inbound messages of a bot connection, for any number   *)
(* of deliveries, webhooks, operators and crashes and any size of the      *)
(* queues.                                                                 *)
(*                                                                         *)
(* pendingEnqueue is the number of senders (PendingCounts), so a worker    *)
(* that retires has none.  Whoever works on a delivery has it marked as    *)
(* processing (WorkIsMarked), so a second claim fails.  And a delivery     *)
(* that no recovery has found unfinished has at most one job on its way    *)
(* (OneJob), which is gone before a reply for it can have been saved       *)
(* (SavedIsPast): only an operator takes it up again.                      *)
(***************************************************************************)
EXTENDS BotInbound, FiniteSetTheorems, SequenceTheorems, TLAPS

SendersTo(k) == {g \in Feeders : FeedAt(g, "send") /\ feed[g].key = k}

PendingCounts == \A k \in Keys : worker[k].pending = Cardinality(SendersTo(k))

FeedStates == [pc : {"idle", "accept", "enqueue", "send", "update",
                     "prepare", "recover", "replay"},
               todo : SUBSET Deliveries, d : Deliveries \cup {None},
               key : Keys, was : BOOLEAN]

RunStates == [pc : {"idle", "claim", "claimed", "complete", "save", "fail"},
              d : Deliveries \cup {None}, replay : BOOLEAN]

JobLists == Seq(Deliveries)

WorkerStates == [live : BOOLEAN, queue : JobLists, pending : Int]

\* Whoever is on the way has what it needs there; only a recovery has a list.
FeedOK(g, e) ==
    /\ e \in FeedStates
    /\ e.pc \in {"accept", "enqueue", "send"} => e.d \in Deliveries
    /\ e.todo # {} => e.pc \in {"recover", "send"} /\ g \notin Webhooks
    /\ g \in Webhooks => e.pc \in {"idle", "accept", "enqueue", "send"}

RunOK(e) == e \in RunStates /\ (e.pc # "idle" => e.d \in Deliveries)

WorkerOK(e) == e \in WorkerStates /\ Len(e.queue) <= QueueSize

FeedsTyped == feed \in [Feeders -> FeedStates] /\ \A g \in Feeders : FeedOK(g, feed[g])

RunsTyped == run \in [Runners -> RunStates] /\ \A x \in Runners : RunOK(run[x])

WorkersTyped ==
    worker \in [Keys -> WorkerStates] /\ \A k \in Keys : WorkerOK(worker[k])

StoreTyped ==
    /\ active \in BOOLEAN
    /\ status \in [Deliveries -> {"none", "received", "processing", "completed", "failed"}]
    /\ saved \subseteq Deliveries
    /\ crashes \in 0 .. MaxCrashes
    /\ found \cup overlapped \cup replayed \subseteq Deliveries

\* TypeOK with any integer for pendingEnqueue; the bounds follow by counting.
Types == FeedsTyped /\ RunsTyped /\ WorkersTyped /\ StoreTyped

WorkIsMarked ==
    \A d \in Deliveries \ overlapped : \A x \in Runners :
        Working(x, d) => status[d] = "processing"

\* Where the job of a delivery may be.
Sending(g, d) == feed[g].pc \in {"enqueue", "send"} /\ feed[g].d = d

Carries(g, d) == Sending(g, d) \/ d \in feed[g].todo

Places(q, d) == {i \in 1 .. Len(q) : q[i] = d}

Queues(k, d) == Places(worker[k].queue, d) # {}

Claims(k, d) == RunAt(k, "claim") /\ run[k].d = d

Held(d) ==
    \/ \E g \in Feeders : Carries(g, d)
    \/ \E k \in Keys : Queues(k, d) \/ Claims(k, d)

OneCarrier(d) ==
    \A g \in Feeders : Carries(g, d) =>
        /\ ~(Sending(g, d) /\ d \in feed[g].todo)
        /\ \A h \in Feeders : Carries(h, d) => g = h
        /\ \A k \in Keys : ~Queues(k, d) /\ ~Claims(k, d)

OneQueue(d) ==
    \A k \in Keys : Queues(k, d) =>
        /\ \A l \in Keys : ~Claims(l, d) /\ (Queues(l, d) => k = l)
        /\ \A i, j \in Places(worker[k].queue, d) : i = j

OneClaim(d) == \A k, l \in Keys : Claims(k, d) /\ Claims(l, d) => k = l

JobOK(d) ==
    /\ OneCarrier(d) /\ OneQueue(d) /\ OneClaim(d)
    /\ Held(d) => status[d] = "received"

OneJob == \A d \in Deliveries \ found : JobOK(d)

SavedIsPast ==
    /\ \A d \in saved \ found : status[d] \in {"processing", "completed", "failed"}
    /\ \A o \in Operators : RunAt(o, "claim") => run[o].d \in saved
    /\ \A k \in Keys : run[k].replay => run[k].d \in found
    /\ overlapped \subseteq found

IInv ==
    /\ Types
    /\ PendingCounts /\ NoStrandedJob
    /\ WorkIsMarked /\ OneAtATime
    /\ OneJob /\ SavedIsPast /\ FailedReplyStaysUnsent
-----------------------------------------------------------------------------
(* Types.  A step moves at most one goroutine of each kind.                *)
LEMMA OneFeederMoves ==
    ASSUME FeedsTyped, NEW g \in Feeders, NEW e, FeedOK(g, e), feed' = [feed EXCEPT ![g] = e]
    PROVE  FeedsTyped'
<1> SUFFICES ASSUME NEW h \in Feeders PROVE FeedOK(h, feed'[h])
  BY DEF FeedsTyped, FeedOK
<1> QED
  BY DEF FeedsTyped

LEMMA OneRunnerMoves ==
    ASSUME RunsTyped, NEW x \in Runners, NEW e, RunOK(e), run' = [run EXCEPT ![x] = e]
    PROVE  RunsTyped'
<1> SUFFICES ASSUME NEW y \in Runners PROVE RunOK(run'[y])
  BY DEF RunsTyped, RunOK
<1> QED
  BY DEF RunsTyped

LEMMA OneWorkerMoves ==
    ASSUME WorkersTyped, NEW k \in Keys, NEW e, WorkerOK(e), worker' = [worker EXCEPT ![k] = e]
    PROVE  WorkersTyped'
<1> SUFFICES ASSUME NEW l \in Keys PROVE WorkerOK(worker'[l])
  BY DEF WorkersTyped, WorkerOK
<1> QED
  BY DEF WorkersTyped

(* The server starts with its goroutines at rest (Init).                   *)
LEMMA InitTyped == Init => Types
<1> SUFFICES ASSUME Init PROVE Types
  OBVIOUS
<1> USE InboundAssumption DEF Init
<1>1. FeedsTyped
  BY DEF FeedsTyped, FeedOK, FeedStates, Free, Keys
<1>2. RunsTyped
  BY DEF RunsTyped, RunOK, RunStates, Resting
<1>3. WorkersTyped
  BY DEF WorkersTyped, WorkerOK, WorkerStates, NoWorker, JobLists
<1>4. StoreTyped
  BY DEF StoreTyped
<1> QED
  BY <1>1, <1>2, <1>3, <1>4 DEF Types

(* A feeder has what its next step needs (HandleWebhook, acceptInboundMessage, *)
(* enqueueJob, the recoveries and the operators' calls).                   *)
LEMMA FeedsStep ==
    ASSUME Types, Next
    PROVE  FeedsTyped'
<1> USE InboundAssumption DEF Types
<1>1. ASSUME NEW g \in Feeders, HandleWebhook(g) PROVE FeedsTyped'
  <2>1. PICK d \in Deliveries : feed' = [feed EXCEPT ![g].pc = "accept", ![g].d = d]
    BY <1>1 DEF HandleWebhook
  <2> DEFINE e == [feed[g] EXCEPT !.pc = "accept", !.d = d]
  <2>2. feed' = [feed EXCEPT ![g] = e]
    BY <2>1, <1>1 DEF HandleWebhook, FeedGo
  <2>3. FeedOK(g, e)
    BY <2>1, <1>1 DEF FeedsTyped, FeedOK, FeedStates, HandleWebhook, FeedAt, Free, Keys, Idle
  <2> QED
    BY <2>2, <2>3, OneFeederMoves DEF Feeders
<1>2. ASSUME NEW g \in Feeders, EnqueueBegin(g) PROVE FeedsTyped'
  <2> DEFINE e == [feed[g] EXCEPT !.pc = "send"]
  <2>2. feed' = [feed EXCEPT ![g] = e]
    BY <1>2 DEF EnqueueBegin, FeedGo
  <2>3. FeedOK(g, e)
    BY <1>2 DEF FeedsTyped, FeedOK, FeedStates, EnqueueBegin, FeedAt, Free, Keys, Idle
  <2> QED
    BY <2>2, <2>3, OneFeederMoves DEF Feeders
<1>3. ASSUME NEW g \in Feeders, EnqueueSend(g) PROVE FeedsTyped'
  <2> DEFINE e == IF g \in Webhooks THEN Free
                   ELSE [Free EXCEPT !.pc = "recover", !.todo = feed[g].todo]
  <2>2. feed' = [feed EXCEPT ![g] = e]
    BY <1>3 DEF EnqueueSend, FeedGo
  <2>3. FeedOK(g, e)
    BY <1>3 DEF FeedsTyped, FeedOK, FeedStates, EnqueueSend, FeedAt, Free, Keys, Idle
  <2> QED
    BY <2>2, <2>3, OneFeederMoves DEF Feeders
<1>4. ASSUME NEW g \in Feeders, UpdateConnection(g) PROVE FeedsTyped'
  <2> DEFINE e == [Free EXCEPT !.pc = IF feed[g].was THEN "prepare" ELSE "idle"]
  <2>2. feed' = [feed EXCEPT ![g] = e]
    BY <1>4 DEF UpdateConnection, FeedGo
  <2>3. FeedOK(g, e)
    BY <1>4 DEF FeedsTyped, FeedOK, FeedStates, UpdateConnection, FeedAt, Free, Keys, Idle
  <2> QED
    BY <2>2, <2>3, OneFeederMoves DEF Feeders
<1>5. ASSUME NEW g \in Feeders, PrepareRecovery(g) PROVE FeedsTyped'
  <2> DEFINE e == [feed[g] EXCEPT !.pc = "recover", !.todo = Recoverable]
  <2>2. feed' = [feed EXCEPT ![g] = e]
    BY <1>5 DEF PrepareRecovery, FeedGo, Recoverable, Unfinished
  <2>3. FeedOK(g, e)
    BY <1>5 DEF FeedsTyped, FeedOK, FeedStates, PrepareRecovery, FeedAt, Free, Keys, Idle, Recoverable, Unfinished
  <2> QED
    BY <2>2, <2>3, OneFeederMoves DEF Feeders
<1>6. ASSUME NEW g \in Feeders, RecoveryEnds(g) PROVE FeedsTyped'
  <2> DEFINE e == Free
  <2>2. feed' = [feed EXCEPT ![g] = e]
    BY <1>6 DEF RecoveryEnds, FeedGo
  <2>3. FeedOK(g, e)
    BY <1>6 DEF FeedsTyped, FeedOK, FeedStates, RecoveryEnds, FeedAt, Free, Keys, Idle
  <2> QED
    BY <2>2, <2>3, OneFeederMoves DEF Feeders
<1>7. ASSUME NEW o \in Operators, ResumeConnection(o) PROVE FeedsTyped'
  <2> DEFINE e == [feed[o] EXCEPT !.pc = "prepare"]
  <2>2. feed' = [feed EXCEPT ![o] = e]
    BY <1>7 DEF ResumeConnection, FeedGo
  <2>3. FeedOK(o, e)
    BY <1>7 DEF FeedsTyped, FeedOK, FeedStates, ResumeConnection, FeedAt, Free, Keys, Idle, Feeders
  <2> QED
    BY <2>2, <2>3, OneFeederMoves DEF Feeders
<1>8. ASSUME NEW o \in Operators, UpdateBegins(o) PROVE FeedsTyped'
  <2> DEFINE e == [feed[o] EXCEPT !.pc = "update", !.was = active]
  <2>2. feed' = [feed EXCEPT ![o] = e]
    BY <1>8 DEF UpdateBegins, FeedGo, StoreTyped
  <2>3. FeedOK(o, e)
    <3>1. active \in BOOLEAN
      BY DEF StoreTyped
    <3>2. feed[o] \in FeedStates /\ feed[o].pc = "idle" /\ feed[o].todo = {} /\ o \notin Webhooks
      BY <1>8 DEF FeedsTyped, FeedOK, UpdateBegins, FeedAt, Idle, Feeders
    <3> QED
      BY <3>1, <3>2 DEF FeedOK, FeedStates
  <2> QED
    BY <2>2, <2>3, OneFeederMoves DEF Feeders
<1>9. ASSUME NEW o \in Operators, ReplayFailedReply(o) PROVE FeedsTyped'
  <2> DEFINE e == [feed[o] EXCEPT !.pc = "replay"]
  <2>2. feed' = [feed EXCEPT ![o] = e]
    BY <1>9 DEF ReplayFailedReply, FeedGo
  <2>3. FeedOK(o, e)
    BY <1>9 DEF FeedsTyped, FeedOK, FeedStates, ReplayFailedReply, FeedAt, Free, Keys, Idle, Feeders
  <2> QED
    BY <2>2, <2>3, OneFeederMoves DEF Feeders
<1>10. ASSUME NEW o \in Operators, ReplayReturns(o) PROVE FeedsTyped'
  <2> DEFINE e == [feed[o] EXCEPT !.pc = "idle"]
  <2>2. feed' = [feed EXCEPT ![o] = e]
    BY <1>10 DEF ReplayReturns, FeedGo
  <2>3. FeedOK(o, e)
    BY <1>10 DEF FeedsTyped, FeedOK, FeedStates, ReplayReturns, FeedAt, Free, Keys, Idle, Feeders
  <2> QED
    BY <2>2, <2>3, OneFeederMoves DEF Feeders
<1>11. ASSUME NEW g \in Feeders, AcceptInboundMessage(g) PROVE FeedsTyped'
  <2>1. PICK k \in Keys :
           \/ feed' = [feed EXCEPT ![g] = [feed[g] EXCEPT !.pc = "enqueue", !.key = k]]
           \/ feed' = [feed EXCEPT ![g] = Free]
    BY <1>11 DEF AcceptInboundMessage, KeysFor, Keys
  <2>2. FeedOK(g, [feed[g] EXCEPT !.pc = "enqueue", !.key = k]) /\ FeedOK(g, Free)
    BY <1>11 DEF FeedsTyped, FeedOK, FeedStates, AcceptInboundMessage, FeedAt, Free, Keys
  <2> QED
    BY <2>1, <2>2, OneFeederMoves
<1>12. ASSUME NEW g \in Feeders, RecoverNext(g) PROVE FeedsTyped'
  <2>1. PICK d \in feed[g].todo, k \in Keys :
           LET rest == [feed[g] EXCEPT !.todo = @ \ {d}] IN
           \/ feed' = [feed EXCEPT ![g] = [rest EXCEPT !.pc = "send", !.d = d, !.key = k]]
           \/ feed' = [feed EXCEPT ![g] = rest]
    BY <1>12 DEF RecoverNext, Keys
  <2> DEFINE rest == [feed[g] EXCEPT !.todo = @ \ {d}]
  <2>2. FeedOK(g, [rest EXCEPT !.pc = "send", !.d = d, !.key = k]) /\ FeedOK(g, rest)
    BY <1>12, <2>1 DEF FeedsTyped, FeedOK, FeedStates, RecoverNext, FeedAt, Keys
  <2> QED
    BY <2>1, <2>2, OneFeederMoves
<1>13. ASSUME Crash PROVE FeedsTyped'
  BY <1>13 DEF Crash, FeedsTyped, FeedOK, FeedStates, Free, Feeders, Keys
<1> QED
  BY <1>1, <1>2, <1>3, <1>4, <1>5, <1>6, <1>7, <1>8, <1>9, <1>10, <1>11, <1>12, <1>13
  DEF Next, FeedStep, RunStep, FeedsTyped, FeedOK, PauseConnection, TakeJob, RetireIfIdle, Claim,
      ProcessWithoutReply, SendNewReply, SendSavedReply, Complete, SaveReply, Fail

(* A runner beyond its rest has a delivery (runWorker, processInboundMessage and *)
(* the operator's replay).                                                 *)
LEMMA RunsStep ==
    ASSUME Types, Next
    PROVE  RunsTyped'
<1> USE InboundAssumption DEF Types
<1>1. ASSUME NEW o \in Operators, ReplayFailedReply(o) PROVE RunsTyped'
  <2>1. PICK d \in Deliveries : run' = [run EXCEPT ![o] = Claiming(d)]
    BY <1>1 DEF ReplayFailedReply
  <2> DEFINE e == Claiming(d)
  <2>2. run' = [run EXCEPT ![o] = e]
    BY <2>1, <1>1 DEF ReplayFailedReply
  <2>3. RunOK(e)
    BY <2>1, <1>1 DEF RunsTyped, RunOK, RunStates, ReplayFailedReply, RunAt, Claiming, Resting
  <2> QED
    BY <2>2, <2>3, OneRunnerMoves DEF Runners
<1>2. ASSUME NEW k \in Keys, TakeJob(k) PROVE RunsTyped'
  <2> DEFINE e == IF active THEN Claiming(Head(worker[k].queue)) ELSE run[k]
  <2>1. Head(worker[k].queue) \in Deliveries
    BY <1>2, HeadTailProperties DEF TakeJob, WorkersTyped, WorkerStates, JobLists
  <2>2. run' = [run EXCEPT ![k] = e]
    BY <1>2 DEF TakeJob, RunsTyped
  <2>3. RunOK(e)
    BY <2>1 DEF RunsTyped, RunOK, RunStates, Claiming, Resting, Runners
  <2> QED
    BY <2>2, <2>3, OneRunnerMoves DEF Runners
<1>3. ASSUME NEW x \in Runners, ProcessWithoutReply(x) PROVE RunsTyped'
  <2>1. PICK pc \in {"complete", "save", "fail"} :
           run' = [run EXCEPT ![x] = [run[x] EXCEPT !.pc = pc, !.replay = FALSE]]
    BY <1>3 DEF ProcessWithoutReply, RunGo
  <2>2. RunOK([run[x] EXCEPT !.pc = pc, !.replay = FALSE])
    BY <1>3 DEF RunsTyped, RunOK, RunStates, ProcessWithoutReply, RunAt
  <2> QED
    BY <2>1, <2>2, OneRunnerMoves
<1>4. ASSUME NEW x \in Runners, SendNewReply(x) PROVE RunsTyped'
  <2>1. PICK pc \in {"complete", "save", "fail"} :
           run' = [run EXCEPT ![x] = [run[x] EXCEPT !.pc = pc, !.replay = FALSE]]
    BY <1>4 DEF SendNewReply, RunGo
  <2>2. RunOK([run[x] EXCEPT !.pc = pc, !.replay = FALSE])
    BY <1>4 DEF RunsTyped, RunOK, RunStates, SendNewReply, RunAt
  <2> QED
    BY <2>1, <2>2, OneRunnerMoves
<1>5. ASSUME NEW x \in Runners, SendSavedReply(x) PROVE RunsTyped'
  <2>1. PICK pc \in {"complete", "save", "fail"} :
           run' = [run EXCEPT ![x] = [run[x] EXCEPT !.pc = pc, !.replay = FALSE]]
    BY <1>5 DEF SendSavedReply, RunGo
  <2>2. RunOK([run[x] EXCEPT !.pc = pc, !.replay = FALSE])
    BY <1>5 DEF RunsTyped, RunOK, RunStates, SendSavedReply, RunAt
  <2> QED
    BY <2>1, <2>2, OneRunnerMoves
<1>6. ASSUME NEW x \in Runners, SaveReply(x) PROVE RunsTyped'
  <2>1. PICK pc \in {"complete", "save", "fail"} :
           run' = [run EXCEPT ![x] = [run[x] EXCEPT !.pc = pc, !.replay = FALSE]]
    BY <1>6 DEF SaveReply, RunGo
  <2>2. RunOK([run[x] EXCEPT !.pc = pc, !.replay = FALSE])
    BY <1>6 DEF RunsTyped, RunOK, RunStates, SaveReply, RunAt
  <2> QED
    BY <2>1, <2>2, OneRunnerMoves
<1>7. ASSUME NEW x \in Runners, Complete(x) PROVE RunsTyped'
  <2> DEFINE e == Resting
  <2>2. run' = [run EXCEPT ![x] = e]
    BY <1>7 DEF Complete, Rest
  <2>3. RunOK(e)
    BY <1>7 DEF RunsTyped, RunOK, RunStates, Complete, RunAt, Claiming, Resting, Rest
  <2> QED
    BY <2>2, <2>3, OneRunnerMoves DEF Runners
<1>8. ASSUME NEW x \in Runners, Fail(x) PROVE RunsTyped'
  <2> DEFINE e == Resting
  <2>2. run' = [run EXCEPT ![x] = e]
    BY <1>8 DEF Fail, Rest
  <2>3. RunOK(e)
    BY <1>8 DEF RunsTyped, RunOK, RunStates, Fail, RunAt, Claiming, Resting, Rest
  <2> QED
    BY <2>2, <2>3, OneRunnerMoves DEF Runners
<1>9. ASSUME NEW x \in Runners, Claim(x) PROVE RunsTyped'
  <2>1. \E replay \in BOOLEAN :
           \/ run' = [run EXCEPT ![x] = [run[x] EXCEPT !.pc = "claimed", !.replay = replay]]
           \/ run' = [run EXCEPT ![x] = Resting]
    <3> DEFINE isSaved == run[x].d \in saved
    <3>1. isSaved \in BOOLEAN
      OBVIOUS
    <3>2. \/ run' = [run EXCEPT ![x] = [run[x] EXCEPT !.pc = "claimed", !.replay = isSaved]]
          \/ run' = [run EXCEPT ![x] = Resting]
      BY <1>9 DEF Claim, Rest
    <3> HIDE DEF isSaved
    <3> QED
      BY <3>1, <3>2
  <2>2. \A replay \in BOOLEAN :
        /\ RunOK([run[x] EXCEPT !.pc = "claimed", !.replay = replay])
        /\ RunOK(Resting)
    BY <1>9 DEF RunsTyped, RunOK, RunStates, Claim, RunAt, Resting
  <2> QED
    BY <2>1, <2>2, OneRunnerMoves
<1>10. ASSUME Crash PROVE RunsTyped'
  BY <1>10 DEF Crash, RunsTyped, RunOK, RunStates, Resting
<1> QED
  BY <1>1, <1>2, <1>3, <1>4, <1>5, <1>6, <1>7, <1>8, <1>9, <1>10
  DEF Next, FeedStep, RunStep, RunsTyped, RunOK, HandleWebhook, AcceptInboundMessage,
      EnqueueBegin, EnqueueSend, PauseConnection, ResumeConnection, UpdateBegins,
      UpdateConnection, ReplayReturns, PrepareRecovery, RecoverNext, RecoveryEnds, RetireIfIdle

(* A worker with another queue (the queue's own type does not matter).     *)
LEMMA QueueReplaced ==
    ASSUME NEW v \in WorkerStates, NEW q \in JobLists, NEW n \in Int
    PROVE  /\ [v EXCEPT !.queue = q] \in WorkerStates
           /\ [v EXCEPT !.queue = q].queue = q
           /\ [v EXCEPT !.queue = q, !.pending = n] \in WorkerStates
           /\ [v EXCEPT !.queue = q, !.pending = n].queue = q
  BY DEF WorkerStates

(* The queues hold deliveries and keep to queueSize (enqueueJob, runWorker). *)
LEMMA WorkersStep ==
    ASSUME Types, Next
    PROVE  WorkersTyped'
<1> USE InboundAssumption DEF Types
<1>1. ASSUME NEW k \in Keys, FindWorker(k) PROVE WorkersTyped'
  <2> DEFINE e == [live |-> TRUE, queue |-> worker[k].queue, pending |-> worker[k].pending + 1]
  <2>1. worker' = [worker EXCEPT ![k] = e]
    BY <1>1 DEF FindWorker, WorkersTyped, WorkerStates
  <2>2. WorkerOK(e)
    BY DEF WorkersTyped, WorkerOK, WorkerStates
  <2> QED
    BY <2>1, <2>2, OneWorkerMoves
<1>2. ASSUME NEW g \in Feeders, EnqueueBegin(g) PROVE WorkersTyped'
  BY <1>1, <1>2 DEF EnqueueBegin, FeedsTyped, FeedStates
<1>3. ASSUME NEW g \in Feeders, RecoverNext(g) PROVE WorkersTyped'
  <2>1. PICK k \in Keys : FindWorker(k) \/ UNCHANGED worker
    BY <1>3 DEF RecoverNext, Keys
  <2> QED
    BY <2>1, <1>1 DEF WorkersTyped, WorkerOK
<1>4. ASSUME NEW g \in Feeders, EnqueueSend(g) PROVE WorkersTyped'
  <2> DEFINE k == feed[g].key
             q == worker[k].queue
             longer == Append(q, feed[g].d)
             n == worker[k].pending - 1
             e == [worker[k] EXCEPT !.queue = longer, !.pending = n]
  <2>1. k \in Keys /\ feed[g].d \in Deliveries /\ Len(q) < QueueSize
    BY <1>4 DEF EnqueueSend, FeedsTyped, FeedOK, FeedStates, FeedAt
  <2>2. worker[k] \in WorkerStates /\ q \in Seq(Deliveries)
    BY <2>1 DEF WorkersTyped, WorkerStates, JobLists
  <2>3. longer \in JobLists /\ Len(longer) = Len(q) + 1
    BY <2>1, <2>2, AppendProperties DEF JobLists
  <2>4. worker' = [worker EXCEPT ![k] = e]
    BY <1>4 DEF EnqueueSend
  <2>5. worker[k].live \in BOOLEAN /\ n \in Int
    BY <2>2 DEF WorkerStates
  <2>6. WorkerOK(e)
    <3>1. e \in WorkerStates /\ e.queue = longer
      <4>1. worker[k] \in WorkerStates /\ longer \in JobLists /\ n \in Int
        BY <2>2, <2>3, <2>5
      <4> HIDE DEF longer, n, k
      <4> QED
        BY <4>1, QueueReplaced
    <3> QED
      BY <3>1, <2>1, <2>2, <2>3, LenProperties DEF WorkerOK, JobLists
  <2> QED
    BY <2>1, <2>4, <2>6, OneWorkerMoves
<1>5. ASSUME NEW k \in Keys, TakeJob(k) PROVE WorkersTyped'
  <2> DEFINE q == worker[k].queue
             e == [worker[k] EXCEPT !.queue = Tail(q)]
  <2>1. worker[k] \in WorkerStates /\ q \in Seq(Deliveries) /\ q # <<>> /\ Len(q) <= QueueSize
    BY <1>5 DEF TakeJob, WorkersTyped, WorkerOK, WorkerStates, JobLists
  <2>2. Tail(q) \in JobLists /\ Len(Tail(q)) \in Int /\ Len(Tail(q)) = Len(q) - 1 /\ Len(q) \in Int
    BY <2>1, HeadTailProperties, LenProperties DEF JobLists
  <2>3. worker' = [worker EXCEPT ![k] = e]
    BY <1>5 DEF TakeJob
  <2>4. worker[k].live \in BOOLEAN /\ worker[k].pending \in Int
    BY <2>1 DEF WorkerStates
  <2>5. WorkerOK(e)
    <3>1. e \in WorkerStates /\ e.queue = Tail(q)
      BY <2>1, <2>2, <2>4, QueueReplaced
    <3> QED
      BY <3>1, <2>1, <2>2 DEF WorkerOK
  <2> QED
    BY <2>3, <2>5, OneWorkerMoves
<1>6. ASSUME NEW k \in Keys, RetireIfIdle(k) PROVE WorkersTyped'
  <2> DEFINE e == [worker[k] EXCEPT !.live = FALSE]
  <2>1. worker' = [worker EXCEPT ![k] = e]
    BY <1>6 DEF RetireIfIdle
  <2>2. WorkerOK(e)
    BY DEF WorkersTyped, WorkerOK, WorkerStates
  <2> QED
    BY <2>1, <2>2, OneWorkerMoves
<1>7. ASSUME Crash PROVE WorkersTyped'
  BY <1>7 DEF Crash, WorkersTyped, WorkerOK, WorkerStates, NoWorker, JobLists
<1> QED
  BY <1>2, <1>3, <1>4, <1>5, <1>6, <1>7
  DEF Next, FeedStep, RunStep, WorkersTyped, WorkerOK, HandleWebhook, AcceptInboundMessage,
      PauseConnection, ResumeConnection, UpdateBegins, UpdateConnection, ReplayFailedReply,
      ReplayReturns, PrepareRecovery, RecoveryEnds, Claim, ProcessWithoutReply,
      SendNewReply, SendSavedReply, Complete, SaveReply, Fail

(* The connection's and the deliveries' records.                           *)
LEMMA StoreStep ==
    ASSUME Types, Next
    PROVE  StoreTyped'
<1> USE InboundAssumption DEF Types, stored, history
<1>1. ASSUME NEW g \in Feeders, AcceptInboundMessage(g) PROVE StoreTyped'
  BY <1>1 DEF AcceptInboundMessage, StoreTyped
<1>2. ASSUME NEW g \in Feeders, UpdateConnection(g) PROVE StoreTyped'
  BY <1>2 DEF UpdateConnection, StoreTyped, FeedsTyped, FeedStates
<1>3. ASSUME NEW g \in Feeders, PrepareRecovery(g) PROVE StoreTyped'
  BY <1>3 DEF PrepareRecovery, StoreTyped, Unfinished
<1>4. ASSUME NEW o \in Operators, PauseConnection(o) \/ ResumeConnection(o) PROVE StoreTyped'
  BY <1>4 DEF PauseConnection, ResumeConnection, StoreTyped
<1>5. ASSUME NEW x \in Runners, Claim(x) \/ Complete(x) \/ Fail(x) PROVE StoreTyped'
  BY <1>5 DEF Claim, Complete, Fail, StoreTyped
<1>6. ASSUME NEW x \in Runners, SendSavedReply(x) \/ SaveReply(x) PROVE StoreTyped'
  BY <1>6 DEF SendSavedReply, SaveReply, StoreTyped, RunsTyped, RunOK, RunAt
<1>7. ASSUME Crash PROVE StoreTyped'
  BY <1>7 DEF Crash, StoreTyped
<1> QED
  BY <1>1, <1>2, <1>3, <1>4, <1>5, <1>6, <1>7
  DEF Next, FeedStep, RunStep, StoreTyped, HandleWebhook, EnqueueBegin, EnqueueSend,
      UpdateBegins, ReplayFailedReply, ReplayReturns, RecoverNext, RecoveryEnds, TakeJob,
      RetireIfIdle, ProcessWithoutReply, SendNewReply

LEMMA TypesStep ==
    ASSUME Types, Next
    PROVE  Types'
  BY FeedsStep, RunsStep, WorkersStep, StoreStep DEF Types
-----------------------------------------------------------------------------
(* pendingEnqueue counts the senders, and so a worker that retires has none. *)
LEMMA FiniteSenders ==
    ASSUME NEW k
    PROVE  IsFiniteSet(Feeders) /\ IsFiniteSet(SendersTo(k))
<1>1. IsFiniteSet(Feeders)
  <2>1. IsFiniteSet(Webhooks \cup Operators)
    BY InboundAssumption, FS_Union
  <2> QED
    BY <2>1, FS_AddElement DEF Feeders
<1> QED
  BY <1>1, FS_Subset DEF SendersTo

(* What a turn of the recovery's loop does.                                *)
LEMMA RecoverNextDoes ==
    ASSUME Types, NEW g \in Feeders, RecoverNext(g)
    PROVE  /\ UNCHANGED <<stored, run, crashes, history>>
           /\ \A h \in Feeders \ {g} : feed'[h] = feed[h]
           /\ feed[g].pc = "recover"
           /\ \E d \in feed[g].todo :
                 /\ feed'[g].todo = feed[g].todo \ {d}
                 /\ \/ /\ feed'[g].pc = "send" /\ feed'[g].d = d
                       /\ \E k \in Keys : feed'[g].key = k /\ FindWorker(k)
                    \/ /\ feed'[g].pc = "recover" /\ feed'[g].key = feed[g].key
                       /\ UNCHANGED worker
<1>1. feed[g] \in FeedStates /\ feed[g].pc = "recover"
  BY DEF Types, FeedsTyped, RecoverNext, FeedAt
<1>2. PICK d \in feed[g].todo, k \in Keys :
         LET rest == [feed[g] EXCEPT !.todo = @ \ {d}] IN
         \/ /\ feed' = [feed EXCEPT ![g] = [rest EXCEPT !.pc = "send", !.d = d, !.key = k]]
            /\ FindWorker(k)
         \/ /\ feed' = [feed EXCEPT ![g] = rest]
            /\ UNCHANGED worker
  BY DEF RecoverNext, Keys
<1>3. feed \in [Feeders -> FeedStates]
  BY DEF Types, FeedsTyped
<1>4. UNCHANGED <<stored, run, crashes, history>>
  BY DEF RecoverNext
<1> DEFINE rest == [feed[g] EXCEPT !.todo = @ \ {d}]
<1>5. CASE /\ feed' = [feed EXCEPT ![g] = [rest EXCEPT !.pc = "send", !.d = d, !.key = k]]
           /\ FindWorker(k)
  <2>1. /\ \A h \in Feeders \ {g} : feed'[h] = feed[h]
        /\ feed'[g].todo = feed[g].todo \ {d} /\ feed'[g].pc = "send"
        /\ feed'[g].d = d /\ feed'[g].key = k
    BY <1>1, <1>3, <1>5 DEF FeedStates
  <2> QED
    BY <1>1, <1>4, <1>5, <2>1
<1>6. CASE feed' = [feed EXCEPT ![g] = rest] /\ UNCHANGED worker
  <2>1. /\ \A h \in Feeders \ {g} : feed'[h] = feed[h]
        /\ feed'[g].todo = feed[g].todo \ {d} /\ feed'[g].pc = "recover"
        /\ feed'[g].key = feed[g].key
    BY <1>1, <1>3, <1>6 DEF FeedStates
  <2> QED
    BY <1>1, <1>4, <1>6, <2>1
<1> QED
  BY <1>2, <1>5, <1>6

(* A sender joins: getOrCreate's part of enqueueJob.                       *)
LEMMA SenderJoins ==
    ASSUME Types, PendingCounts, NEW g \in Feeders, NEW k \in Keys, FindWorker(k),
           feed[g].pc # "send", feed'[g].pc = "send", feed'[g].key = k,
           \A h \in Feeders \ {g} : feed'[h] = feed[h]
    PROVE  PendingCounts'
<1>1. SendersTo(k)' = SendersTo(k) \cup {g} /\ g \notin SendersTo(k)
  BY DEF SendersTo, FeedAt
<1>2. Cardinality(SendersTo(k)') = Cardinality(SendersTo(k)) + 1
  BY <1>1, FiniteSenders, FS_AddElement
<1>3. \A l \in Keys \ {k} : SendersTo(l)' = SendersTo(l)
  BY DEF SendersTo, FeedAt
<1>4. /\ worker'[k].pending = worker[k].pending + 1
      /\ \A l \in Keys \ {k} : worker'[l].pending = worker[l].pending
  BY DEF FindWorker, Types, WorkersTyped, WorkerStates
<1> QED
  BY <1>2, <1>3, <1>4 DEF PendingCounts

(* A sender has sent, and leaves.                                          *)
LEMMA SenderLeaves ==
    ASSUME Types, PendingCounts, NEW g \in Feeders, EnqueueSend(g)
    PROVE  PendingCounts'
<1>0. PICK k \in Keys : k = feed[g].key
  BY DEF Types, FeedsTyped, FeedStates
<1>1. /\ feed'[g].pc # "send" /\ feed[g].pc = "send"
      /\ \A h \in Feeders \ {g} : feed'[h] = feed[h]
  BY DEF EnqueueSend, FeedAt, Types, FeedsTyped, FeedStates, Free
<1>2. SendersTo(k)' = SendersTo(k) \ {g} /\ g \in SendersTo(k)
  BY <1>0, <1>1 DEF SendersTo, FeedAt
<1>3. Cardinality(SendersTo(k)') = Cardinality(SendersTo(k)) - 1
  BY <1>2, FiniteSenders, FS_RemoveElement
<1>4. \A l \in Keys \ {k} : SendersTo(l)' = SendersTo(l)
  BY <1>0, <1>1 DEF SendersTo, FeedAt
<1>5. /\ worker'[k].pending = worker[k].pending - 1
      /\ \A l \in Keys \ {k} : worker'[l].pending = worker[l].pending
  BY <1>0 DEF EnqueueSend, Types, WorkersTyped, WorkerStates
<1> QED
  BY <1>3, <1>4, <1>5 DEF PendingCounts

(* Nobody begins or ends to send.                                          *)
LEMMA SendersStay ==
    ASSUME PendingCounts,
           \A h \in Feeders : /\ feed'[h].pc = "send" <=> feed[h].pc = "send"
                              /\ feed[h].pc = "send" => feed'[h].key = feed[h].key,
           \A k \in Keys : worker'[k].pending = worker[k].pending
    PROVE  PendingCounts'
<1>1. \A k \in Keys : SendersTo(k)' = SendersTo(k)
  BY DEF SendersTo, FeedAt
<1> QED
  BY <1>1 DEF PendingCounts

(* PendingCounts (enqueueJob, runWorker).                                  *)
LEMMA CountsStep ==
    ASSUME Types, PendingCounts, Next
    PROVE  PendingCounts'
<1> USE InboundAssumption DEF Types, FeedsTyped, FeedStates, FeedAt, FeedGo
<1>1. ASSUME NEW g \in Feeders, EnqueueBegin(g) PROVE PendingCounts'
  <2>1. /\ feed[g].key \in Keys /\ FindWorker(feed[g].key)
        /\ feed[g].pc # "send" /\ feed'[g].pc = "send" /\ feed'[g].key = feed[g].key
        /\ \A h \in Feeders \ {g} : feed'[h] = feed[h]
    BY <1>1 DEF EnqueueBegin
  <2> QED
    BY <2>1, SenderJoins
<1>2. ASSUME NEW g \in Feeders, EnqueueSend(g) PROVE PendingCounts'
  BY <1>2, SenderLeaves
<1>3. ASSUME NEW g \in Feeders, RecoverNext(g) PROVE PendingCounts'
  <2>1. CASE feed'[g].pc = "send"
    BY <1>3, <2>1, RecoverNextDoes, SenderJoins
  <2>2. CASE feed'[g].pc # "send"
    BY <1>3, <2>2, RecoverNextDoes, SendersStay
  <2> QED
    BY <2>1, <2>2
<1>4. ASSUME NEW g \in Feeders,
             \/ HandleWebhook(g) \/ AcceptInboundMessage(g) \/ UpdateConnection(g)
             \/ PrepareRecovery(g) \/ RecoveryEnds(g)
      PROVE  PendingCounts'
  <2>1. /\ feed[g].pc # "send" /\ feed'[g].pc # "send" /\ UNCHANGED worker
        /\ \A h \in Feeders \ {g} : feed'[h] = feed[h]
    BY <1>4 DEF HandleWebhook, AcceptInboundMessage, UpdateConnection, PrepareRecovery,
       RecoveryEnds, Free
  <2> QED
    BY <2>1, SendersStay
<1>5. ASSUME NEW o \in Operators,
             \/ ResumeConnection(o) \/ UpdateBegins(o) \/ ReplayFailedReply(o)
             \/ ReplayReturns(o)
      PROVE  PendingCounts'
  <2>1. /\ feed[o].pc # "send" /\ feed'[o].pc # "send" /\ UNCHANGED worker
        /\ \A h \in Feeders \ {o} : feed'[h] = feed[h]
    BY <1>5 DEF ResumeConnection, UpdateBegins, ReplayFailedReply, ReplayReturns, Idle, Feeders
  <2> QED
    BY <2>1, SendersStay
<1>6. ASSUME NEW k \in Keys, TakeJob(k) \/ RetireIfIdle(k) PROVE PendingCounts'
  <2>1. /\ UNCHANGED feed
        /\ \/ worker' = [worker EXCEPT ![k].queue = Tail(@)]
           \/ worker' = [worker EXCEPT ![k].live = FALSE]
    BY <1>6 DEF TakeJob, RetireIfIdle
  <2>2. \A l \in Keys : worker'[l].pending = worker[l].pending
    BY <2>1 DEF WorkersTyped, WorkerStates
  <2> QED
    BY <2>1, <2>2, SendersStay
<1>7. ASSUME UNCHANGED <<feed, worker>> PROVE PendingCounts'
  BY <1>7, SendersStay
<1>8. ASSUME Crash PROVE PendingCounts'
  <2>1. \A k \in Keys : SendersTo(k)' = {} /\ worker'[k].pending = 0
    BY <1>8 DEF Crash, NoWorker, SendersTo, Free
  <2> QED
    BY <2>1, FS_EmptySet DEF PendingCounts
<1> QED
  BY <1>1, <1>2, <1>3, <1>4, <1>5, <1>6, <1>7, <1>8
  DEF Next, FeedStep, RunStep, PauseConnection, Claim, ProcessWithoutReply, SendNewReply,
      SendSavedReply, Complete, SaveReply, Fail

(* A worker with a job or a sender is live (NoStrandedJob).                *)
LEMMA NoStrandedStep ==
    ASSUME Types, PendingCounts, NoStrandedJob, Next
    PROVE  NoStrandedJob'
<1> USE InboundAssumption DEF Types, FeedsTyped, FeedStates, WorkersTyped, WorkerStates,
        RunsTyped, RunStates, Runners, FeedAt, FeedGo, NoStrandedJob
<1>1. ASSUME NEW k \in Keys, FindWorker(k), UNCHANGED run,
             NEW g \in Feeders, feed'[g].key = k, \A h \in Feeders \ {g} : feed'[h] = feed[h]
      PROVE  NoStrandedJob'
  BY <1>1 DEF FindWorker
<1>2. ASSUME NEW g \in Feeders, EnqueueBegin(g) PROVE NoStrandedJob'
  <2>1. /\ feed[g].key \in Keys /\ FindWorker(feed[g].key) /\ UNCHANGED run
        /\ feed'[g].key = feed[g].key /\ \A h \in Feeders \ {g} : feed'[h] = feed[h]
    BY <1>2 DEF EnqueueBegin
  <2> QED
    BY <1>1, <2>1
<1>3. ASSUME NEW g \in Feeders, RecoverNext(g) PROVE NoStrandedJob'
  <2>1. CASE feed'[g].pc = "send"
    <3>1. PICK k \in Keys : feed'[g].key = k /\ FindWorker(k)
      BY <1>3, <2>1, RecoverNextDoes
    <3>2. UNCHANGED run /\ \A h \in Feeders \ {g} : feed'[h] = feed[h]
      BY <1>3, RecoverNextDoes
    <3> QED
      BY <1>1, <3>1, <3>2
  <2>2. CASE feed'[g].pc # "send"
    <3>1. UNCHANGED <<worker, run>> /\ \A h \in Feeders \ {g} : feed'[h] = feed[h]
      BY <1>3, <2>2, RecoverNextDoes
    <3> QED
      BY <2>2, <3>1
  <2> QED
    BY <2>1, <2>2
<1>4. ASSUME NEW g \in Feeders, EnqueueSend(g) PROVE NoStrandedJob'
  <2>1. /\ feed[g].key \in Keys /\ worker[feed[g].key].live
        /\ \A k \in Keys : /\ worker'[k].live = worker[k].live
                           /\ k # feed[g].key => worker'[k] = worker[k]
        /\ feed'[g].pc # "send" /\ \A h \in Feeders \ {g} : feed'[h] = feed[h]
        /\ UNCHANGED run
    BY <1>4 DEF EnqueueSend, Free
  <2> QED
    BY <2>1
<1>5. ASSUME NEW g \in Feeders,
             \/ HandleWebhook(g) \/ AcceptInboundMessage(g) \/ UpdateConnection(g)
             \/ PrepareRecovery(g) \/ RecoveryEnds(g)
      PROVE  NoStrandedJob'
  <2>1. /\ feed'[g].pc # "send" /\ UNCHANGED <<worker, run>>
        /\ \A h \in Feeders \ {g} : feed'[h] = feed[h]
    BY <1>5 DEF HandleWebhook, AcceptInboundMessage, UpdateConnection, PrepareRecovery,
       RecoveryEnds, Free
  <2> QED
    BY <2>1
<1>6. ASSUME NEW o \in Operators,
             \/ ResumeConnection(o) \/ UpdateBegins(o) \/ ReplayFailedReply(o)
             \/ ReplayReturns(o)
      PROVE  NoStrandedJob'
  <2>1. /\ feed'[o].pc # "send" /\ UNCHANGED worker
        /\ \A h \in Feeders \ {o} : feed'[h] = feed[h]
        /\ \A k \in Keys : run'[k] = run[k]
    BY <1>6 DEF ResumeConnection, UpdateBegins, ReplayFailedReply, ReplayReturns, Idle, Feeders
  <2> QED
    BY <2>1 DEF Feeders
<1>7. ASSUME NEW k \in Keys, TakeJob(k) PROVE NoStrandedJob'
  <2>1. /\ UNCHANGED feed /\ worker[k].live
        /\ \A l \in Keys : /\ worker'[l].live = worker[l].live
                           /\ l # k => worker'[l] = worker[l] /\ run'[l] = run[l]
    BY <1>7 DEF TakeJob
  <2> QED
    BY <2>1
<1>8. ASSUME NEW k \in Keys, RetireIfIdle(k) PROVE NoStrandedJob'
  <2>1. SendersTo(k) = {}
    BY <1>8, FiniteSenders, FS_EmptySet DEF RetireIfIdle, MayRetire, PendingCounts
  <2>2. /\ UNCHANGED <<feed, run>> /\ worker[k].queue = <<>> /\ run[k].pc = "idle"
        /\ worker' = [worker EXCEPT ![k].live = FALSE]
    BY <1>8 DEF RetireIfIdle, MayRetire
  <2>3. worker'[k].queue = <<>> /\ \A l \in Keys \ {k} : worker'[l] = worker[l]
    BY <2>2
  <2> QED
    BY <2>1, <2>2, <2>3 DEF SendersTo
<1>9. ASSUME NEW x \in Runners,
             \/ Claim(x) \/ ProcessWithoutReply(x) \/ SendNewReply(x) \/ SendSavedReply(x)
             \/ Complete(x) \/ SaveReply(x) \/ Fail(x)
      PROVE  NoStrandedJob'
  <2>1. /\ UNCHANGED <<feed, worker>> /\ run[x].pc # "idle"
        /\ \A y \in Runners \ {x} : run'[y] = run[y]
    BY <1>9 DEF Claim, ProcessWithoutReply, SendNewReply, SendSavedReply, Complete,
       SaveReply, Fail, RunAt, RunGo, Rest
  <2> QED
    BY <2>1
<1>10. ASSUME Crash PROVE NoStrandedJob'
  BY <1>10 DEF Crash, NoWorker, Resting, Free
<1> QED
  BY <1>2, <1>3, <1>4, <1>5, <1>6, <1>7, <1>8, <1>9, <1>10
  DEF Next, FeedStep, RunStep, PauseConnection
-----------------------------------------------------------------------------
(* Whoever works on a delivery has it marked, so nobody else claims it.    *)
LEMMA NoNewWork ==
    ASSUME WorkIsMarked, OneAtATime, overlapped \subseteq overlapped',
           \A d \in Deliveries, x \in Runners : Working(x, d)' => Working(x, d),
           \A d \in Deliveries \ overlapped', x \in Runners :
              Working(x, d)' /\ status[d] = "processing" => status'[d] = "processing"
    PROVE  WorkIsMarked' /\ OneAtATime'
  BY DEF WorkIsMarked, OneAtATime

(* What a runner does that goes on with its delivery.                      *)
LEMMA RunnerGoesOn ==
    ASSUME Types, NEW x \in Runners,
           \/ ProcessWithoutReply(x) \/ SendNewReply(x) \/ SendSavedReply(x) \/ SaveReply(x)
    PROVE  /\ run'[x].d = run[x].d /\ run[x].pc \in {"claimed", "save"}
           /\ run'[x].pc \in {"complete", "save", "fail"} /\ run'[x].replay = FALSE
           /\ \A y \in Runners \ {x} : run'[y] = run[y]
           /\ UNCHANGED <<active, status, worker, feed, crashes, found, overlapped>>
<1>1. /\ run \in [Runners -> RunStates]
      /\ run[x].pc \in {"claimed", "save"}
  BY DEF Types, RunsTyped, ProcessWithoutReply, SendNewReply, SendSavedReply, SaveReply, RunAt
<1>2. PICK pc \in {"complete", "save", "fail"} :
         run' = [run EXCEPT ![x].pc = pc, ![x].replay = FALSE]
  BY DEF ProcessWithoutReply, SendNewReply, SendSavedReply, SaveReply, RunGo
<1>3. UNCHANGED <<active, status, worker, feed, crashes, found, overlapped>>
  BY DEF ProcessWithoutReply, SendNewReply, SendSavedReply, SaveReply, stored, history
<1>4. /\ run'[x].d = run[x].d /\ run'[x].pc = pc /\ run'[x].replay = FALSE
      /\ \A y \in Runners \ {x} : run'[y] = run[y]
  BY <1>1, <1>2 DEF RunStates
<1> QED
  BY <1>1, <1>2, <1>3, <1>4

(* CompleteBotInboundDelivery and FailBotInboundDelivery.                  *)
LEMMA RunnerEnds ==
    ASSUME Types, NEW x \in Runners, Complete(x) \/ Fail(x)
    PROVE  /\ run'[x] = Resting /\ run[x].pc \in {"complete", "fail"}
           /\ run[x].d \in Deliveries /\ status'[run[x].d] \in {"completed", "failed"}
           /\ \A y \in Runners \ {x} : run'[y] = run[y]
           /\ \A d \in Deliveries \ {run[x].d} : status'[d] = status[d]
           /\ UNCHANGED <<active, saved, worker, feed, crashes, history>>
  BY DEF Types, RunsTyped, RunOK, StoreTyped, Complete, Fail, Rest, RunAt

(* ClaimBotInboundDelivery.                                                *)
LEMMA RunnerClaims ==
    ASSUME Types, NEW x \in Runners, Claim(x)
    PROVE  /\ run[x].pc = "claim" /\ run[x].d \in Deliveries
           /\ \A y \in Runners \ {x} : run'[y] = run[y]
           /\ \A d \in Deliveries \ {run[x].d} : status'[d] = status[d]
           /\ UNCHANGED <<active, saved, worker, feed, crashes, history>>
           /\ \/ /\ Claimable(run[x].d) /\ status'[run[x].d] = "processing"
                 /\ run'[x].pc = "claimed" /\ run'[x].d = run[x].d
                 /\ run'[x].replay => run[x].d \in saved
              \/ /\ ~Claimable(run[x].d) /\ UNCHANGED status /\ run'[x] = Resting
<1>1. /\ run \in [Runners -> RunStates] /\ run[x].pc = "claim" /\ run[x].d \in Deliveries
      /\ DOMAIN status = Deliveries
  BY DEF Types, RunsTyped, RunOK, StoreTyped, Claim, RunAt
<1>2. CASE Claimable(run[x].d)
  <2>1. /\ run' = [run EXCEPT ![x].pc = "claimed", ![x].replay = run[x].d \in saved]
        /\ status' = [status EXCEPT ![run[x].d] = "processing"]
        /\ UNCHANGED <<active, saved, worker, feed, crashes, history>>
    BY <1>2 DEF Claim
  <2>2. /\ run'[x].pc = "claimed" /\ run'[x].d = run[x].d
        /\ \A y \in Runners \ {x} : run'[y] = run[y]
    BY <1>1, <2>1 DEF RunStates
  <2>3. run'[x].replay => run[x].d \in saved
    BY <1>1, <2>1 DEF RunStates
  <2> QED
    BY <1>1, <1>2, <2>1, <2>2, <2>3 DEF Types, StoreTyped
<1>3. CASE ~Claimable(run[x].d)
  BY <1>1, <1>3 DEF Claim, Rest
<1> QED
  BY <1>2, <1>3

(* OneAtATime (processInboundMessage and the store's claim).               *)
LEMMA WorkStep ==
    ASSUME Types, WorkIsMarked, OneAtATime, Next
    PROVE  WorkIsMarked' /\ OneAtATime'
<1> USE InboundAssumption DEF Types, StoreTyped, Working, stored, history
<1>1. ASSUME NEW g \in Feeders, AcceptInboundMessage(g)
      PROVE  WorkIsMarked' /\ OneAtATime'
  <2>1. /\ UNCHANGED <<run, overlapped>>
        /\ \A d \in Deliveries : status[d] = "processing" => status'[d] = "processing"
    BY <1>1 DEF AcceptInboundMessage, ShouldEnqueue
  <2> QED
    BY <2>1, NoNewWork
<1>2. ASSUME NEW g \in Feeders, PrepareRecovery(g)
      PROVE  WorkIsMarked' /\ OneAtATime'
  <2>1. /\ UNCHANGED run /\ overlapped \subseteq overlapped'
        /\ \A d \in Deliveries \ overlapped', x \in Runners :
              ~(status[d] = "processing" /\ Working(x, d))
    BY <1>2 DEF PrepareRecovery
  <2> QED
    BY <2>1, NoNewWork
<1>3. ASSUME NEW o \in Operators, ReplayFailedReply(o)
      PROVE  WorkIsMarked' /\ OneAtATime'
  <2>1. PICK d \in Deliveries : run' = [run EXCEPT ![o] = Claiming(d)]
    BY <1>3 DEF ReplayFailedReply
  <2>2. /\ UNCHANGED <<status, overlapped>> /\ o \in Runners /\ run'[o].pc = "claim"
        /\ \A y \in Runners \ {o} : run'[y] = run[y]
    BY <1>3, <2>1 DEF ReplayFailedReply, Runners, RunsTyped, Claiming, Resting
  <2> QED
    BY <2>2, NoNewWork
<1>4. ASSUME NEW k \in Keys, TakeJob(k) PROVE WorkIsMarked' /\ OneAtATime'
  <2>1. /\ UNCHANGED <<status, overlapped>>
        /\ \A y \in Runners : run'[y] = run[y] \/ run'[y].pc = "claim"
    BY <1>4 DEF TakeJob, Runners, RunsTyped, Claiming, Resting
  <2> QED
    BY <2>1, NoNewWork
<1>5. ASSUME NEW x \in Runners,
             \/ ProcessWithoutReply(x) \/ SendNewReply(x) \/ SendSavedReply(x) \/ SaveReply(x)
      PROVE  WorkIsMarked' /\ OneAtATime'
  <2>1. UNCHANGED <<status, overlapped>> /\ \A d \in Deliveries, y \in Runners :
           Working(y, d)' => Working(y, d)
    BY <1>5, RunnerGoesOn
  <2> QED
    BY <2>1, NoNewWork
<1>6. ASSUME NEW x \in Runners, Complete(x) \/ Fail(x)
      PROVE  WorkIsMarked' /\ OneAtATime'
  <2>1. /\ UNCHANGED overlapped /\ Working(x, run[x].d)
        /\ \A d \in Deliveries, y \in Runners : Working(y, d)' => Working(y, d) /\ y # x
        /\ \A d \in Deliveries \ {run[x].d} : status'[d] = status[d]
    BY <1>6, RunnerEnds DEF Resting
  <2>2. \A d \in Deliveries \ overlapped, y \in Runners : Working(y, d)' => d # run[x].d
    BY <2>1 DEF OneAtATime
  <2> QED
    BY <2>1, <2>2, NoNewWork
<1>7. ASSUME NEW x \in Runners, Claim(x) PROVE WorkIsMarked' /\ OneAtATime'
  <2> DEFINE d0 == run[x].d
  <2>1. CASE Claimable(run[x].d)
    <3>1. \A y \in Runners : d0 \notin overlapped => ~Working(y, d0)
      BY <2>1, <1>7, RunnerClaims DEF Claimable, WorkIsMarked
    <3>2. /\ \A d \in Deliveries, y \in Runners :
                Working(y, d)' => Working(y, d) \/ (y = x /\ d = d0)
          /\ status'[d0] = "processing" /\ overlapped' = overlapped
          /\ \A d \in Deliveries \ {d0} : status'[d] = status[d]
      BY <2>1, <1>7, RunnerClaims
    <3>3. WorkIsMarked'
      BY <3>2 DEF WorkIsMarked
    <3>4. OneAtATime'
      BY <3>1, <3>2 DEF OneAtATime
    <3> QED
      BY <3>3, <3>4
  <2>2. CASE ~Claimable(run[x].d)
    <3>1. UNCHANGED <<status, overlapped>> /\ \A d \in Deliveries, y \in Runners :
             Working(y, d)' => Working(y, d)
      BY <1>7, <2>2, RunnerClaims DEF Resting
    <3> QED
      BY <3>1, NoNewWork
  <2> QED
    BY <2>1, <2>2
<1>8. ASSUME Crash PROVE WorkIsMarked' /\ OneAtATime'
  <2>1. UNCHANGED <<status, overlapped>> /\ \A d \in Deliveries, y \in Runners : ~Working(y, d)'
    BY <1>8 DEF Crash, Resting
  <2> QED
    BY <2>1, NoNewWork
<1>9. ASSUME UNCHANGED <<run, status, overlapped>> PROVE WorkIsMarked' /\ OneAtATime'
  BY <1>9, NoNewWork
<1> QED
  BY <1>1, <1>2, <1>3, <1>4, <1>5, <1>6, <1>7, <1>8, <1>9
  DEF Next, FeedStep, RunStep, HandleWebhook, EnqueueBegin, EnqueueSend, PauseConnection,
      ResumeConnection, UpdateBegins, UpdateConnection, ReplayReturns, RecoverNext,
      RecoveryEnds, RetireIfIdle

(* A completed delivery is claimed, accepted and recovered by nobody.      *)
LEMMA CompletedStep ==
    ASSUME Types, WorkIsMarked, Next,
           NEW d \in Deliveries \ overlapped, status[d] = "completed"
    PROVE  status'[d] = "completed"
<1> USE DEF Types, StoreTyped, stored
<1>1. ASSUME NEW g \in Feeders, AcceptInboundMessage(g) PROVE status'[d] = "completed"
  BY <1>1 DEF AcceptInboundMessage, ShouldEnqueue
<1>2. ASSUME NEW g \in Feeders, PrepareRecovery(g) PROVE status'[d] = "completed"
  BY <1>2 DEF PrepareRecovery, Recoverable, Unfinished
<1>3. ASSUME NEW x \in Runners, Claim(x) PROVE status'[d] = "completed"
  BY <1>3, RunnerClaims DEF Claimable
<1>4. ASSUME NEW x \in Runners, Complete(x) \/ Fail(x) PROVE status'[d] = "completed"
  <2>1. ~Working(x, d)
    BY DEF WorkIsMarked
  <2> QED
    BY <1>4, <2>1, RunnerEnds DEF Working
<1> QED
  BY <1>1, <1>2, <1>3, <1>4
  DEF Next, FeedStep, RunStep, HandleWebhook, EnqueueBegin, EnqueueSend, PauseConnection,
      ResumeConnection, UpdateBegins, UpdateConnection, ReplayFailedReply, ReplayReturns,
      RecoverNext, RecoveryEnds, TakeJob, RetireIfIdle, ProcessWithoutReply, SendNewReply,
      SendSavedReply, SaveReply, Crash
-----------------------------------------------------------------------------
(* The one job of a delivery no recovery has found unfinished.             *)
LEMMA NoJob ==
    ASSUME NEW d, ~Held(d)'
    PROVE  JobOK(d)'
  BY DEF JobOK, OneCarrier, OneQueue, OneClaim, Held

(* It has just been put into somebody's hands (acceptInboundMessage, a recovery). *)
LEMMA OnlyCarrier ==
    ASSUME NEW d, NEW g \in Feeders, ~(Sending(g, d)' /\ d \in feed'[g].todo),
           \A h \in Feeders \ {g} : ~Carries(h, d)',
           \A k \in Keys : ~Queues(k, d)' /\ ~Claims(k, d)', status'[d] = "received"
    PROVE  JobOK(d)'
  BY DEF JobOK, OneCarrier, OneQueue, OneClaim

(* It stays where it is, or is dropped.                                    *)
LEMMA JobStays ==
    ASSUME NEW d, JobOK(d), status'[d] = status[d],
           \A g \in Feeders : Sending(g, d)' => Sending(g, d),
           \A g \in Feeders : d \in feed'[g].todo => d \in feed[g].todo,
           \A k \in Keys : worker'[k].queue = worker[k].queue,
           \A k \in Keys : Claims(k, d)' => Claims(k, d)
    PROVE  JobOK(d)'
<1>1. \A k \in Keys : Queues(k, d)' <=> Queues(k, d)
  BY DEF Queues
<1>2. \A g \in Feeders : Carries(g, d)' => Carries(g, d)
  BY DEF Carries
<1>3. Held(d)' => Held(d)
  BY <1>1, <1>2 DEF Held
<1>4. OneCarrier(d)'
  BY <1>1, <1>2 DEF JobOK, OneCarrier
<1>5. OneQueue(d)'
  BY <1>1 DEF JobOK, OneQueue
<1>6. OneClaim(d)'
  BY DEF JobOK, OneClaim
<1> QED
  BY <1>3, <1>4, <1>5, <1>6 DEF JobOK

(* Where a delivery is in a queue that has got longer, and in one that has *)
(* lost its head.                                                          *)
LEMMA PlacesAppended ==
    ASSUME NEW q \in JobLists, NEW e \in Deliveries, NEW d
    PROVE  /\ d # e => Places(Append(q, e), d) = Places(q, d)
           /\ d = e => Places(Append(q, e), d) = Places(q, d) \cup {Len(q) + 1}
<1> DEFINE a == Append(q, e)
<1>1. /\ Len(q) \in Nat /\ Len(a) = Len(q) + 1
      /\ \A i \in 1 .. Len(q) : a[i] = q[i]
      /\ a[Len(q) + 1] = e
  BY AppendProperties, LenProperties DEF JobLists
<1> HIDE DEF a
<1>2. 1 .. Len(a) = 1 .. Len(q) \cup {Len(q) + 1}
  BY <1>1
<1>3. /\ d # e => Places(a, d) = Places(q, d)
      /\ d = e => Places(a, d) = Places(q, d) \cup {Len(q) + 1}
  BY <1>1, <1>2 DEF Places
<1> QED
  BY <1>3 DEF a

LEMMA PlacesTaken ==
    ASSUME NEW q \in JobLists, q # <<>>, NEW d
    PROVE  /\ Head(q) = d <=> 1 \in Places(q, d)
           /\ \A i \in Places(Tail(q), d) : i \in Nat /\ i # 0 /\ i + 1 \in Places(q, d)
<1>1. /\ Len(q) \in Nat /\ Len(q) > 0 /\ Head(q) = q[1]
      /\ Len(Tail(q)) = Len(q) - 1
      /\ \A i \in 1 .. Len(Tail(q)) : Tail(q)[i] = q[i + 1]
  BY HeadTailProperties, LenProperties, EmptySeq DEF JobLists
<1>2. \A i \in 1 .. Len(Tail(q)) : i \in Nat /\ i # 0 /\ i + 1 \in 1 .. Len(q)
  BY <1>1
<1>3. 1 \in 1 .. Len(q)
  BY <1>1
<1> QED
  BY <1>1, <1>2, <1>3 DEF Places

(* It goes from its sender to the end of a queue (EnqueueSend).            *)
LEMMA JobQueued ==
    ASSUME Types, NEW d \in Deliveries, JobOK(d), NEW g \in Feeders, EnqueueSend(g)
    PROVE  JobOK(d)'
<1> USE DEF Types
<1>1. PICK k \in Keys : k = feed[g].key
  BY DEF FeedsTyped, FeedStates
<1>2. PICK q \in JobLists : q = worker[k].queue
  BY DEF WorkersTyped, WorkerStates
<1>3. PICK e \in Deliveries : e = feed[g].d
  BY DEF EnqueueSend, FeedsTyped, FeedOK, FeedAt
<1>4. /\ feed[g].pc = "send" /\ feed'[g].pc \in {"idle", "recover"}
      /\ feed'[g].todo \subseteq feed[g].todo
      /\ \A h \in Feeders \ {g} : feed'[h] = feed[h]
  BY DEF EnqueueSend, FeedsTyped, FeedStates, FeedAt, Free
<1>5. /\ worker'[k].queue = Append(q, e)
      /\ \A l \in Keys \ {k} : worker'[l].queue = worker[l].queue
  BY <1>1, <1>2, <1>3 DEF EnqueueSend, WorkersTyped, WorkerStates
<1>6. UNCHANGED <<run, status>>
  BY DEF EnqueueSend, stored
<1>7. \A l \in Keys : Claims(l, d)' <=> Claims(l, d)
  BY <1>6 DEF Claims, RunAt
<1>8. /\ d # e => Places(worker'[k].queue, d) = Places(q, d)
      /\ d = e => Places(worker'[k].queue, d) = Places(q, d) \cup {Len(q) + 1}
  <2>1. PICK longer : longer = Append(q, e)
    OBVIOUS
  <2>2. /\ d # e => Places(longer, d) = Places(q, d)
        /\ d = e => Places(longer, d) = Places(q, d) \cup {Len(q) + 1}
    BY <2>1, PlacesAppended
  <2>3. worker'[k].queue = longer
    BY <1>5, <2>1
  <2> QED
    BY <2>2, <2>3
<1>9. CASE d # e
  <2>1. \A l \in Keys : Places(worker'[l].queue, d) = Places(worker[l].queue, d)
    <3>1. Places(worker'[k].queue, d) = Places(q, d)
      BY <1>8, <1>9
    <3> QED
      BY <1>2, <1>5, <3>1
  <2>2. \A l \in Keys : Queues(l, d)' <=> Queues(l, d)
    BY <2>1 DEF Queues
  <2>3. \A h \in Feeders : /\ Sending(h, d)' => Sending(h, d)
                           /\ d \in feed'[h].todo => d \in feed[h].todo
    BY <1>4 DEF Sending
  <2>4. OneCarrier(d)'
    BY <1>7, <2>2, <2>3 DEF JobOK, OneCarrier, Carries
  <2>5. OneQueue(d)'
    BY <1>7, <2>1, <2>2 DEF JobOK, OneQueue
  <2>6. OneClaim(d)'
    BY <1>7 DEF JobOK, OneClaim
  <2>7. Held(d)' => status'[d] = "received"
    BY <1>6, <1>7, <2>2, <2>3 DEF JobOK, Held, Carries
  <2> QED
    BY <2>4, <2>5, <2>6, <2>7 DEF JobOK
<1>10. CASE d = e
  <2>1. Sending(g, d) /\ Carries(g, d)
    BY <1>3, <1>4, <1>10 DEF Sending, Carries
  <2>2. /\ status[d] = "received" /\ d \notin feed[g].todo
        /\ \A h \in Feeders \ {g} : ~Carries(h, d)
        /\ \A l \in Keys : ~Queues(l, d) /\ ~Claims(l, d)
    BY <2>1 DEF JobOK, OneCarrier, Held
  <2>3. \A h \in Feeders : ~Carries(h, d)'
    BY <1>4, <2>2 DEF Carries, Sending
  <2>4. /\ Places(worker'[k].queue, d) = {Len(q) + 1}
        /\ \A l \in Keys \ {k} : Places(worker'[l].queue, d) = {}
    <3>1. Places(worker'[k].queue, d) = Places(q, d) \cup {Len(q) + 1}
      BY <1>8, <1>10
    <3>2. Places(q, d) = {} /\ \A l \in Keys \ {k} : Places(worker'[l].queue, d) = {}
      BY <1>2, <1>5, <2>2 DEF Queues
    <3> QED
      BY <3>1, <3>2
  <2>5. \A l \in Keys : ~Claims(l, d)' /\ (Queues(l, d)' => l = k)
    BY <1>7, <2>2, <2>4 DEF Queues
  <2>6. OneQueue(d)'
    BY <2>4, <2>5 DEF OneQueue
  <2> QED
    BY <1>6, <2>2, <2>3, <2>5, <2>6 DEF JobOK, OneCarrier, OneClaim
<1> QED
  BY <1>9, <1>10

(* It goes from the head of a queue to the worker, or is dropped (TakeJob). *)
LEMMA JobTaken ==
    ASSUME Types, NEW d \in Deliveries, JobOK(d), NEW k \in Keys, TakeJob(k)
    PROVE  JobOK(d)'
<1> USE DEF Types
<1>1. PICK q \in JobLists : q = worker[k].queue /\ q # <<>>
  BY DEF TakeJob, WorkersTyped, WorkerStates
<1>2. /\ worker'[k].queue = Tail(q)
      /\ \A l \in Keys \ {k} : worker'[l].queue = worker[l].queue
  <2>1. worker' = [worker EXCEPT ![k].queue = Tail(@)]
    BY DEF TakeJob
  <2> QED
    BY <1>1, <2>1 DEF WorkersTyped, WorkerStates
<1>3. UNCHANGED <<feed, status>>
  BY DEF TakeJob, stored
<1>4. \A h \in Feeders : (Sending(h, d)' <=> Sending(h, d)) /\ (Carries(h, d)' <=> Carries(h, d))
  BY <1>3 DEF Sending, Carries
<1>5. /\ ~Claims(k, d)
      /\ Claims(k, d)' => Head(q) = d
      /\ \A l \in Keys \ {k} : Claims(l, d)' <=> Claims(l, d)
  BY <1>1 DEF TakeJob, Claims, RunAt, RunsTyped, Runners, Claiming, Resting
<1>6. \A i \in Places(Tail(q), d) : i \in Nat /\ i # 0 /\ i + 1 \in Places(q, d)
  BY <1>1, PlacesTaken
<1>7. \A l \in Keys : Queues(l, d)' => Queues(l, d)
  <2>1. Places(Tail(q), d) # {} => Places(q, d) # {}
    BY <1>6
  <2> QED
    BY <1>1, <1>2, <2>1 DEF Queues
<1>8. CASE Head(q) # d
  <2>1. \A l \in Keys : Claims(l, d)' => Claims(l, d)
    BY <1>5, <1>8
  <2>2. \A l \in Keys : \A i, j \in Places(worker'[l].queue, d) : Queues(l, d) => i = j
    <3>1. \A i, j \in Places(q, d) : i = j
      BY <1>1 DEF JobOK, OneQueue, Queues
    <3>2. \A i, j \in Places(Tail(q), d) : i = j
      <4>1. \A i, j \in Places(Tail(q), d) : i \in Nat /\ j \in Nat /\ i + 1 = j + 1
        BY <1>6, <3>1
      <4> QED
        BY <4>1
    <3> QED
      BY <1>2, <3>2 DEF JobOK, OneQueue
  <2>3. OneQueue(d)'
    BY <1>7, <2>1, <2>2 DEF JobOK, OneQueue
  <2>4. OneCarrier(d)'
    BY <1>3, <1>4, <1>7, <2>1 DEF JobOK, OneCarrier
  <2>5. OneClaim(d)' /\ (Held(d)' => status'[d] = "received")
    BY <1>3, <1>4, <1>7, <2>1 DEF JobOK, OneClaim, Held
  <2> QED
    BY <2>3, <2>4, <2>5 DEF JobOK
<1>9. CASE Head(q) = d
  <2>1. 1 \in Places(q, d) /\ Queues(k, d)
    BY <1>1, <1>9, PlacesTaken DEF Queues
  <2>2. /\ status[d] = "received"
        /\ \A l \in Keys : ~Claims(l, d) /\ (Queues(l, d) => l = k)
        /\ \A h \in Feeders : ~Carries(h, d)
        /\ \A i \in Places(q, d) : i = 1
    BY <1>1, <2>1 DEF JobOK, OneCarrier, OneQueue, Held
  <2>3. Places(Tail(q), d) = {}
    <3> SUFFICES ASSUME NEW i \in Places(Tail(q), d) PROVE FALSE
      OBVIOUS
    <3>1. i \in Nat /\ i # 0 /\ i + 1 = 1
      BY <1>6, <2>2
    <3> QED
      BY <3>1
  <2>4. \A l \in Keys : ~Queues(l, d)'
    BY <1>2, <1>7, <2>2, <2>3 DEF Queues
  <2>5. \A l \in Keys : Claims(l, d)' => l = k
    BY <1>5, <2>2
  <2> QED
    BY <1>3, <1>4, <2>2, <2>4, <2>5 DEF JobOK, OneCarrier, OneQueue, OneClaim
<1> QED
  BY <1>8, <1>9

(* It goes from a recovery's list to its sender, or is dropped (RecoverNext). *)
LEMMA JobRecovered ==
    ASSUME Types, NEW d \in Deliveries, JobOK(d), NEW g \in Feeders, RecoverNext(g)
    PROVE  JobOK(d)'
<1>1. /\ UNCHANGED <<status, run>> /\ feed[g].pc = "recover"
      /\ \A h \in Feeders \ {g} : feed'[h] = feed[h]
  BY RecoverNextDoes DEF stored
<1>2. PICK d0 \in feed[g].todo :
         /\ feed'[g].todo = feed[g].todo \ {d0}
         /\ \/ feed'[g].pc = "send" /\ feed'[g].d = d0 /\ \E k \in Keys : FindWorker(k)
            \/ feed'[g].pc = "recover" /\ UNCHANGED worker
  BY RecoverNextDoes
<1>3. \A l \in Keys : worker'[l].queue = worker[l].queue
  <2>1. ASSUME NEW k \in Keys, FindWorker(k), NEW l \in Keys
        PROVE  worker'[l].queue = worker[l].queue
    BY <2>1 DEF FindWorker, Types, WorkersTyped, WorkerStates
  <2> QED
    BY <1>2, <2>1
<1>4. \A l \in Keys : (Queues(l, d)' <=> Queues(l, d)) /\ (Claims(l, d)' <=> Claims(l, d))
  BY <1>1, <1>3 DEF Queues, Claims, RunAt
<1>5. CASE d # d0
  <2>1. \A h \in Feeders : /\ Sending(h, d)' => Sending(h, d)
                           /\ d \in feed'[h].todo => d \in feed[h].todo
    BY <1>1, <1>2, <1>5 DEF Sending
  <2> QED
    BY <1>1, <1>3, <1>4, <2>1, JobStays
<1>6. CASE d = d0
  <2>1. /\ Carries(g, d) /\ status[d] = "received"
        /\ \A h \in Feeders \ {g} : ~Carries(h, d)
        /\ \A l \in Keys : ~Queues(l, d) /\ ~Claims(l, d)
    BY <1>2, <1>6 DEF JobOK, OneCarrier, Held, Carries
  <2>2. \A h \in Feeders \ {g} : ~Carries(h, d)'
    BY <1>1, <2>1 DEF Carries, Sending
  <2> QED
    BY <1>1, <1>2, <1>4, <1>6, <2>1, <2>2, OnlyCarrier
<1> QED
  BY <1>5, <1>6

(* Nobody has it, and nobody gets it.                                      *)
LEMMA JobGone ==
    ASSUME NEW d, ~Held(d),
           \A g \in Feeders : Sending(g, d)' => Sending(g, d),
           \A g \in Feeders : d \in feed'[g].todo => d \in feed[g].todo,
           \A k \in Keys : worker'[k].queue = worker[k].queue,
           \A k \in Keys : Claims(k, d)' => Claims(k, d)
    PROVE  JobOK(d)'
<1>1. \A k \in Keys : Queues(k, d)' <=> Queues(k, d)
  BY DEF Queues
<1>2. \A g \in Feeders : Carries(g, d)' => Carries(g, d)
  BY DEF Carries
<1> QED
  BY <1>1, <1>2, NoJob DEF Held

(* A message that is accepted is new, or has failed without a reply.       *)
LEMMA JobAccepted ==
    ASSUME Types, NEW d \in Deliveries, JobOK(d), NEW g \in Feeders, AcceptInboundMessage(g)
    PROVE  JobOK(d)'
<1>1. /\ UNCHANGED <<saved, worker, run>> /\ feed[g].pc = "accept"
      /\ \A h \in Feeders \ {g} : feed'[h] = feed[h]
  BY DEF AcceptInboundMessage, FeedAt, Types, FeedsTyped
<1>2. /\ \A l \in Keys : worker'[l].queue = worker[l].queue
      /\ \A l \in Keys : Claims(l, d)' <=> Claims(l, d)
  BY <1>1 DEF Claims, RunAt
<1>3. CASE ShouldEnqueue(feed[g].d)
  <2>1. /\ feed'[g].d = feed[g].d /\ feed'[g].todo = feed[g].todo
        /\ status' = [status EXCEPT ![feed[g].d] = "received"]
    BY <1>3 DEF AcceptInboundMessage, Types, FeedsTyped, FeedStates
  <2>2. CASE d = feed[g].d
    <3>1. ~Held(d) /\ status'[d] = "received"
      BY <1>3, <2>1, <2>2 DEF JobOK, ShouldEnqueue, Types, StoreTyped
    <3>2. /\ d \notin feed'[g].todo
          /\ \A h \in Feeders \ {g} : ~Carries(h, d)'
      BY <1>1, <2>1, <3>1 DEF Held, Carries, Sending
    <3>3. \A l \in Keys : ~Queues(l, d)' /\ ~Claims(l, d)'
      BY <1>2, <3>1 DEF Held, Queues
    <3> QED
      BY <3>1, <3>2, <3>3, OnlyCarrier
  <2>3. CASE d # feed[g].d
    <3>1. \A h \in Feeders : /\ Sending(h, d)' => Sending(h, d)
                             /\ d \in feed'[h].todo => d \in feed[h].todo
      BY <1>1, <2>1, <2>3 DEF Sending
    <3>2. status'[d] = status[d]
      BY <2>1, <2>3 DEF Types, StoreTyped
    <3> QED
      BY <1>2, <3>1, <3>2, JobStays
  <2> QED
    BY <2>2, <2>3
<1>4. CASE ~ShouldEnqueue(feed[g].d)
  <2>1. UNCHANGED status /\ feed'[g] = Free
    BY <1>4 DEF AcceptInboundMessage, Types, FeedsTyped
  <2>2. \A h \in Feeders : /\ Sending(h, d)' => Sending(h, d)
                           /\ d \in feed'[h].todo => d \in feed[h].todo
    BY <1>1, <2>1 DEF Sending, Free
  <2> QED
    BY <1>2, <2>1, <2>2, JobStays
<1> QED
  BY <1>3, <1>4

(* PrepareBotInboundDeliveriesForRecovery: what it did not find unfinished *)
(* nobody has, whether it has failed or not.                               *)
LEMMA JobPrepared ==
    ASSUME Types, NEW d \in Deliveries, JobOK(d), NEW g \in Feeders, PrepareRecovery(g),
           d \notin Unfinished
    PROVE  JobOK(d)'
<1>1. /\ UNCHANGED <<worker, run>> /\ \A h \in Feeders \ {g} : feed'[h] = feed[h]
      /\ feed'[g].pc = "recover" /\ feed'[g].todo = Recoverable
      /\ d \in Recoverable => status'[d] = "received"
  BY DEF PrepareRecovery, Types, FeedsTyped, FeedStates, Recoverable, Unfinished
<1>2. ~Held(d)
  BY DEF JobOK, Unfinished
<1>3. /\ \A l \in Keys : worker'[l].queue = worker[l].queue
      /\ \A l \in Keys : Claims(l, d)' <=> Claims(l, d)
  BY <1>1 DEF Claims, RunAt
<1>4. CASE d \in Recoverable
  <2>1. \A h \in Feeders \ {g} : ~Carries(h, d)'
    BY <1>1, <1>2 DEF Held, Carries, Sending
  <2>2. \A l \in Keys : ~Queues(l, d)' /\ ~Claims(l, d)'
    BY <1>2, <1>3 DEF Held, Queues
  <2>3. ~Sending(g, d)'
    BY <1>1 DEF Sending
  <2> QED
    BY <1>1, <1>4, <2>1, <2>2, <2>3, OnlyCarrier
<1>5. CASE d \notin Recoverable
  <2>1. \A h \in Feeders : /\ Sending(h, d)' => Sending(h, d)
                           /\ d \in feed'[h].todo => d \in feed[h].todo
    BY <1>1, <1>5 DEF Sending
  <2> QED
    BY <1>2, <1>3, <2>1, JobGone
<1> QED
  BY <1>4, <1>5

(* ClaimBotInboundDelivery, by the worker that has the job or by an operator, *)
(* whose delivery has a saved reply and so no job.                         *)
LEMMA JobClaimed ==
    ASSUME Types, SavedIsPast, NEW d \in Deliveries \ found, JobOK(d), NEW x \in Runners, Claim(x)
    PROVE  JobOK(d)'
<1> USE InboundAssumption
<1>1. /\ UNCHANGED <<feed, worker>> /\ run'[x].pc # "claim" /\ run[x].pc = "claim"
      /\ \A y \in Runners \ {x} : run'[y] = run[y]
  BY RunnerClaims DEF Resting
<1>2. \A h \in Feeders : /\ Sending(h, d)' => Sending(h, d)
                         /\ d \in feed'[h].todo => d \in feed[h].todo
  BY <1>1 DEF Sending
<1>3. /\ \A l \in Keys : worker'[l].queue = worker[l].queue
      /\ \A l \in Keys : Claims(l, d)' => Claims(l, d) /\ l # x
  BY <1>1 DEF Claims, RunAt, Runners
<1>4. CASE d # run[x].d \/ ~Claimable(run[x].d)
  <2>1. status'[d] = status[d]
    BY <1>4, RunnerClaims
  <2> QED
    BY <1>2, <1>3, <2>1, JobStays
<1>5. CASE d = run[x].d /\ x \in Operators
  <2>1. d \in saved /\ ~Held(d)
    BY <1>1, <1>5 DEF SavedIsPast, RunAt, JobOK
  <2> QED
    BY <1>2, <1>3, <2>1, JobGone
<1>6. CASE d = run[x].d /\ x \in Keys
  <2>1. Claims(x, d)
    BY <1>1, <1>6 DEF Claims, RunAt
  <2>2. /\ \A h \in Feeders : ~Carries(h, d)
        /\ \A l \in Keys : ~Queues(l, d) /\ (Claims(l, d) => l = x)
    BY <1>6, <2>1 DEF JobOK, OneCarrier, OneQueue, OneClaim
  <2>3. /\ \A h \in Feeders : ~Carries(h, d)'
        /\ \A l \in Keys : ~Queues(l, d)' /\ ~Claims(l, d)'
    BY <1>1, <1>2, <1>3, <2>2 DEF Carries, Queues
  <2> QED
    BY <2>3, NoJob DEF Held
<1> QED
  BY <1>4, <1>5, <1>6 DEF Runners

(* It has been processed: nobody else has had it.                          *)
LEMMA JobEnded ==
    ASSUME Types, WorkIsMarked, SavedIsPast, NEW d \in Deliveries \ found, JobOK(d),
           NEW x \in Runners, Complete(x) \/ Fail(x)
    PROVE  JobOK(d)'
<1>1. /\ UNCHANGED <<feed, worker>> /\ run'[x].pc # "claim"
      /\ \A y \in Runners \ {x} : run'[y] = run[y]
  BY RunnerEnds DEF Resting
<1>2. \A h \in Feeders : /\ Sending(h, d)' => Sending(h, d)
                         /\ d \in feed'[h].todo => d \in feed[h].todo
  BY <1>1 DEF Sending
<1>3. /\ \A l \in Keys : worker'[l].queue = worker[l].queue
      /\ \A l \in Keys : Claims(l, d)' => Claims(l, d)
  BY <1>1 DEF Claims, RunAt, Runners
<1>4. CASE d # run[x].d
  BY <1>2, <1>3, <1>4, RunnerEnds, JobStays
<1>5. CASE d = run[x].d
  <2>1. Working(x, d)
    BY <1>5, RunnerEnds DEF Working
  <2>2. ~Held(d)
    BY <2>1 DEF WorkIsMarked, SavedIsPast, JobOK
  <2> QED
    BY <1>2, <1>3, <2>2, JobGone
<1> QED
  BY <1>4, <1>5

(* OneJob: every step that moves a job, and the rest.                      *)
LEMMA JobStep ==
    ASSUME Types, WorkIsMarked, OneJob, SavedIsPast, Next
    PROVE  OneJob'
<1> SUFFICES ASSUME NEW d \in Deliveries \ found' PROVE JobOK(d)'
  BY DEF OneJob
<1> USE InboundAssumption DEF Types
<1>0. found \subseteq found' /\ d \in Deliveries \ found /\ JobOK(d)
  <2>1. found \subseteq found'
    BY DEF Next, FeedStep, RunStep, HandleWebhook, AcceptInboundMessage, EnqueueBegin, EnqueueSend,
       PauseConnection, ResumeConnection, UpdateBegins, UpdateConnection, ReplayFailedReply,
       ReplayReturns, PrepareRecovery, RecoverNext, RecoveryEnds, TakeJob, RetireIfIdle, Claim,
       ProcessWithoutReply, SendNewReply, SendSavedReply, Complete, SaveReply, Fail, Crash, history
  <2> QED
    BY <2>1 DEF OneJob
<1>1. ASSUME NEW g \in Feeders, AcceptInboundMessage(g) PROVE JobOK(d)'
  BY <1>0, <1>1, JobAccepted
<1>2. ASSUME NEW g \in Feeders, PrepareRecovery(g) PROVE JobOK(d)'
  <2>1. d \notin Unfinished
    BY <1>2 DEF PrepareRecovery
  <2> QED
    BY <1>0, <1>2, <2>1, JobPrepared
<1>3. ASSUME NEW g \in Feeders, EnqueueSend(g) PROVE JobOK(d)'
  BY <1>0, <1>3, JobQueued
<1>4. ASSUME NEW g \in Feeders, RecoverNext(g) PROVE JobOK(d)'
  BY <1>0, <1>4, JobRecovered
<1>5. ASSUME NEW k \in Keys, TakeJob(k) PROVE JobOK(d)'
  BY <1>0, <1>5, JobTaken
<1>6. ASSUME NEW x \in Runners, Claim(x) PROVE JobOK(d)'
  BY <1>0, <1>6, JobClaimed
<1>7. ASSUME NEW x \in Runners, Complete(x) \/ Fail(x) PROVE JobOK(d)'
  BY <1>0, <1>7, JobEnded
<1>8. ASSUME NEW g \in Feeders, EnqueueBegin(g) PROVE JobOK(d)'
  <2>1. \A l \in Keys : worker'[l].queue = worker[l].queue
    BY <1>8 DEF EnqueueBegin, FindWorker, WorkersTyped, WorkerStates
  <2>2. \A h \in Feeders : /\ Sending(h, d)' => Sending(h, d)
                           /\ d \in feed'[h].todo => d \in feed[h].todo
    BY <1>8 DEF EnqueueBegin, FeedAt, FeedGo, Sending, FeedsTyped, FeedStates
  <2>3. status'[d] = status[d] /\ \A l \in Keys : Claims(l, d)' <=> Claims(l, d)
    BY <1>8 DEF EnqueueBegin, Claims, RunAt, stored
  <2> QED
    BY <1>0, <2>1, <2>2, <2>3, JobStays
<1>9. ASSUME NEW g \in Feeders, HandleWebhook(g) \/ UpdateConnection(g) \/ RecoveryEnds(g)
      PROVE  JobOK(d)'
  <2>1. UNCHANGED <<worker, run, status>>
    BY <1>9 DEF HandleWebhook, UpdateConnection, RecoveryEnds, stored
  <2>2. \A h \in Feeders : /\ Sending(h, d)' => Sending(h, d)
                           /\ d \in feed'[h].todo => d \in feed[h].todo
    BY <1>9 DEF HandleWebhook, UpdateConnection, RecoveryEnds, Sending, FeedsTyped, FeedStates, Free
  <2>3. \A l \in Keys : Claims(l, d)' <=> Claims(l, d)
    BY <2>1 DEF Claims, RunAt
  <2> QED
    BY <1>0, <2>1, <2>2, <2>3, JobStays
<1>10. ASSUME NEW o \in Operators,
              \/ ResumeConnection(o) \/ UpdateBegins(o) \/ ReplayFailedReply(o)
              \/ ReplayReturns(o) \/ PauseConnection(o)
       PROVE  JobOK(d)'
  <2>1. UNCHANGED <<worker, status>>
    BY <1>10 DEF ResumeConnection, UpdateBegins, ReplayFailedReply, ReplayReturns, PauseConnection,
       stored
  <2>2. \A h \in Feeders : /\ Sending(h, d)' => Sending(h, d)
                           /\ d \in feed'[h].todo => d \in feed[h].todo
    BY <1>10 DEF ResumeConnection, UpdateBegins, ReplayFailedReply, ReplayReturns, PauseConnection,
       Sending, FeedsTyped, FeedStates, FeedGo
  <2>3. \A l \in Keys : run'[l] = run[l]
    BY <1>10 DEF ResumeConnection, UpdateBegins, ReplayFailedReply, ReplayReturns, PauseConnection,
       RunsTyped, Runners
  <2>4. \A l \in Keys : Claims(l, d)' <=> Claims(l, d)
    BY <2>3 DEF Claims, RunAt
  <2> QED
    BY <1>0, <2>1, <2>2, <2>4, JobStays
<1>11. ASSUME NEW k \in Keys, RetireIfIdle(k) PROVE JobOK(d)'
  <2>1. \A l \in Keys : worker'[l].queue = worker[l].queue
    BY <1>11 DEF RetireIfIdle, WorkersTyped, WorkerStates
  <2>2. UNCHANGED <<feed, run, status>>
    BY <1>11 DEF RetireIfIdle, stored
  <2>3. /\ \A h \in Feeders : Sending(h, d)' <=> Sending(h, d)
        /\ \A l \in Keys : Claims(l, d)' <=> Claims(l, d)
    BY <2>2 DEF Sending, Claims, RunAt
  <2> QED
    BY <1>0, <2>1, <2>2, <2>3, JobStays
<1>12. ASSUME NEW x \in Runners,
              \/ ProcessWithoutReply(x) \/ SendNewReply(x) \/ SendSavedReply(x) \/ SaveReply(x)
       PROVE  JobOK(d)'
  <2>1. /\ UNCHANGED <<status, worker, feed>> /\ run'[x].pc # "claim"
        /\ \A y \in Runners \ {x} : run'[y] = run[y]
    BY <1>12, RunnerGoesOn
  <2>2. /\ \A h \in Feeders : Sending(h, d)' <=> Sending(h, d)
        /\ \A l \in Keys : Claims(l, d)' => Claims(l, d)
    BY <2>1 DEF Sending, Claims, RunAt, Runners
  <2> QED
    BY <1>0, <2>1, <2>2, JobStays
<1>13. ASSUME Crash PROVE JobOK(d)'
  <2>1. /\ \A h \in Feeders : ~Carries(h, d)'
        /\ \A l \in Keys : ~Queues(l, d)' /\ ~Claims(l, d)'
    BY <1>13 DEF Crash, NoWorker, Resting, Free, Carries, Sending, Queues, Places, Claims, RunAt,
       Runners
  <2> QED
    BY <2>1, NoJob DEF Held
<1> QED
  BY <1>1, <1>2, <1>3, <1>4, <1>5, <1>6, <1>7, <1>8, <1>9, <1>10, <1>11, <1>12, <1>13
  DEF Next, FeedStep, RunStep
-----------------------------------------------------------------------------
(* A delivery with a saved reply is past its job, unless a recovery has put *)
(* it in line a second time (SaveBotInboundDeliveryReply and what follows). *)
LEMMA SavedStep ==
    ASSUME Types, WorkIsMarked, OneJob, SavedIsPast, Next
    PROVE  SavedIsPast'
<1> USE InboundAssumption DEF Types
<1> DEFINE Past == {"processing", "completed", "failed"}
<1>1. ASSUME NEW g \in Feeders, AcceptInboundMessage(g) PROVE SavedIsPast'
  <2>1. /\ UNCHANGED <<run, saved, found, overlapped>>
        /\ \A d \in saved : status[d] \in Past => status'[d] = status[d]
    BY <1>1 DEF AcceptInboundMessage, ShouldEnqueue, StoreTyped, history
  <2> QED
    BY <2>1 DEF SavedIsPast, RunAt
<1>2. ASSUME NEW g \in Feeders, PrepareRecovery(g) PROVE SavedIsPast'
  <2>1. /\ UNCHANGED <<run, saved>> /\ found' = found \cup Unfinished
        /\ overlapped' \subseteq overlapped \cup Unfinished
    BY <1>2 DEF PrepareRecovery, Unfinished
  <2>2. \A d \in saved \ Unfinished : status'[d] = status[d]
    BY <1>2 DEF PrepareRecovery, Recoverable, StoreTyped
  <2> QED
    BY <2>1, <2>2 DEF SavedIsPast, RunAt
<1>3. ASSUME NEW o \in Operators, ReplayFailedReply(o) PROVE SavedIsPast'
  <2>1. /\ UNCHANGED <<status, saved, found, overlapped>>
        /\ run'[o].d \in saved /\ \A x \in Runners \ {o} : run'[x] = run[x]
    BY <1>3 DEF ReplayFailedReply, FailedForGood, RunsTyped, Runners, Claiming, Resting, stored, history
  <2> QED
    BY <2>1 DEF SavedIsPast, RunAt, Runners
<1>4. ASSUME NEW k \in Keys, TakeJob(k) PROVE SavedIsPast'
  <2>1. /\ UNCHANGED <<status, saved, found, overlapped>>
        /\ run'[k] = run[k] \/ run'[k].replay = FALSE
        /\ \A x \in Runners \ {k} : run'[x] = run[x]
    BY <1>4 DEF TakeJob, RunsTyped, Runners, Claiming, Resting, stored, history
  <2> QED
    BY <2>1 DEF SavedIsPast, RunAt, Runners
<1>5. ASSUME NEW x \in Runners, Claim(x) PROVE SavedIsPast'
  <2>1. /\ UNCHANGED <<saved, found, overlapped>>
        /\ run[x].pc = "claim" /\ run[x].d \in Deliveries /\ run'[x].pc # "claim"
        /\ run'[x].replay => run'[x].d = run[x].d /\ run[x].d \in saved
        /\ \A y \in Runners \ {x} : run'[y] = run[y]
        /\ \A d \in Deliveries : status'[d] = status[d] \/ status'[d] = "processing"
    BY <1>5, RunnerClaims DEF Resting, history
  <2>2. ASSUME x \in Keys, run'[x].replay PROVE run'[x].d \in found
    <3>1. Claims(x, run[x].d) /\ Held(run[x].d)
      BY <2>1, <2>2 DEF Claims, RunAt, Held
    <3> QED
      BY <2>1, <2>2, <3>1 DEF OneJob, JobOK, SavedIsPast
  <2> QED
    BY <2>1, <2>2 DEF SavedIsPast, RunAt, Runners, StoreTyped
<1>6. ASSUME NEW x \in Runners, Complete(x) \/ Fail(x) PROVE SavedIsPast'
  <2>1. /\ UNCHANGED <<saved, found, overlapped>>
        /\ run'[x].pc # "claim" /\ run'[x].replay = FALSE
        /\ \A y \in Runners \ {x} : run'[y] = run[y]
        /\ \A d \in Deliveries : status'[d] = status[d] \/ status'[d] \in {"completed", "failed"}
    BY <1>6, RunnerEnds DEF Resting, history
  <2> QED
    BY <2>1 DEF SavedIsPast, RunAt, Runners, StoreTyped
<1>7. ASSUME NEW x \in Runners,
             \/ ProcessWithoutReply(x) \/ SendNewReply(x) \/ SendSavedReply(x) \/ SaveReply(x)
      PROVE  SavedIsPast'
  <2>1. /\ UNCHANGED <<status, found, overlapped>>
        /\ run'[x].pc # "claim" /\ run'[x].replay = FALSE
        /\ \A y \in Runners \ {x} : run'[y] = run[y]
    BY <1>7, RunnerGoesOn
  <2>2. saved' = saved \/ (saved' = saved \cup {run[x].d} /\ run[x].pc = "save")
    BY <1>7 DEF ProcessWithoutReply, SendNewReply, SendSavedReply, SaveReply, RunAt, stored
  <2>3. run[x].pc = "save" /\ run[x].d \notin found => status[run[x].d] = "processing"
    BY DEF WorkIsMarked, SavedIsPast, Working, RunsTyped, RunOK
  <2> QED
    BY <2>1, <2>2, <2>3 DEF SavedIsPast, RunAt, Runners
<1>8. ASSUME Crash PROVE SavedIsPast'
  <2>1. UNCHANGED <<status, saved, found, overlapped>> /\ \A x \in Runners : run'[x] = Resting
    BY <1>8 DEF Crash, stored, history
  <2> QED
    BY <2>1 DEF SavedIsPast, RunAt, Runners, Resting
<1>9. ASSUME UNCHANGED <<status, saved, found, overlapped, run>> PROVE SavedIsPast'
  BY <1>9 DEF SavedIsPast, RunAt
<1> QED
  BY <1>1, <1>2, <1>3, <1>4, <1>5, <1>6, <1>7, <1>8, <1>9
  DEF Next, FeedStep, RunStep, HandleWebhook, EnqueueBegin, EnqueueSend, PauseConnection,
      ResumeConnection, UpdateBegins, UpdateConnection, ReplayReturns, RecoverNext,
      RecoveryEnds, RetireIfIdle, stored, history

(* A worker sends a saved reply of a delivery a recovery has found unfinished. *)
LEMMA ReplayStep ==
    ASSUME SavedIsPast, FailedReplyStaysUnsent, Next
    PROVE  FailedReplyStaysUnsent'
<1>1. ASSUME NEW x \in Runners, SendSavedReply(x) PROVE FailedReplyStaysUnsent'
  BY <1>1 DEF SendSavedReply, SavedIsPast, FailedReplyStaysUnsent
<1> QED
  BY <1>1
  DEF Next, FeedStep, RunStep, HandleWebhook, AcceptInboundMessage, EnqueueBegin, EnqueueSend,
      PauseConnection, ResumeConnection, UpdateBegins, UpdateConnection, ReplayFailedReply,
      ReplayReturns, PrepareRecovery, RecoverNext, RecoveryEnds, TakeJob, RetireIfIdle, Claim,
      ProcessWithoutReply, SendNewReply, Complete, SaveReply, Fail, Crash, history,
      FailedReplyStaysUnsent
-----------------------------------------------------------------------------
LEMMA InitIInv == Init => IInv
<1> SUFFICES ASSUME Init PROVE IInv
  OBVIOUS
<1> USE InboundAssumption
<1>1. Types
  BY InitTyped
<1>2. PendingCounts
  <2>1. \A k \in Keys : SendersTo(k) = {} /\ worker[k].pending = 0
    BY DEF Init, SendersTo, FeedAt, Free, NoWorker
  <2> QED
    BY <2>1, FS_EmptySet DEF PendingCounts
<1>3. NoStrandedJob
  BY DEF Init, NoStrandedJob, FeedAt, Free, NoWorker, Resting, Runners
<1>4. WorkIsMarked /\ OneAtATime
  BY DEF Init, WorkIsMarked, OneAtATime, Working, Resting
<1>5. OneJob
  <2>1. \A d \in Deliveries : \A g \in Feeders : ~Carries(g, d)
    BY DEF Init, Carries, Sending, Free
  <2>2. \A d \in Deliveries : \A k \in Keys : ~Queues(k, d) /\ ~Claims(k, d)
    BY DEF Init, Queues, Places, Claims, RunAt, NoWorker, Resting, Runners
  <2> QED
    BY <2>1, <2>2 DEF OneJob, JobOK, OneCarrier, OneQueue, OneClaim, Held
<1>6. SavedIsPast /\ FailedReplyStaysUnsent
  BY DEF Init, SavedIsPast, FailedReplyStaysUnsent, RunAt, Resting, Runners
<1> QED
  BY <1>1, <1>2, <1>3, <1>4, <1>5, <1>6 DEF IInv

LEMMA NextIInv == IInv /\ [Next]_vars => IInv'
<1> SUFFICES ASSUME IInv, [Next]_vars PROVE IInv'
  OBVIOUS
<1>1. CASE Next
  BY <1>1, TypesStep, CountsStep, NoStrandedStep, WorkStep, JobStep, SavedStep, ReplayStep DEF IInv
<1>2. CASE UNCHANGED vars
  <2>1. UNCHANGED <<active, status, saved, worker, run, feed, crashes, found, overlapped, replayed>>
    BY <1>2 DEF vars, stored, history
  <2>2. Types' /\ PendingCounts' /\ NoStrandedJob'
    BY <2>1 DEF IInv, Types, FeedsTyped, RunsTyped, WorkersTyped, StoreTyped, PendingCounts, SendersTo,
       FeedAt, NoStrandedJob
  <2>3. WorkIsMarked' /\ OneAtATime' /\ SavedIsPast' /\ FailedReplyStaysUnsent'
    BY <2>1 DEF IInv, WorkIsMarked, OneAtATime, Working, SavedIsPast, RunAt, FailedReplyStaysUnsent
  <2>4. OneJob'
    <3>1. ASSUME NEW d \in Deliveries \ found PROVE JobOK(d)'
      <4>1. /\ \A g \in Feeders : Sending(g, d)' <=> Sending(g, d)
            /\ \A k \in Keys : Claims(k, d)' <=> Claims(k, d)
        BY <2>1 DEF Sending, Claims, RunAt
      <4> QED
        BY <2>1, <4>1, JobStays DEF IInv, OneJob
    <3> QED
      BY <2>1, <3>1 DEF OneJob
  <2> QED
    BY <2>2, <2>3, <2>4 DEF IInv
<1> QED
  BY <1>1, <1>2

(* The inductive invariant holds throughout.                               *)
LEMMA InvariantHolds == Spec => []IInv
  BY InitIInv, NextIInv, PTL DEF Spec

(* Every part of the state has its type, the queues keep to queueSize and  *)
(* pendingEnqueue is between nothing and the number of senders.            *)
THEOREM InboundTyped == Spec => []TypeOK
<1>1. IInv => TypeOK
  <2> SUFFICES ASSUME IInv PROVE TypeOK
    OBVIOUS
  <2>1. \A k \in Keys : worker[k].pending \in 0 .. Cardinality(Feeders)
    <3> SUFFICES ASSUME NEW k \in Keys PROVE worker[k].pending \in 0 .. Cardinality(Feeders)
      OBVIOUS
    <3>1. IsFiniteSet(Feeders) /\ SendersTo(k) \subseteq Feeders
      BY FiniteSenders DEF SendersTo
    <3>2. /\ Cardinality(SendersTo(k)) \in Nat /\ Cardinality(Feeders) \in Nat
          /\ Cardinality(SendersTo(k)) <= Cardinality(Feeders)
      BY <3>1, FS_Subset, FS_CardinalityType
    <3> QED
      BY <3>2 DEF IInv, PendingCounts
  <2>2. worker \in [Keys -> [live : BOOLEAN, queue : Seq(Deliveries),
                             pending : 0 .. Cardinality(Feeders)]]
    BY <2>1 DEF IInv, Types, WorkersTyped, WorkerStates, JobLists
  <2>3. \A k \in Keys : Len(worker[k].queue) <= QueueSize
    BY DEF IInv, Types, WorkersTyped, WorkerOK
  <2> QED
    BY <2>2, <2>3 DEF IInv, Types, FeedsTyped, FeedStates, RunsTyped, RunStates, StoreTyped, TypeOK
<1> QED
  BY <1>1, InvariantHolds, PTL

(* No job waits in the queue of a worker that has retired, and no sender   *)
(* for one (enqueueJob, runWorker).                                        *)
THEOREM NoJobIsStranded == Spec => []NoStrandedJob
<1>1. IInv => NoStrandedJob
  BY DEF IInv
<1> QED
  BY <1>1, InvariantHolds, PTL

(* A delivery is processed by one goroutine at a time, unless a recovery   *)
(* on a running server has taken it from one (ClaimBotInboundDelivery).    *)
THEOREM ClaimsExclude == Spec => []OneAtATime
<1>1. IInv => OneAtATime
  BY DEF IInv
<1> QED
  BY <1>1, InvariantHolds, PTL

(* A reply that could not be sent is sent again only by an operator, or    *)
(* after a recovery has found its delivery unfinished                      *)
(* (UpsertBotInboundDelivery, PrepareBotInboundDeliveriesForRecovery).     *)
THEOREM FailedReplyIsNotResent == Spec => []FailedReplyStaysUnsent
<1>1. IInv => FailedReplyStaysUnsent
  BY DEF IInv
<1> QED
  BY <1>1, InvariantHolds, PTL

(* What has been completed stays completed.                                *)
THEOREM CompletedForGood == Spec => CompletedStays
<1>1. IInv /\ [Next]_vars =>
         [\A d \in Deliveries \ overlapped : status[d] = "completed" => status'[d] = "completed"]_vars
  BY CompletedStep DEF IInv
<1> QED
  BY <1>1, InvariantHolds, PTL DEF Spec, CompletedStays
=============================================================================
