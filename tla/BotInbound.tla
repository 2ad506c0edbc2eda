----------------------------- MODULE BotInbound -----------------------------
(***************************************************************************)
(* Inbound messages of one bot connection (backend/internal/bots): how a   *)
(* delivery is accepted, put in line, processed and settled, and what      *)
(* pausing, resuming, a manual replay and a restart of the server do to    *)
(* it.  The deliveries belong to one conversation; their statuses are in   *)
(* the store (StoreFlush has its way to disk) and survive a crash.         *)
(*                                                                         *)
(* A step is a call of the store, a section under s.mu or a channel        *)
(* operation.  There is one worker record per key: that a sender never     *)
(* holds on to a worker which has left the map is what NoStrandedJob says. *)
(***************************************************************************)
EXTENDS Integers, Sequences, FiniteSets, TLC

CONSTANTS Deliveries,    \* messages of the provider, by their message id
          Commands,      \* those whose text is a control command
          Webhooks,      \* goroutines in HandleWebhook (or a poller's handler)
          Operators,     \* goroutines that pause, resume, update and replay
          Main,          \* the goroutine in Service.Start
          QueueSize,     \* Service.queueSize
          MaxCrashes,    \* bound
          None

\* A conversation's workers, by the kind of their jobs.
Keys == {"normal", "steer", "control"}

ASSUME InboundAssumption ==
    /\ Commands \subseteq Deliveries
    /\ IsFiniteSet(Webhooks) /\ IsFiniteSet(Operators)
    /\ Webhooks \cap Operators = {}
    /\ Main \notin Webhooks \cup Operators
    /\ Keys \cap Operators = {}
    /\ None \notin Deliveries
    /\ QueueSize \in Nat \ {0}
    /\ MaxCrashes \in Nat

VARIABLES
    active,      \* the connection's status is "active"
    status,      \* per delivery, its Status in the store; "none" is not there
    saved,       \* deliveries with a saved reply (ReplyMessages)
    worker,      \* per key, the worker: live, its queue and pendingEnqueue
    run,         \* per runner, how far processInboundMessage is, with what
    feed,        \* per feeder, where it is and what it has to put in line
    crashes,
    found,       \* history: deliveries a recovery found unfinished
    overlapped,  \* history: those of them somebody was processing
    replayed     \* history: deliveries whose saved reply a worker sent

stored == <<active, status, saved>>
history == <<found, overlapped, replayed>>
vars == <<stored, worker, run, feed, crashes, history>>

\* A manual replay runs processInboundMessage in the operator's goroutine.
Runners == Keys \cup Operators

Feeders == Webhooks \cup Operators \cup {Main}

NoWorker == [live |-> FALSE, queue |-> <<>>, pending |-> 0]

Resting == [pc |-> "idle", d |-> None, replay |-> FALSE]

Claiming(d) == [Resting EXCEPT !.pc = "claim", !.d = d]

Free == [pc |-> "idle", todo |-> {}, d |-> None, key |-> "normal", was |-> FALSE]

Init ==
    /\ active = TRUE
    /\ status = [d \in Deliveries |-> "none"]
    /\ saved = {}
    /\ worker = [k \in Keys |-> NoWorker]
    /\ run = [x \in Runners |-> Resting]
    /\ feed = [g \in Feeders |-> Free]
    /\ crashes = 0
    /\ found = {} /\ overlapped = {} /\ replayed = {}
-----------------------------------------------------------------------------
FeedAt(g, pc) == feed[g].pc = pc

FeedGo(g, pc) == feed' = [feed EXCEPT ![g].pc = pc]

\* The server listens to operators once Start has returned; pollers are earlier.
Idle(o) == o \in Operators /\ FeedAt(o, "idle") /\ FeedAt(Main, "idle")

\* Status and saved reply together decide what may be put in line again.
FailedForGood(d) == status[d] = "failed" /\ d \in saved

(***************************************************************************)
(* A message arrives, for the first time or again: acceptInboundMessage.   *)
(***************************************************************************)
HandleWebhook(g) ==
    /\ g \in Webhooks
    /\ FeedAt(g, "idle")
    /\ active
    /\ \E d \in Deliveries :
          feed' = [feed EXCEPT ![g].pc = "accept", ![g].d = d]
    /\ UNCHANGED <<stored, worker, run, crashes, history>>

\* Wrong variant: a saved reply does not keep a failed delivery out.
AcceptsFailed(d) == status[d] \in {"none", "failed"}

\* UpsertBotInboundDelivery's second result.
ShouldEnqueue(d) == status[d] = "none" \/ (status[d] = "failed" /\ d \notin saved)

\* workerKeyForJob for what shouldDispatchInboundAsSteer may say.
KeysFor(d) == IF d \in Commands THEN {"control"} ELSE {"normal", "steer"}

AcceptInboundMessage(g) ==
    /\ FeedAt(g, "accept")
    /\ LET d == feed[g].d IN
       \/ /\ ShouldEnqueue(d)
          /\ status' = [status EXCEPT ![d] = "received"]
          /\ \E k \in KeysFor(d) :
                feed' = [feed EXCEPT ![g].pc = "enqueue", ![g].key = k]
       \/ /\ ~ShouldEnqueue(d)
          /\ feed' = [feed EXCEPT ![g] = Free]
          /\ UNCHANGED status
    /\ UNCHANGED <<active, saved, worker, run, crashes, history>>
-----------------------------------------------------------------------------
(***************************************************************************)
(* enqueueJob: the worker is looked up or made under s.mu, with            *)
(* pendingEnqueue counted up; the send may block; it is counted down.      *)
(***************************************************************************)
FindWorker(k) ==
    worker' = [worker EXCEPT ![k].live = TRUE, ![k].pending = @ + 1]

EnqueueBegin(g) ==
    /\ FeedAt(g, "enqueue")
    /\ FindWorker(feed[g].key)
    /\ FeedGo(g, "send")
    /\ UNCHANGED <<stored, run, crashes, history>>

EnqueueSend(g) ==
    /\ FeedAt(g, "send")
    /\ Len(worker[feed[g].key].queue) < QueueSize
    /\ worker' = [worker EXCEPT ![feed[g].key].queue = Append(@, feed[g].d),
                                ![feed[g].key].pending = @ - 1]
    /\ feed' = [feed EXCEPT ![g] = IF g \in Webhooks THEN Free
                                   ELSE [Free EXCEPT !.pc = "recover", !.todo = feed[g].todo]]
    /\ UNCHANGED <<stored, run, crashes, history>>
-----------------------------------------------------------------------------
(***************************************************************************)
(* The connection is paused, resumed and updated; the last two recover,    *)
(* as Start does.  UpdateConnection writes back the status it has read,    *)
(* whatever has happened while it activated the provider.                  *)
(***************************************************************************)
PauseConnection(o) ==
    /\ Idle(o)
    /\ active' = FALSE
    /\ UNCHANGED <<status, saved, worker, run, feed, crashes, history>>

ResumeConnection(o) ==
    /\ Idle(o)
    /\ active' = TRUE
    /\ FeedGo(o, "prepare")
    /\ UNCHANGED <<status, saved, worker, run, crashes, history>>

UpdateBegins(o) ==
    /\ Idle(o)
    /\ feed' = [feed EXCEPT ![o].pc = "update", ![o].was = active]
    /\ UNCHANGED <<stored, worker, run, crashes, history>>

UpdateConnection(o) ==
    /\ FeedAt(o, "update")
    /\ active' = feed[o].was
    /\ feed' = [feed EXCEPT ![o] = [Free EXCEPT !.pc = IF feed[o].was THEN "prepare" ELSE "idle"]]
    /\ UNCHANGED <<status, saved, worker, run, crashes, history>>

\* ReplayLatestFailedReply; which one is the latest depends on the conversation.
ReplayFailedReply(o) ==
    /\ Idle(o)
    /\ active
    /\ \E d \in Deliveries :
          /\ FailedForGood(d)
          /\ run' = [run EXCEPT ![o] = Claiming(d)]
    /\ FeedGo(o, "replay")
    /\ UNCHANGED <<stored, worker, crashes, history>>

ReplayReturns(o) ==
    /\ FeedAt(o, "replay")
    /\ run[o].pc = "idle"
    /\ FeedGo(o, "idle")
    /\ UNCHANGED <<stored, worker, run, crashes, history>>

Working(x, d) == run[x].d = d /\ run[x].pc \notin {"idle", "claim"}

Unfinished == {d \in Deliveries : status[d] \in {"received", "processing"}}

\* Wrong variant: every failed delivery is tried again.
RecoversFailed == Unfinished \cup {d \in Deliveries : status[d] = "failed"}

\* Wrong variant: only what was being processed is taken up again.
RecoversProcessing == {d \in Deliveries : status[d] = "processing"}

\* The deliveries PrepareBotInboundDeliveriesForRecovery returns first.
Recoverable == Unfinished \cup {d \in Deliveries : status[d] = "failed" /\ d \notin saved}

PrepareRecovery(g) ==
    /\ FeedAt(g, "prepare")
    /\ status' = [d \in Deliveries |-> IF d \in Recoverable THEN "received" ELSE status[d]]
    /\ feed' = [feed EXCEPT ![g].pc = "recover", ![g].todo = Recoverable]
    /\ found' = found \cup Unfinished
    /\ overlapped' = overlapped \cup
          {d \in Deliveries : status[d] = "processing" /\ \E x \in Runners : Working(x, d)}
    /\ UNCHANGED <<active, saved, worker, run, crashes, replayed>>

\* recoverPendingInboundDeliveries' loop, which skips what is not active.
RecoverNext(g) ==
    /\ FeedAt(g, "recover")
    /\ \E d \in feed[g].todo :
          LET rest == [feed[g] EXCEPT !.todo = @ \ {d}]
              key == IF d \in Commands THEN "control" ELSE "normal" IN
          IF active
          THEN /\ FindWorker(key)
               /\ feed' = [feed EXCEPT ![g] =
                     [rest EXCEPT !.pc = "send", !.d = d, !.key = key]]
          ELSE /\ feed' = [feed EXCEPT ![g] = rest]
               /\ UNCHANGED worker
    /\ UNCHANGED <<stored, run, crashes, history>>

RecoveryEnds(g) ==
    /\ FeedAt(g, "recover")
    /\ feed[g].todo = {}
    /\ feed' = [feed EXCEPT ![g] = Free]
    /\ UNCHANGED <<stored, worker, run, crashes, history>>
-----------------------------------------------------------------------------
(***************************************************************************)
(* runWorker                                                               *)
(***************************************************************************)
\* With its first step, which drops the job of a connection that is not active.
TakeJob(k) ==
    /\ worker[k].live
    /\ run[k].pc = "idle"
    /\ worker[k].queue # <<>>
    /\ worker' = [worker EXCEPT ![k].queue = Tail(@)]
    /\ run' = IF active THEN [run EXCEPT ![k] = Claiming(Head(worker[k].queue))] ELSE run
    /\ UNCHANGED <<stored, feed, crashes, history>>

\* Wrong variant: only the queue is looked at.
MayRetireEmpty(k) == worker[k].queue = <<>>

MayRetire(k) == worker[k].pending = 0 /\ worker[k].queue = <<>>

\* The idle timer fires.
RetireIfIdle(k) ==
    /\ worker[k].live
    /\ run[k].pc = "idle"
    /\ MayRetire(k)
    /\ worker' = [worker EXCEPT ![k].live = FALSE]
    /\ UNCHANGED <<stored, run, feed, crashes, history>>
-----------------------------------------------------------------------------
(***************************************************************************)
(* processInboundMessage                                                   *)
(***************************************************************************)
RunAt(x, pc) == run[x].pc = pc

RunGo(x, pc) == run' = [run EXCEPT ![x].pc = pc, ![x].replay = FALSE]

Rest(x) == run' = [run EXCEPT ![x] = Resting]

\* Wrong variant: what somebody else is processing is claimed again.
ClaimsUnlessCompleted(d) == status[d] # "completed"

\* Wrong variant: what has been completed is claimed again.
ClaimsUnlessProcessing(d) == status[d] # "processing"

Claimable(d) == status[d] \notin {"completed", "processing"}

\* ClaimBotInboundDelivery; the reply to replay is the one in its result.
Claim(x) ==
    /\ RunAt(x, "claim")
    /\ LET d == run[x].d IN
       IF Claimable(d)
       THEN /\ status' = [status EXCEPT ![d] = "processing"]
            /\ run' = [run EXCEPT ![x].pc = "claimed", ![x].replay = d \in saved]
       ELSE Rest(x) /\ UNCHANGED status
    /\ UNCHANGED <<active, saved, worker, feed, crashes, history>>

\* A command is carried out, a text is steered into the active turn, or the
\* conversation or its thread cannot be had: no reply is sent.
ProcessWithoutReply(x) ==
    /\ RunAt(x, "claimed")
    /\ \/ (run[x].d \in Commands \/ x = "steer") /\ RunGo(x, "complete")
       \/ RunGo(x, "fail")
    /\ UNCHANGED <<stored, worker, feed, crashes, history>>

\* The AI backend's reply, or its failure text, is sent: "save" when a reply
\* could not be (some of its messages may have got through).
SendNewReply(x) ==
    /\ RunAt(x, "claimed")
    /\ run[x].d \notin Commands
    /\ ~run[x].replay
    /\ \E pc \in {"complete", "save", "fail"} : RunGo(x, pc)
    /\ UNCHANGED <<stored, worker, feed, crashes, history>>

SendSavedReply(x) ==
    /\ RunAt(x, "claimed")
    /\ run[x].d \notin Commands
    /\ run[x].replay
    /\ \E pc \in {"complete", "save"} : RunGo(x, pc)
    /\ replayed' = IF x \in Keys THEN replayed \cup {run[x].d} ELSE replayed
    /\ UNCHANGED <<stored, worker, feed, crashes, found, overlapped>>

Complete(x) ==
    /\ RunAt(x, "complete")
    /\ status' = [status EXCEPT ![run[x].d] = "completed"]
    /\ Rest(x)
    /\ UNCHANGED <<active, saved, worker, feed, crashes, history>>

\* handleReplyDeliveryFailure: SaveBotInboundDeliveryReply, then Fail.
SaveReply(x) ==
    /\ RunAt(x, "save")
    /\ saved' = saved \cup {run[x].d}
    /\ RunGo(x, "fail")
    /\ UNCHANGED <<active, status, worker, feed, crashes, history>>

Fail(x) ==
    /\ RunAt(x, "fail")
    /\ status' = [status EXCEPT ![run[x].d] = "failed"]
    /\ Rest(x)
    /\ UNCHANGED <<active, saved, worker, feed, crashes, history>>
-----------------------------------------------------------------------------
\* The server ends with all its goroutines and is started again.
Crash ==
    /\ crashes < MaxCrashes
    /\ crashes' = crashes + 1
    /\ worker' = [k \in Keys |-> NoWorker]
    /\ run' = [x \in Runners |-> Resting]
    /\ feed' = [g \in Feeders |-> IF g = Main THEN [Free EXCEPT !.pc = "prepare"] ELSE Free]
    /\ UNCHANGED <<stored, history>>

RunStep(x) ==
    \/ Claim(x)
    \/ ProcessWithoutReply(x) \/ SendNewReply(x) \/ SendSavedReply(x)
    \/ Complete(x) \/ SaveReply(x) \/ Fail(x)

FeedStep(g) ==
    \/ AcceptInboundMessage(g)
    \/ EnqueueBegin(g)
    \/ UpdateConnection(g)
    \/ PrepareRecovery(g) \/ RecoverNext(g) \/ RecoveryEnds(g)

Next ==
    \/ \E g \in Feeders : FeedStep(g) \/ EnqueueSend(g) \/ HandleWebhook(g)
    \/ \E o \in Operators :
          \/ PauseConnection(o) \/ ResumeConnection(o) \/ UpdateBegins(o)
          \/ ReplayFailedReply(o) \/ ReplayReturns(o)
    \/ \E k \in Keys : TakeJob(k) \/ RetireIfIdle(k)
    \/ \E x \in Runners : RunStep(x)
    \/ Crash

Spec == Init /\ [][Next]_vars

\* Goroutines go on; senders to a full queue are let in in their order, hence SF.
\* No message has to come, nobody has to operate anything, no worker to retire.
FairSpec ==
    /\ Spec
    /\ \A g \in Feeders : WF_vars(FeedStep(g)) /\ SF_vars(EnqueueSend(g))
    /\ \A k \in Keys : WF_vars(TakeJob(k))
    /\ \A x \in Runners : WF_vars(RunStep(x))
-----------------------------------------------------------------------------
TypeOK ==
    /\ active \in BOOLEAN
    /\ status \in [Deliveries -> {"none", "received", "processing", "completed", "failed"}]
    /\ saved \subseteq Deliveries
    /\ worker \in [Keys -> [live : BOOLEAN, queue : Seq(Deliveries),
                            pending : 0 .. Cardinality(Feeders)]]
    /\ \A k \in Keys : Len(worker[k].queue) <= QueueSize
    /\ run \in [Runners -> [pc : {"idle", "claim", "claimed",
                                  "complete", "save", "fail"},
                            d : Deliveries \cup {None}, replay : BOOLEAN]]
    /\ feed \in [Feeders -> [pc : {"idle", "accept", "enqueue", "send", "update",
                                   "prepare", "recover", "replay"},
                             todo : SUBSET Deliveries, d : Deliveries \cup {None},
                             key : Keys, was : BOOLEAN]]
    /\ crashes \in 0 .. MaxCrashes
    /\ found \cup overlapped \cup replayed \subseteq Deliveries

(***************************************************************************)
(* A job never sits in the queue of a worker that has retired, and no      *)
(* sender waits for one: pendingEnqueue covers the time between the lookup *)
(* and the send.                                                           *)
(***************************************************************************)
NoStrandedJob ==
    /\ \A k \in Keys : worker[k].queue # <<>> \/ run[k].pc # "idle" => worker[k].live
    /\ \A g \in Feeders : FeedAt(g, "send") => worker[feed[g].key].live

(***************************************************************************)
(* A delivery is processed by one goroutine at a time, though jobs for it  *)
(* may wait in several queues and an operator may replay it; only a        *)
(* recovery on a running server hands it to a second one.                  *)
(***************************************************************************)
OneAtATime ==
    \A d \in Deliveries \ overlapped : \A x, y \in Runners :
        Working(x, d) /\ Working(y, d) => x = y

(***************************************************************************)
(* What has been completed stays completed, whatever is redelivered,       *)
(* recovered or still in a queue; except that the second one of two that   *)
(* work on it may yet fail.                                                *)
(***************************************************************************)
CompletedStays ==
    [][\A d \in Deliveries \ overlapped : status[d] = "completed" => status'[d] = "completed"]_vars

(***************************************************************************)
(* A reply that could not be sent, and of which parts may have got         *)
(* through, is not sent again by itself, neither when the message is       *)
(* delivered again nor by a recovery that finds the delivery failed; only  *)
(* one that found it unfinished (and so put it in line a second time, or   *)
(* after a crash between saving the reply and failing it) may bring that   *)
(* about.                                                                  *)
(***************************************************************************)
FailedReplyStaysUnsent == replayed \subseteq found

(***************************************************************************)
(* A delivery that has been accepted is settled, unless the connection is  *)
(* paused: through a full queue, a retiring worker, a crash and a pause    *)
(* that makes a worker drop its job, because resuming recovers it.         *)
(***************************************************************************)
EveryDeliverySettles ==
    \A d \in Deliveries :
        (status[d] \in {"received", "processing"}) ~>
            (status[d] \in {"completed", "failed"} \/ ~active)
=============================================================================
