------------------------------ MODULE EventHub ------------------------------
(***************************************************************************)
(* The event hub with one subscriber (backend/internal/events/hub.go):     *)
(* concurrent publishers, the subscriber's queue, its run goroutine, the   *)
(* buffered output channel and the consumer that reads it.                 *)
(*                                                                         *)
(* Publish is not atomic: it takes the list of subscribers, then the store *)
(* assigns the sequence number, then the event is enqueued, then, when     *)
(* something was lost, the control event is enqueued; other goroutines run *)
(* between any two of these.                                               *)
(***************************************************************************)
EXTENDS SubscriberQueue, FiniteSets, TLC

CONSTANTS Publishers,     \* goroutines that call Publish, one per stream of events
          Workspaces,
          WorkspaceOf,    \* the workspace each publisher publishes to
          PublishedKinds, \* the kinds of event the publishers use
          OutLimit,       \* subscriberOutputBufferSize
          MaxSeq,         \* bound: events appended per workspace
          None            \* no stream, no event

ASSUME HubAssumption ==
    /\ IsFiniteSet(Publishers)
    /\ WorkspaceOf \in [Publishers -> Workspaces]
    /\ PublishedKinds \subseteq SequencedKinds
    /\ OutLimit \in Nat \ {0}
    /\ MaxSeq \in Nat
    /\ None \notin Publishers

VARIABLES
    log,        \* per workspace, the events the store has sequenced; `targeted'
                \* (history): the publisher's list held the subscriber
    pub,        \* per publisher, where it is in Publish and with which event
    subscribed, \* the subscriber is registered in the hub
    closed,     \* subscriber.closed and the done channel
    queue,      \* subscriber.queue from queueHead on
    notify,     \* the one-slot notify channel is full
    run,        \* where the run goroutine is
    held,       \* the event run has popped and not yet sent
    out,        \* the output channel's buffer
    received,   \* history: what the consumer has taken, in order
    lost,       \* history: sequence numbers lost to backpressure
    owed        \* history: the lost ones the consumer has had no control event for

vars == <<log, pub, subscribed, closed, queue, notify, run, held, out,
          received, lost, owed>>

Event(kind, p, n) ==
    [kind |-> kind, ws |-> WorkspaceOf[p], stream |-> p, from |-> n, to |-> n]

Events ==
    [kind : SequencedKinds, ws : Workspaces, stream : Publishers,
     from : 1 .. MaxSeq, to : 1 .. MaxSeq]

Controls ==
    [kind : {"dropped"}, ws : Workspaces, stream : {None}, from : {0}, to : {0}]

ASSUME NoneAssumption == None \notin Events \cup Controls

Idle == [pc |-> "idle", kind |-> None, targeted |-> FALSE, n |-> 0, lostWs |-> None]

PublisherStates ==
    [pc : {"idle", "append", "enqueue", "control"},
     kind : SequencedKinds \cup {None},
     targeted : BOOLEAN,
     n : 0 .. MaxSeq,
     lostWs : Workspaces \cup {None}]

\* The event a publisher between append and enqueue carries.
Carried(p) == Event(pub[p].kind, p, pub[p].n)

\* The publishers about to take a sequence number of ws (for the bound MaxSeq).
Appending(ws) == {p \in Publishers : WorkspaceOf[p] = ws /\ pub[p].pc = "append"}

\* The sequence numbers an event stands for.
SeqsOf(e) == {<<e.ws, n>> : n \in {m \in 1 .. MaxSeq : Covers(e, m)}}

Init ==
    /\ log = [ws \in Workspaces |-> <<>>]
    /\ pub = [p \in Publishers |-> Idle]
    /\ subscribed = FALSE
    /\ closed = FALSE
    /\ queue = <<>>
    /\ notify = FALSE
    /\ run = "wait"
    /\ held = None
    /\ out = <<>>
    /\ received = <<>>
    /\ lost = {}
    /\ owed = {}
-----------------------------------------------------------------------------
(***************************************************************************)
(* Publish, step by step.                                                  *)
(***************************************************************************)
\* The list of subscribers is copied under the hub's read lock.
PublishBegin(p, kind) ==
    /\ pub[p].pc = "idle"
    /\ Len(log[WorkspaceOf[p]]) + Cardinality(Appending(WorkspaceOf[p])) < MaxSeq
    /\ pub' = [pub EXCEPT ![p] = [Idle EXCEPT !.pc = "append", !.kind = kind,
                                              !.targeted = subscribed]]
    /\ UNCHANGED <<log, subscribed, closed, queue, notify, run, held, out,
                   received, lost, owed>>

\* AppendWorkspaceEvent assigns the next sequence number under the store's lock.
PublishAppend(p) ==
    LET ws == WorkspaceOf[p] IN
    /\ pub[p].pc = "append"
    /\ log' = [log EXCEPT ![ws] = Append(@, [kind |-> pub[p].kind, stream |-> p,
                                            targeted |-> pub[p].targeted])]
    /\ pub' = [pub EXCEPT ![p] = IF pub[p].targeted
                                 THEN [@ EXCEPT !.pc = "enqueue", !.n = Len(log[ws]) + 1]
                                 ELSE Idle]
    /\ UNCHANGED <<subscribed, closed, queue, notify, run, held, out,
                   received, lost, owed>>

Lose(e) ==
    /\ lost' = lost \cup SeqsOf(e)
    /\ owed' = owed \cup SeqsOf(e)

\* Wrong variant: Publish forgets the loss.
ForgetLoss(p) == pub' = [pub EXCEPT ![p] = Idle]

\* After a loss Publish goes on to enqueue the control event.
OweControl(p) ==
    pub' = [pub EXCEPT ![p] = [Idle EXCEPT !.pc = "control", !.lostWs = WorkspaceOf[p]]]

\* Wrong variant: the goroutine is not told.
LeaveRunAsleep == notify' = notify

\* Wrong variant: the send waits for room in the channel.
WakeOrWait == ~notify /\ notify' = TRUE

\* A non-blocking send on the one-slot notify channel.
WakeRun == notify' = TRUE

\* enqueue on a closed subscriber: reported as dropped, never announced.
EnqueueClosed(p) ==
    /\ pub[p].pc = "enqueue"
    /\ closed
    /\ pub' = [pub EXCEPT ![p] = Idle]
    /\ UNCHANGED <<log, subscribed, closed, queue, notify, run, held, out,
                   received, lost, owed>>

EnqueueMerged(p) ==
    /\ pub[p].pc = "enqueue"
    /\ ~closed
    /\ \E i \in 1 .. Len(queue) :
          /\ MergesAt(queue, Carried(p), i)
          /\ queue' = Merged(queue, Carried(p), i)
    /\ pub' = [pub EXCEPT ![p] = Idle]
    /\ UNCHANGED <<log, subscribed, closed, notify, run, held, out,
                   received, lost, owed>>

EnqueueSoftDropped(p) ==
    /\ pub[p].pc = "enqueue"
    /\ ~closed
    /\ SoftDrops(queue, Carried(p))
    /\ Lose(Carried(p))
    /\ OweControl(p)
    /\ UNCHANGED <<log, subscribed, closed, queue, notify, run, held, out, received>>

EnqueueHardDropped(p) ==
    /\ pub[p].pc = "enqueue"
    /\ ~closed
    /\ HardDrops(queue, Carried(p))
    /\ Lose(Carried(p))
    /\ OweControl(p)
    /\ UNCHANGED <<log, subscribed, closed, queue, notify, run, held, out, received>>

\* The evicted event is another one of the same subscriber: of this
\* publisher's workspace when the subscriber is a workspace subscriber, of any
\* workspace when it is a global one; the control event names its workspace.
EnqueueEvicting(p) ==
    /\ pub[p].pc = "enqueue"
    /\ ~closed
    /\ \E i \in 1 .. Len(queue) :
          /\ EvictsAt(queue, Carried(p), i)
          /\ queue' = Append(Without(queue, i), Carried(p))
          /\ Lose(queue[i])
          /\ pub' = [pub EXCEPT ![p] = [Idle EXCEPT !.pc = "control",
                                                    !.lostWs = queue[i].ws]]
    /\ WakeRun
    /\ UNCHANGED <<log, subscribed, closed, run, held, out, received>>

EnqueueAppended(p) ==
    /\ pub[p].pc = "enqueue"
    /\ ~closed
    /\ Appends(queue, Carried(p))
    /\ queue' = Append(queue, Carried(p))
    /\ WakeRun
    /\ pub' = [pub EXCEPT ![p] = Idle]
    /\ UNCHANGED <<log, subscribed, closed, run, held, out, received, lost, owed>>

\* enqueueDroppedControlEvent.
ControlSkipped(p) ==
    /\ pub[p].pc = "control"
    /\ closed
    /\ pub' = [pub EXCEPT ![p] = Idle]
    /\ UNCHANGED <<log, subscribed, closed, queue, notify, run, held, out,
                   received, lost, owed>>

ControlAbsorbed(p) ==
    /\ pub[p].pc = "control"
    /\ ~closed
    /\ Absorbs(queue, pub[p].lostWs)
    /\ pub' = [pub EXCEPT ![p] = Idle]
    /\ UNCHANGED <<log, subscribed, closed, queue, notify, run, held, out,
                   received, lost, owed>>

ControlAppended(p) ==
    /\ pub[p].pc = "control"
    /\ ~closed
    /\ ~Absorbs(queue, pub[p].lostWs)
    /\ Len(queue) < HardLimit
    /\ queue' = Append(queue, DroppedControl(pub[p].lostWs, None))
    /\ WakeRun
    /\ pub' = [pub EXCEPT ![p] = Idle]
    /\ UNCHANGED <<log, subscribed, closed, run, held, out, received, lost, owed>>

ControlDisplacing(p) ==
    /\ pub[p].pc = "control"
    /\ ~closed
    /\ ~Absorbs(queue, pub[p].lostWs)
    /\ \E i \in 1 .. Len(queue) :
          /\ ControlDisplaces(queue, i)
          /\ queue' = Append(Without(queue, i), DroppedControl(pub[p].lostWs, None))
          /\ Lose(queue[i])
    /\ WakeRun
    /\ pub' = [pub EXCEPT ![p] = Idle]
    /\ UNCHANGED <<log, subscribed, closed, run, held, out, received>>
-----------------------------------------------------------------------------
(***************************************************************************)
(* The subscriber's goroutine and its consumer.                            *)
(***************************************************************************)
Subscribe ==
    /\ ~subscribed
    /\ ~closed
    /\ subscribed' = TRUE
    /\ UNCHANGED <<log, pub, closed, queue, notify, run, held, out,
                   received, lost, owed>>

\* The cancel function: unregister, then subscriber.close.
Cancel ==
    /\ subscribed
    /\ subscribed' = FALSE
    /\ closed' = TRUE
    /\ queue' = <<>>
    /\ UNCHANGED <<log, pub, notify, run, held, out, received, lost, owed>>

RunWake ==
    /\ run = "wait"
    /\ notify
    /\ notify' = FALSE
    /\ run' = "drain"
    /\ UNCHANGED <<log, pub, subscribed, closed, queue, held, out,
                   received, lost, owed>>

RunPop ==
    /\ run = "drain"
    /\ queue # <<>>
    /\ held' = Head(queue)
    /\ queue' = Tail(queue)
    /\ run' = "send"
    /\ UNCHANGED <<log, pub, subscribed, closed, notify, out, received, lost, owed>>

RunDrained ==
    /\ run = "drain"
    /\ queue = <<>>
    /\ run' = "wait"
    /\ UNCHANGED <<log, pub, subscribed, closed, queue, notify, held, out,
                   received, lost, owed>>

RunSend ==
    /\ run = "send"
    /\ Len(out) < OutLimit
    /\ out' = Append(out, held)
    /\ held' = None
    /\ run' = "drain"
    /\ UNCHANGED <<log, pub, subscribed, closed, queue, notify, received, lost, owed>>

\* Both selects of run have a done case.
RunExit ==
    /\ run \in {"wait", "send"}
    /\ closed
    /\ run' = "exited"
    /\ held' = None
    /\ UNCHANGED <<log, pub, subscribed, closed, queue, notify, out,
                   received, lost, owed>>

Receive ==
    /\ out # <<>>
    /\ received' = Append(received, Head(out))
    /\ out' = Tail(out)
    /\ owed' = IF Head(out).kind = "dropped"
               THEN {s \in owed : s[1] # Head(out).ws}
               ELSE owed
    /\ UNCHANGED <<log, pub, subscribed, closed, queue, notify, run, held, lost>>
-----------------------------------------------------------------------------
Enqueue(p) ==
    \/ EnqueueClosed(p)
    \/ EnqueueMerged(p)
    \/ EnqueueSoftDropped(p)
    \/ EnqueueHardDropped(p)
    \/ EnqueueEvicting(p)
    \/ EnqueueAppended(p)

EnqueueControl(p) ==
    \/ ControlSkipped(p)
    \/ ControlAbsorbed(p)
    \/ ControlAppended(p)
    \/ ControlDisplacing(p)

PublishStep(p) ==
    \/ PublishAppend(p)
    \/ Enqueue(p)
    \/ EnqueueControl(p)

RunStep == RunWake \/ RunPop \/ RunDrained \/ RunSend \/ RunExit

Next ==
    \/ \E p \in Publishers :
          \/ \E kind \in PublishedKinds : PublishBegin(p, kind)
          \/ PublishStep(p)
    \/ Subscribe
    \/ Cancel
    \/ RunStep
    \/ Receive

Spec == Init /\ [][Next]_vars

\* Goroutines that can take a step take one; nobody has to publish or cancel,
\* and the consumer may stop reading for good (a WebSocket writer that hangs).
FairSpec ==
    /\ Spec
    /\ \A p \in Publishers : WF_vars(PublishStep(p))
    /\ WF_vars(RunStep)
-----------------------------------------------------------------------------
\* Control events are forced in at the hard limit, and the queue still keeps to it.
TypeOK ==
    /\ \A ws \in Workspaces :
          log[ws] \in Seq([kind : SequencedKinds, stream : Publishers, targeted : BOOLEAN])
    /\ pub \in [Publishers -> PublisherStates]
    /\ subscribed \in BOOLEAN
    /\ closed \in BOOLEAN
    /\ queue \in Seq(Events \cup Controls) /\ Len(queue) <= HardLimit
    /\ notify \in BOOLEAN
    /\ run \in {"wait", "drain", "send", "exited"}
    /\ held \in Events \cup Controls \cup {None}
    /\ out \in Seq(Events \cup Controls) /\ Len(out) <= OutLimit
    /\ received \in Seq(Events \cup Controls)
    /\ lost \subseteq Workspaces \X (1 .. MaxSeq)
    /\ owed \subseteq lost

\* Everything on its way to the consumer or already there, oldest first.
Pipeline == received \o out \o (IF held = None THEN <<>> ELSE <<held>>) \o queue

\* The part of the pipeline the consumer has still to take.
Underway == out \o (IF held = None THEN <<>> ELSE <<held>>) \o queue

(***************************************************************************)
(* Publish accounts for every event it had to hand to an open subscriber:  *)
(* it is still with its publisher, on its way or received (alone or in a   *)
(* merged event), or it is recorded as lost.                               *)
(***************************************************************************)
NothingVanishes ==
    closed \/
    \A ws \in Workspaces : \A n \in 1 .. Len(log[ws]) :
        log[ws][n].targeted =>
            \/ \E p \in Publishers : pub[p].pc = "enqueue" /\ WorkspaceOf[p] = ws
                                                         /\ pub[p].n = n
            \/ \E i \in 1 .. Len(Pipeline) : Pipeline[i].ws = ws /\ Covers(Pipeline[i], n)
            \/ <<ws, n>> \in lost

(***************************************************************************)
(* No loss is silent: as long as the subscriber is open, a workspace with  *)
(* lost events the consumer does not know of has a control event on its    *)
(* way, or a publisher about to enqueue one (hub.go Publish and            *)
(* enqueueDroppedControlEvent: the control event may be absorbed by one    *)
(* already queued, must not be dropped, and may displace other events).    *)
(***************************************************************************)
LossAnnounced ==
    closed \/
    \A s \in owed :
        \/ \E p \in Publishers : pub[p].pc = "control" /\ pub[p].lostWs = s[1]
        \/ \E i \in 1 .. Len(Underway) : IsControlOf(Underway[i], s[1])

(***************************************************************************)
(* Coalescing never hides or repeats an event: the events on their way and *)
(* received have disjoint coverages, and each sequence number one covers   *)
(* was published with its kind on its stream (canCoalesceEventCoverage).   *)
(***************************************************************************)
CoverageExact ==
    \A i \in 1 .. Len(Pipeline) :
        LET e == Pipeline[i] IN
        e.kind # "dropped" =>
            /\ \A n \in e.from .. e.to :
                  log[e.ws][n].kind = e.kind /\ log[e.ws][n].stream = e.stream
            /\ \A j \in i + 1 .. Len(Pipeline) :
                  SeqsOf(e) \cap SeqsOf(Pipeline[j]) = {}

(***************************************************************************)
(* What one goroutine published reaches the consumer in the order it       *)
(* published it, although a merged event keeps the place of its first part *)
(* and is sent with the number of its last (hub.go coalesce functions).    *)
(***************************************************************************)
PublisherOrder ==
    \A i, j \in 1 .. Len(Pipeline) :
        (i < j /\ Pipeline[i].stream = Pipeline[j].stream /\ Pipeline[i].kind # "dropped"
           /\ Pipeline[j].kind # "dropped")
        => Pipeline[i].to < Pipeline[j].from

(***************************************************************************)
(* A consumer that keeps reading an open subscription learns the fate of   *)
(* every event handed to it: it gets the event, or a control event after   *)
(* the loss.  A lost wake-up of run would break this.                      *)
(***************************************************************************)
EveryEventSettles ==
    WF_vars(Receive) =>
        \A p \in Publishers : \A n \in 1 .. MaxSeq :
            (pub[p].pc = "enqueue" /\ pub[p].n = n)
            ~> \/ closed
               \/ \E i \in 1 .. Len(received) :
                     received[i].ws = WorkspaceOf[p] /\ Covers(received[i], n)
               \/ <<WorkspaceOf[p], n>> \in lost \ owed

(***************************************************************************)
(* A slow or stuck consumer never blocks a publisher.                      *)
(***************************************************************************)
PublishReturns ==
    \A p \in Publishers : (pub[p].pc # "idle") ~> (pub[p].pc = "idle")

(***************************************************************************)
(* The control event is not droppable (plan: "subscriber drop" must add a  *)
(* control event that cannot be dropped): once queued it leaves the queue  *)
(* only towards the consumer, unless the subscription is cancelled.        *)
(***************************************************************************)
ControlUndroppable ==
    [][\A ws \in Workspaces :
         (Absorbs(queue, ws) /\ ~closed')
         => Absorbs(queue', ws) \/ (held' # None /\ IsControlOf(held', ws))]_vars
=============================================================================
