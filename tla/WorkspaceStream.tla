--------------------------- MODULE WorkspaceStream ---------------------------
(***************************************************************************)
(* The workspace event stream from end to end: publishers and the store's  *)
(* event log (backend/internal/store/memory.go), the hub's subscriber      *)
(* (hub.go, the queue as in SubscriberQueue), the WebSocket handler that   *)
(* connects, replays and then follows (backend/internal/api/router.go),    *)
(* and the browser tab that batches, detects gaps, reconnects and falls    *)
(* back to snapshots (frontend useWorkspaceStream.ts, session-store.ts).   *)
(*                                                                         *)
(* One workspace, one tab that has already seen the first event.  A write  *)
(* to the socket and its onmessage are one step: what either side does in  *)
(* between depends on nothing the other side changes, and a message that   *)
(* is lost in transit is one the handler had not yet written.              *)
(***************************************************************************)
EXTENDS SubscriberQueue, FiniteSetsExt

CONSTANTS Publishers,
          Workspace,
          OutLimit,    \* subscriberOutputBufferSize
          Retention,   \* workspaceEventRetentionLimit, also workspaceReplayLimit
          MaxSeq,      \* bound: events of the workspace
          MaxBreaks,   \* bound: connections lost for no reason
          MaxCrashes,  \* bound: crashes of the server
          None

ASSUME StreamAssumption ==
    /\ IsFiniteSet(Publishers)
    /\ OutLimit \in Nat \ {0}
    /\ Retention \in Nat \ {0}
    /\ MaxSeq \in Nat \ {0}
    /\ MaxBreaks \in Nat
    /\ MaxCrashes \in Nat
    /\ None \notin Publishers

VARIABLES
    log,      \* the events sequenced so far, each with the boot that did it
    durable,  \* how much of the log a restart finds on disk
    boot,     \* restarts so far
    pub,      \* per publisher, where it is in Publish
    queue,    \* the subscriber's queue
    out,      \* its output channel, with the event run holds
    conn,     \* how far the connection is: "down" .. "live"
    handler,  \* what the handler has read: afterSeq, headSeq, oldestSeq, replay
    last,     \* the tab's lastEventSeqByWorkspace
    batch,    \* the tab's eventQueue
    seen,     \* history: events applied by the tab, as <<number, boot>>
    again,    \* history: those applied more than once
    covered,  \* history: events up to here are in a snapshot the tab asked for
    breaks

server == <<log, durable, boot>>
feed == <<pub, queue, out>>
tab == <<last, batch, seen, again, covered>>
vars == <<server, feed, conn, handler, tab, breaks>>

Kinds == {"delta", "critical"}

Idle == [pc |-> "idle", kind |-> None, targeted |-> FALSE, n |-> 0]

NoHandler == [after |-> 0, head |-> 0, oldest |-> 0, to |-> 0, replay |-> <<>>]

\* The history holds one event the tab has seen; it is on disk.
Init ==
    /\ log = <<[kind |-> "critical", stream |-> None, boot |-> 0]>>
    /\ durable = 1
    /\ boot = 0
    /\ pub = [p \in Publishers |-> Idle]
    /\ queue = <<>>
    /\ out = <<>>
    /\ conn = "down"
    /\ handler = NoHandler
    /\ last = 1
    /\ batch = <<>>
    /\ seen = {<<1, 0>>}
    /\ again = {}
    /\ covered = 0
    /\ breaks = 0
-----------------------------------------------------------------------------
(***************************************************************************)
(* Publishing.                                                             *)
(***************************************************************************)
Event(kind, stream, n) ==
    [kind |-> kind, ws |-> Workspace, stream |-> stream, from |-> n, to |-> n]

Carried(p) == Event(pub[p].kind, p, pub[p].n)

Subscribed == conn \notin {"down", "dialing"}

Appending == {p \in Publishers : pub[p].pc = "append"}

PublishBegin(p, kind) ==
    /\ pub[p].pc = "idle"
    /\ Len(log) + Cardinality(Appending) < MaxSeq
    /\ pub' = [pub EXCEPT ![p] = [Idle EXCEPT !.pc = "append", !.kind = kind,
                                              !.targeted = Subscribed]]
    /\ UNCHANGED <<server, queue, out, conn, handler, tab, breaks>>

\* The store assigns the next number and appends under its lock.
PublishAppend(p) ==
    /\ pub[p].pc = "append"
    /\ log' = Append(log, [kind |-> pub[p].kind, stream |-> p, boot |-> boot])
    /\ pub' = [pub EXCEPT ![p] = IF pub[p].targeted
                                 THEN [@ EXCEPT !.pc = "enqueue", !.n = Len(log) + 1]
                                 ELSE Idle]
    /\ UNCHANGED <<durable, boot, queue, out, conn, handler, tab, breaks>>

\* Wrong variant: a loss is not followed by a control event.
ForgetLoss(p) == pub' = [pub EXCEPT ![p] = Idle]

OweControl(p) == pub' = [pub EXCEPT ![p] = [Idle EXCEPT !.pc = "control"]]

Enqueue(p) ==
    LET e == Carried(p) IN
    /\ pub[p].pc = "enqueue"
    /\ \/ \E i \in 1 .. Len(queue) : /\ MergesAt(queue, e, i)
                                     /\ queue' = Merged(queue, e, i)
                                     /\ pub' = [pub EXCEPT ![p] = Idle]
       \/ /\ SoftDrops(queue, e) \/ HardDrops(queue, e)
          /\ OweControl(p)
          /\ UNCHANGED queue
       \/ \E i \in 1 .. Len(queue) : /\ EvictsAt(queue, e, i)
                                     /\ queue' = Append(Without(queue, i), e)
                                     /\ OweControl(p)
       \/ /\ Appends(queue, e)
          /\ queue' = Append(queue, e)
          /\ pub' = [pub EXCEPT ![p] = Idle]
    /\ UNCHANGED <<server, out, conn, handler, tab, breaks>>

EnqueueControl(p) ==
    LET e == DroppedControl(Workspace, None) IN
    /\ pub[p].pc = "control"
    /\ \/ Absorbs(queue, Workspace) /\ UNCHANGED queue
       \/ /\ ~Absorbs(queue, Workspace)
          /\ Len(queue) < HardLimit
          /\ queue' = Append(queue, e)
       \/ /\ ~Absorbs(queue, Workspace)
          /\ \E i \in 1 .. Len(queue) : /\ ControlDisplaces(queue, i)
                                        /\ queue' = Append(Without(queue, i), e)
    /\ pub' = [pub EXCEPT ![p] = Idle]
    /\ UNCHANGED <<server, out, conn, handler, tab, breaks>>

\* run: pop the queue, send to the output channel.
Pump ==
    /\ queue # <<>>
    /\ Len(out) < OutLimit
    /\ out' = Append(out, Head(queue))
    /\ queue' = Tail(queue)
    /\ UNCHANGED <<server, pub, conn, handler, tab, breaks>>
-----------------------------------------------------------------------------
(***************************************************************************)
(* What the tab does with events.  cur is the number the tab has got to.   *)
(***************************************************************************)
\* Wrong variant: numbers are only used to discard what is known.
NeverGap(e, cur) == FALSE

\* detectWorkspaceSeqGap; replayed events are taken as they come.
Gap(e, cur) == ~e.replay /\ e.to > cur + 1 /\ e.from > cur + 1

\* Wrong variant: the number of an applied event is not looked at.
NeverKnown(e, cur) == FALSE

Known(e, cur) == e.to <= cur

Contents(e) == {<<n, log[n].boot>> : n \in e.from .. e.to}

\* splitWorkspaceEventsAtSeqGap: workingSeqByWorkspace when it comes to event i.
WorkingSeq(i) == Max({last} \cup {batch[j].to : j \in 1 .. i - 1})

GapAt(i) == Gap(batch[i], WorkingSeq(i))

Accepted == {i \in 1 .. Len(batch) : \A j \in 1 .. i : ~GapAt(j)}

\* applySessionEvents skips what it knows.
Applied == {i \in Accepted : ~Known(batch[i], WorkingSeq(i))}

\* What the tab has applied when it comes to event i of the batch.
SeenBefore(i) == seen \cup UNION {Contents(batch[j]) : j \in {k \in Applied : k < i}}

\* The tab when the batch is flushed; gap says that an event was refused
\* because an earlier one is missing.
Flushed ==
    [last |-> Max({last} \cup {batch[i].to : i \in Accepted}),
     seen |-> seen \cup UNION {Contents(batch[i]) : i \in Applied},
     again |-> again \cup UNION {SeenBefore(i) \cap Contents(batch[i]) : i \in Applied},
     gap |-> \E i \in 1 .. Len(batch) : GapAt(i)]

\* applySessionEvents for one event.
Ingest(t, e) ==
    IF Known(e, t.last) \/ Gap(e, t.last) THEN t
    ELSE [t EXCEPT !.last = e.to,
                   !.seen = @ \cup Contents(e),
                   !.again = @ \cup (t.seen \cap Contents(e))]

QueuedSeq == IF batch = <<>> THEN last ELSE Max({batch[i].to : i \in 1 .. Len(batch)})

Become(t) == last' = t.last /\ seen' = t.seen /\ again' = t.again

\* The publishers whose list holds a subscriber that has gone find it closed.
Untargeted ==
    [p \in Publishers |-> IF pub[p].pc = "append"
                          THEN [pub[p] EXCEPT !.targeted = FALSE] ELSE Idle]

\* The socket closes and the handler's deferred cancel runs; onclose flushes
\* what is left in the batch, which only Disconnect finds full.
HangUp ==
    /\ conn' = "down"
    /\ handler' = NoHandler
    /\ pub' = Untargeted
    /\ queue' = <<>>
    /\ out' = <<>>

\* handleWorkspaceStreamEvent for a method that is not batched: the batch is
\* flushed first, then the event is checked and applied.
ReceiveImmediate(e) ==
    LET t == Flushed IN
    /\ e.kind = "critical"
    /\ Become(Ingest(t, e))
    /\ batch' = <<>>
    /\ IF t.gap \/ Gap(e, t.last)
       THEN HangUp
       ELSE UNCHANGED <<pub, queue, conn>>

\* For a batched method.
ReceiveBatched(e) ==
    /\ e.kind = "delta"
    /\ IF Gap(e, QueuedSeq)
       THEN Become(Flushed) /\ batch' = <<>> /\ HangUp
       ELSE batch' = Append(batch, e) /\ UNCHANGED <<last, seen, again, pub, queue, conn>>

FlushTimer ==
    LET t == Flushed IN
    /\ batch # <<>>
    /\ Become(t)
    /\ batch' = <<>>
    /\ IF t.gap THEN HangUp ELSE UNCHANGED <<feed, conn, handler>>
    /\ UNCHANGED <<server, covered, breaks>>
-----------------------------------------------------------------------------
(***************************************************************************)
(* The handler.                                                            *)
(***************************************************************************)
\* openWorkspaceSocket: afterSeq is the last number the store has.
Dial ==
    /\ conn = "down"
    /\ conn' = "dialing"
    /\ handler' = [NoHandler EXCEPT !.after = last]
    /\ UNCHANGED <<server, feed, tab, breaks>>

Subscribe ==
    /\ conn = "dialing"
    /\ conn' = "head"
    /\ UNCHANGED <<server, feed, handler, tab, breaks>>

ReadHeadSeq ==
    /\ conn = "head"
    /\ conn' = "oldest"
    /\ handler' = [handler EXCEPT !.head = Len(log)]
    /\ UNCHANGED <<server, feed, tab, breaks>>

OldestSeq == IF Len(log) > Retention THEN Len(log) - Retention + 1 ELSE 1

\* Then the connected message and the snapshots are written.
ReadOldestSeq ==
    /\ conn = "oldest"
    /\ conn' = "replay"
    /\ handler' = [handler EXCEPT !.oldest = OldestSeq]
    /\ UNCHANGED <<server, feed, tab, breaks>>

\* An event as the handler writes it; the store marks replayed ones.
Message(e, replay) ==
    [kind |-> e.kind, ws |-> e.ws, stream |-> e.stream, from |-> e.from, to |-> e.to,
     replay |-> replay]

\* ListWorkspaceEventsAfter: what is retained now, not when oldest was read.
Replayed ==
    LET first == Max({OldestSeq, handler.after + 1}) IN
    [i \in 1 .. Len(log) - first + 1 |->
        Message(Event(log[first + i - 1].kind, log[first + i - 1].stream, first + i - 1), TRUE)]

Replay ==
    /\ conn = "replay"
    /\ conn' = "replaying"
    /\ handler' = [handler EXCEPT !.replay = Replayed,
                                  !.to = IF Replayed = <<>> THEN 0
                                         ELSE Replayed[Len(Replayed)].to]
    /\ UNCHANGED <<server, feed, tab, breaks>>

SendReplayed ==
    /\ conn = "replaying"
    /\ handler.replay # <<>>
    /\ ReceiveImmediate(Head(handler.replay)) \/ ReceiveBatched(Head(handler.replay))
    /\ IF conn' = "down" THEN TRUE
       ELSE handler' = [handler EXCEPT !.replay = Tail(@)] /\ UNCHANGED out
    /\ UNCHANGED <<server, covered, breaks>>

\* isWorkspaceReplayComplete; a full page ends at the head, as the limit of a
\* page is the limit of the retention.
ReplayComplete ==
    /\ handler.after + 1 >= handler.oldest
    /\ handler.to = 0 \/ handler.to >= handler.head

\* workspace/replay/completed and handleWorkspaceReplayCompletedEvent.
SendReplayCompleted ==
    LET t == Flushed
        retentionGap == handler.after + 1 < handler.oldest
        forward == /\ handler.to > handler.after
                   /\ t.last >= handler.to
                   /\ t.last < handler.head
        hangUp == t.gap \/ (~ReplayComplete /\ forward)
    IN
    /\ conn = "replaying"
    /\ handler.replay = <<>>
    /\ Become(t)
    /\ batch' = <<>>
    /\ covered' = IF ~ReplayComplete /\ (retentionGap \/ ~forward)
                  THEN Len(log) ELSE covered
    /\ IF hangUp
       THEN HangUp
       ELSE conn' = "live" /\ UNCHANGED <<handler, feed>>
    /\ UNCHANGED <<server, breaks>>

SendLive ==
    LET e == Message(Head(out), FALSE) IN
    /\ conn = "live"
    /\ out # <<>>
    /\ ReceiveImmediate(e) \/ ReceiveBatched(e)
    /\ IF conn' = "down" THEN TRUE ELSE out' = Tail(out) /\ UNCHANGED handler
    /\ UNCHANGED <<server, covered, breaks>>

\* handleWorkspaceEventsDroppedEvent: hang up, and dial again at once.
SendDropped ==
    /\ conn = "live"
    /\ out # <<>>
    /\ Head(out).kind = "dropped"
    /\ Become(Flushed)
    /\ batch' = <<>>
    /\ HangUp
    /\ UNCHANGED <<server, covered, breaks>>

Disconnect ==
    /\ conn # "down"
    /\ breaks < MaxBreaks
    /\ breaks' = breaks + 1
    /\ Become(Flushed)
    /\ batch' = <<>>
    /\ HangUp
    /\ UNCHANGED <<server, covered>>
-----------------------------------------------------------------------------
(***************************************************************************)
(* The store writes its state to disk some time after a change; a crash    *)
(* loses what is not there.                                                *)
(***************************************************************************)
FlushStore ==
    /\ boot < MaxCrashes
    /\ durable < Len(log)
    /\ durable' = Len(log)
    /\ UNCHANGED <<log, boot, feed, conn, handler, tab, breaks>>

Crash ==
    /\ boot < MaxCrashes
    /\ boot' = boot + 1
    /\ log' = SubSeq(log, 1, durable)
    /\ Become(Flushed)
    /\ batch' = <<>>
    /\ covered' = Min({covered, durable})
    /\ conn' = "down"
    /\ handler' = NoHandler
    /\ pub' = [p \in Publishers |-> Idle]
    /\ queue' = <<>>
    /\ out' = <<>>
    /\ UNCHANGED <<durable, breaks>>
-----------------------------------------------------------------------------
PublishStep(p) == PublishAppend(p) \/ Enqueue(p) \/ EnqueueControl(p)

HandlerStep ==
    \/ Subscribe
    \/ ReadHeadSeq
    \/ ReadOldestSeq
    \/ Replay
    \/ SendReplayed
    \/ SendReplayCompleted
    \/ SendLive
    \/ SendDropped

Next ==
    \/ \E p \in Publishers : (\E kind \in Kinds : PublishBegin(p, kind)) \/ PublishStep(p)
    \/ Pump
    \/ Dial
    \/ HandlerStep
    \/ FlushTimer
    \/ Disconnect
    \/ FlushStore
    \/ Crash

Spec == Init /\ [][Next]_vars

\* The server's goroutines are scheduled, the tab's flush timer fires and the
\* tab dials again as long as a page uses the workspace.
FairSpec ==
    /\ Spec
    /\ \A p \in Publishers : WF_vars(PublishStep(p))
    /\ WF_vars(Pump)
    /\ WF_vars(Dial)
    /\ WF_vars(HandlerStep)
    /\ WF_vars(FlushTimer)
-----------------------------------------------------------------------------
FeedEvents ==
    [kind : Kinds \cup {"dropped"}, ws : {Workspace}, stream : Publishers \cup {None},
     from : 0 .. MaxSeq, to : 0 .. MaxSeq]

TabEvents ==
    [kind : Kinds, ws : {Workspace}, stream : Publishers \cup {None},
     from : 1 .. MaxSeq, to : 1 .. MaxSeq, replay : BOOLEAN]

TypeOK ==
    /\ log \in Seq([kind : Kinds, stream : Publishers \cup {None}, boot : 0 .. MaxCrashes])
    /\ Len(log) <= MaxSeq
    /\ durable \in 1 .. Len(log)
    /\ boot \in 0 .. MaxCrashes
    /\ pub \in [Publishers -> [pc : {"idle", "append", "enqueue", "control"},
                               kind : Kinds \cup {None}, targeted : BOOLEAN,
                               n : 0 .. MaxSeq]]
    /\ queue \in Seq(FeedEvents)
    /\ Len(queue) <= HardLimit
    /\ out \in Seq(FeedEvents)
    /\ Len(out) <= OutLimit
    /\ conn \in {"down", "dialing", "head", "oldest", "replay", "replaying", "live"}
    /\ handler \in [after : 0 .. MaxSeq, head : 0 .. MaxSeq, oldest : 0 .. MaxSeq,
                    to : 0 .. MaxSeq, replay : Seq(TabEvents)]
    /\ last \in 1 .. MaxSeq
    /\ batch \in Seq(TabEvents)
    /\ seen \subseteq (1 .. MaxSeq) \X (0 .. MaxCrashes)
    /\ again \subseteq seen
    /\ covered \in 0 .. MaxSeq
    /\ breaks \in 0 .. MaxBreaks

(***************************************************************************)
(* No event is passed over silently: what the tab counts as behind it, it  *)
(* has applied, or it has asked for a snapshot that contains it, at the    *)
(* latest when the replay is over.  (Plan: events are not lost silently,   *)
(* guaranteed by the protocol; a gap no longer silently advances afterSeq.)*)
(* Nothing of the kind holds once the server has crashed: it gives out     *)
(* numbers again that the tab has seen.                                    *)
(***************************************************************************)
NoSilentHole ==
    (conn # "replaying" /\ boot = 0) =>
        \A n \in 1 .. Len(log) :
            n <= last => <<n, log[n].boot>> \in seen \/ n <= covered

(***************************************************************************)
(* The only events the tab may apply twice are deltas that were merged     *)
(* while the replay overtook their first part: an approval, a turn or an   *)
(* item event is applied once, however often the tab reconnects.           *)
(***************************************************************************)
OnlyDeltasRepeat ==
    \A n \in 1 .. Len(log) : <<n, log[n].boot>> \in again => log[n].kind = "delta"

(***************************************************************************)
(* An event handed to the tab's subscription reaches the tab, with all     *)
(* before it: live, or, after backpressure, reordering or a lost           *)
(* connection, by the replay of a reconnect; only a crash takes it away.   *)
(***************************************************************************)
HandedOverArrives ==
    \A p \in Publishers : \A n \in 1 .. MaxSeq : \A b \in 0 .. MaxCrashes :
        (pub[p].pc = "enqueue" /\ pub[p].n = n /\ boot = b) ~> (last >= n \/ boot # b)
=============================================================================
