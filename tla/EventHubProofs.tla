--------------------------- MODULE EventHubProofs ---------------------------
(***************************************************************************)
(* Proofs about the event hub, for any number of publishers and events and *)
(* any limits of the subscriber's queue.                                   *)
(*                                                                         *)
(* The order of events and their coverage are argued on the line of all    *)
(* events on their way and received (Pipeline): the run goroutine and the  *)
(* consumer leave it as it is, a publisher extends it at its end, changes  *)
(* one event in its place or takes one out.  What a publisher carries is   *)
(* in the log under its number (CarriesOwn) and newer than any event of    *)
(* its stream in the line (Behind).                                        *)
(***************************************************************************)
EXTENDS EventHub, FiniteSetTheorems, SequenceTheorems, TLAPS

Entries == [kind : SequencedKinds, stream : Publishers, targeted : BOOLEAN]

Items == Events \cup Controls

Feeds == Seq(Items)

\* A publisher has what it needs where it is.
PublisherOK(p) ==
    LET e == pub[p] IN
    /\ e \in PublisherStates
    /\ e.pc \in {"append", "enqueue"} => e.kind \in SequencedKinds
    /\ e.pc = "enqueue" => e.targeted /\ e.n \in 1 .. Len(log[WorkspaceOf[p]])
    /\ e.pc = "control" => e.lostWs \in Workspaces

\* There is room in the log for those about to append.
RoomLeft == \A ws \in Workspaces : Len(log[ws]) + Cardinality(Appending(ws)) <= MaxSeq

LogTyped == log \in [Workspaces -> Seq(Entries)] /\ RoomLeft

PublishersTyped == pub \in [Publishers -> PublisherStates] /\ \A p \in Publishers : PublisherOK(p)

\* run holds an event exactly while it sends; a closed queue is empty.
QueueTyped ==
    /\ subscribed \in BOOLEAN /\ closed \in BOOLEAN /\ notify \in BOOLEAN
    /\ queue \in Feeds /\ Len(queue) <= HardLimit
    /\ run \in {"wait", "drain", "send", "exited"}
    /\ held \in Items \cup {None}
    /\ held # None <=> run = "send"
    /\ out \in Feeds /\ Len(out) <= OutLimit
    /\ received \in Feeds
    /\ closed => queue = <<>>

HistoryTyped == lost \subseteq Workspaces \X (1 .. MaxSeq) /\ owed \subseteq lost

Types == LogTyped /\ PublishersTyped /\ QueueTyped /\ HistoryTyped

-----------------------------------------------------------------------------
(***************************************************************************)
(* The operators of the queue                                              *)
(***************************************************************************)

LEMMA ItemTypes ==
    ASSUME NEW x \in Items
    PROVE  /\ x.ws \in Workspaces
           /\ x.kind # "dropped" => x \in Events
           /\ x \in Events =>
                /\ x.kind \in SequencedKinds /\ x.kind # "dropped" /\ x.stream \in Publishers
                /\ x.from \in 1 .. MaxSeq /\ x.to \in 1 .. MaxSeq
           /\ x \in Controls => x.kind = "dropped" /\ x.from = 0
BY DEF Items, Events, Controls, SequencedKinds

\* What a publisher carries is one event of its own.
LEMMA CarriedIsEvent ==
    ASSUME Types, NEW p \in Publishers, pub[p].pc = "enqueue"
    PROVE  /\ Carried(p) \in Events /\ WorkspaceOf[p] \in Workspaces
           /\ Carried(p).ws = WorkspaceOf[p] /\ Carried(p).stream = p
           /\ Carried(p).kind = pub[p].kind /\ pub[p].kind # "dropped"
           /\ Carried(p).from = pub[p].n /\ Carried(p).to = pub[p].n
           /\ pub[p].n \in 1 .. MaxSeq /\ pub[p].n <= Len(log[WorkspaceOf[p]])
<1> USE HubAssumption
<1>1. PublisherOK(p) /\ WorkspaceOf[p] \in Workspaces
  BY DEF Types, PublishersTyped
<1>2. pub[p].n \in 0 .. MaxSeq /\ pub[p].n \in 1 .. Len(log[WorkspaceOf[p]])
      /\ pub[p].kind \in SequencedKinds
  BY <1>1 DEF PublisherOK, PublisherStates
<1>3. log[WorkspaceOf[p]] \in Seq(Entries)
  BY <1>1 DEF Types, LogTyped
<1> QED
  BY <1>1, <1>2, <1>3 DEF Carried, Event, Events, SequencedKinds

LEMMA ControlIsItem ==
    ASSUME NEW ws \in Workspaces
    PROVE  DroppedControl(ws, None) \in Controls /\ IsControlOf(DroppedControl(ws, None), ws)
BY DEF DroppedControl, Controls, IsControlOf

LEMMA WithoutIsFeed ==
    ASSUME NEW q \in Feeds, NEW i \in 1 .. Len(q)
    PROVE  /\ Without(q, i) \in Feeds
           /\ Len(Without(q, i)) = Len(q) - 1
           /\ \A j \in 1 .. Len(q) - 1 :
                 Without(q, i)[j] = IF j < i THEN q[j] ELSE q[j + 1]
<1>1. /\ Len(q) \in Nat /\ \A j \in 1 .. Len(q) : q[j] \in Items
      /\ Len(q) - 1 \in Nat
  BY DEF Feeds
<1>2. Without(q, i) \in [1 .. Len(q) - 1 -> Items]
  BY <1>1 DEF Without
<1>3. Without(q, i) \in Seq(Items)
  BY <1>1, <1>2, SeqDef
<1>4. Len(Without(q, i)) = Len(q) - 1
  BY <1>1, <1>2, <1>3, LenProperties
<1> QED
  BY <1>1, <1>3, <1>4 DEF Without, Feeds

LEMMA MergedIsFeed ==
    ASSUME NEW q \in Feeds, NEW i \in 1 .. Len(q), NEW e \in Events, q[i] \in Events
    PROVE  /\ Merged(q, e, i) \in Feeds
           /\ Len(Merged(q, e, i)) = Len(q)
           /\ \A j \in 1 .. Len(q) : j # i => Merged(q, e, i)[j] = q[j]
           /\ Merged(q, e, i)[i] = [q[i] EXCEPT !.to = e.to]
           /\ Merged(q, e, i)[i] \in Events
<1>1. [q[i] EXCEPT !.to = e.to] \in Events
  BY DEF Events
<1>2. Merged(q, e, i) = [q EXCEPT ![i] = [q[i] EXCEPT !.to = e.to]]
  BY DEF Merged
<1>3. [q[i] EXCEPT !.to = e.to] \in Items
  BY <1>1 DEF Items
<1> QED
  BY <1>1, <1>2, <1>3, ExceptSeq DEF Feeds

LEMMA AppendedIsFeed ==
    ASSUME NEW q \in Feeds, NEW x \in Items
    PROVE  /\ Append(q, x) \in Feeds
           /\ Len(Append(q, x)) = Len(q) + 1
           /\ \A j \in 1 .. Len(q) : Append(q, x)[j] = q[j]
           /\ Append(q, x)[Len(q) + 1] = x
BY AppendProperties DEF Feeds

\* An event taken out and another put in its stead at the end.
LEMMA ReplacedIsFeed ==
    ASSUME NEW q \in Feeds, NEW i \in 1 .. Len(q), NEW x \in Items
    PROVE  Append(Without(q, i), x) \in Feeds /\ Len(Append(Without(q, i), x)) = Len(q)
<1>1. Without(q, i) \in Feeds /\ Len(Without(q, i)) = Len(q) - 1 /\ Len(q) \in Nat
  BY WithoutIsFeed DEF Feeds
<1> QED
  BY <1>1, AppendedIsFeed

\* Only an event with its own key takes what a publisher carries.
LEMMA MergesIntoEvent ==
    ASSUME NEW q \in Feeds, NEW i \in 1 .. Len(q), NEW e \in Events, MergesAt(q, e, i)
    PROVE  /\ q[i] \in Events /\ q[i].kind = e.kind /\ q[i].ws = e.ws /\ q[i].stream = e.stream
           /\ e.from = q[i].to + 1
<1>1. q[i] \in Items /\ q[i].kind = e.kind /\ q[i].ws = e.ws /\ q[i].stream = e.stream
      /\ ContiguousCoverage(q[i], e)
  BY DEF Feeds, MergesAt, LastWithKey, SameKey
<1>2. q[i] \in Events
  BY <1>1, ItemTypes DEF Items
<1> QED
  BY <1>1, <1>2, ItemTypes DEF ContiguousCoverage, Items
-----------------------------------------------------------------------------
(***************************************************************************)
(* Types                                                                   *)
(***************************************************************************)
\* The steps that neither begin nor append: a publisher that enqueues goes on
\* to its control event or is done.
Settles(p) ==
    /\ pub[p].pc \in {"enqueue", "control"}
    /\ \/ pub' = [pub EXCEPT ![p] = Idle]
       \/ \E ws \in Workspaces :
             pub' = [pub EXCEPT ![p] = [Idle EXCEPT !.pc = "control", !.lostWs = ws]]
    /\ log' = log

LEMMA StepsSettle ==
    ASSUME Types, NEW p \in Publishers, Enqueue(p) \/ EnqueueControl(p)
    PROVE  Settles(p)
<1> USE HubAssumption
<1>1. WorkspaceOf[p] \in Workspaces /\ \A i \in 1 .. Len(queue) : queue[i] \in Items
  BY DEF Types, QueueTyped, Feeds
<1>2. \A i \in 1 .. Len(queue) : queue[i].ws \in Workspaces
  BY <1>1, ItemTypes
<1> QED
  BY <1>1, <1>2
  DEF Settles, Enqueue, EnqueueControl, EnqueueClosed, EnqueueMerged, EnqueueSoftDropped,
      EnqueueHardDropped, EnqueueEvicting, EnqueueAppended, ControlSkipped,
      ControlAbsorbed, ControlAppended, ControlDisplacing, OweControl

LEMMA AppendingIsFinite ==
    ASSUME NEW ws
    PROVE  /\ IsFiniteSet(Appending(ws)) /\ Cardinality(Appending(ws)) \in Nat
           /\ \A p \in Publishers :
                 /\ p \notin Appending(ws) =>
                       Cardinality(Appending(ws) \cup {p}) = Cardinality(Appending(ws)) + 1
                 /\ p \in Appending(ws) =>
                       Cardinality(Appending(ws) \ {p}) = Cardinality(Appending(ws)) - 1
<1>1. Appending(ws) \subseteq Publishers
  BY DEF Appending
<1>2. IsFiniteSet(Appending(ws)) /\ Cardinality(Appending(ws)) \in Nat
  BY <1>1, HubAssumption, FS_Subset, FS_CardinalityType
<1> QED
  BY <1>2, FS_AddElement, FS_RemoveElement

\* What the steps of publishers do to their states and the log.
LEMMA PublishersStep ==
    ASSUME Types, [Next]_vars
    PROVE  \/ UNCHANGED <<pub, log>>
           \/ \E p \in Publishers :
                 \/ \E kind \in PublishedKinds : PublishBegin(p, kind)
                 \/ PublishAppend(p)
                 \/ Settles(p)
BY StepsSettle
DEF Next, vars, PublishStep, Subscribe, Cancel, RunStep, RunWake, RunPop, RunDrained,
    RunSend, RunExit, Receive

LEMMA LogStep == ASSUME Types, [Next]_vars PROVE LogTyped'
<1> USE HubAssumption
<1>1. log \in [Workspaces -> Seq(Entries)] /\ \A ws \in Workspaces : Len(log[ws]) \in Nat
  BY DEF Types, LogTyped
<1>2. pub \in [Publishers -> PublisherStates] /\ \A p \in Publishers : PublisherOK(p)
  BY DEF Types, PublishersTyped
<1>3. ASSUME UNCHANGED <<pub, log>> PROVE LogTyped'
  BY <1>3 DEF Types, LogTyped, RoomLeft, Appending
<1>4. ASSUME NEW p \in Publishers, NEW kind \in PublishedKinds, PublishBegin(p, kind)
      PROVE  LogTyped'
  <2>1. ASSUME NEW ws \in Workspaces
        PROVE  Len(log'[ws]) + Cardinality(Appending(ws)') <= MaxSeq
    <3>1. CASE ws = WorkspaceOf[p]
      <4>1. p \notin Appending(ws) /\ Appending(ws)' = Appending(ws) \cup {p}
        BY <1>2, <1>4, <3>1 DEF PublishBegin, Appending, Idle
      <4>2. Len(log[ws]) + Cardinality(Appending(ws)) < MaxSeq
        BY <1>4, <3>1 DEF PublishBegin
      <4> QED
        BY <1>1, <1>4, <4>1, <4>2, AppendingIsFinite DEF PublishBegin
    <3>2. CASE ws # WorkspaceOf[p]
      <4>1. Appending(ws)' = Appending(ws)
        BY <1>2, <1>4, <3>2 DEF PublishBegin, Appending
      <4> QED
        BY <1>4, <4>1 DEF PublishBegin, Types, LogTyped, RoomLeft
    <3> QED
      BY <3>1, <3>2
  <2> QED
    BY <1>1, <1>4, <2>1 DEF PublishBegin, LogTyped, RoomLeft
<1>5. ASSUME NEW p \in Publishers, PublishAppend(p) PROVE LogTyped'
  <2> DEFINE w == WorkspaceOf[p]
             e == [kind |-> pub[p].kind, stream |-> p, targeted |-> pub[p].targeted]
  <2>1. w \in Workspaces /\ e \in Entries /\ log' = [log EXCEPT ![w] = Append(log[w], e)]
    BY <1>2, <1>5 DEF PublishAppend, PublisherOK, PublisherStates, Entries
  <2>2. Append(log[w], e) \in Seq(Entries) /\ Len(Append(log[w], e)) = Len(log[w]) + 1
    BY <1>1, <2>1, AppendProperties
  <2>3. ASSUME NEW ws \in Workspaces
        PROVE  Len(log'[ws]) + Cardinality(Appending(ws)') <= MaxSeq
    <3>0. Len(log[ws]) + Cardinality(Appending(ws)) <= MaxSeq
      BY DEF Types, LogTyped, RoomLeft
    <3>1. CASE ws = w
      <4>1. p \in Appending(ws) /\ Appending(ws)' = Appending(ws) \ {p}
        BY <1>2, <1>5, <3>1 DEF PublishAppend, Appending, Idle
      <4>2. Len(log'[ws]) = Len(log[ws]) + 1
        BY <1>1, <2>1, <2>2, <3>1
      <4> QED
        BY <1>1, <3>0, <4>1, <4>2, AppendingIsFinite
    <3>2. CASE ws # w
      <4>1. Appending(ws)' = Appending(ws) /\ log'[ws] = log[ws]
        BY <1>1, <1>2, <1>5, <2>1, <3>2 DEF PublishAppend, Appending
      <4> QED
        BY <3>0, <4>1
    <3> QED
      BY <3>1, <3>2
  <2>4. log' \in [Workspaces -> Seq(Entries)]
    BY <1>1, <2>1, <2>2
  <2> QED
    BY <2>3, <2>4 DEF LogTyped, RoomLeft
<1>6. ASSUME NEW p \in Publishers, Settles(p) PROVE LogTyped'
  <2>1. \A q \in Publishers : pub'[q].pc = "append" <=> pub[q].pc = "append"
    <3>1. PICK x : pub' = [pub EXCEPT ![p] = x] /\ x.pc \in {"idle", "control"}
      BY <1>6 DEF Settles, Idle
    <3> QED
      BY <1>2, <1>6, <3>1 DEF Settles
  <2>2. \A ws : Appending(ws)' = Appending(ws)
    BY <2>1 DEF Appending
  <2> QED
    BY <1>6, <2>2 DEF Settles, Types, LogTyped, RoomLeft
<1> QED
  BY <1>3, <1>4, <1>5, <1>6, PublishersStep

LEMMA PublishersTypedStep == ASSUME Types, [Next]_vars PROVE PublishersTyped'
<1> USE HubAssumption
<1>1. log \in [Workspaces -> Seq(Entries)] /\ \A ws \in Workspaces : Len(log[ws]) \in Nat
  BY DEF Types, LogTyped
<1>2. pub \in [Publishers -> PublisherStates] /\ \A p \in Publishers : PublisherOK(p)
  BY DEF Types, PublishersTyped
<1>3. Idle \in PublisherStates
  BY DEF Idle, PublisherStates
<1>4. ASSUME UNCHANGED <<pub, log>> PROVE PublishersTyped'
  BY <1>2, <1>4 DEF PublishersTyped, PublisherOK
<1>5. ASSUME NEW p \in Publishers, NEW kind \in PublishedKinds, PublishBegin(p, kind)
      PROVE  PublishersTyped'
  <2> DEFINE e == [Idle EXCEPT !.pc = "append", !.kind = kind, !.targeted = subscribed]
  <2>1. e \in PublisherStates /\ e.pc = "append" /\ e.kind \in SequencedKinds
    <3>1. subscribed \in BOOLEAN /\ kind \in SequencedKinds
      BY DEF Types, QueueTyped
    <3> QED
      BY <1>3, <3>1 DEF PublisherStates
  <2>2. pub' = [pub EXCEPT ![p] = e] /\ log' = log
    BY <1>5 DEF PublishBegin
  <2> HIDE DEF e
  <2> QED
    BY <1>2, <2>1, <2>2 DEF PublishersTyped, PublisherOK
<1>6. ASSUME NEW p \in Publishers, PublishAppend(p) PROVE PublishersTyped'
  <2> DEFINE w == WorkspaceOf[p]
             e == [pub[p] EXCEPT !.pc = "enqueue", !.n = Len(log[w]) + 1]
             x == IF pub[p].targeted THEN e ELSE Idle
  <2>1. w \in Workspaces /\ pub' = [pub EXCEPT ![p] = x] /\ p \in Appending(w)
    BY <1>6 DEF PublishAppend, Appending
  <2>2. Len(log'[w]) = Len(log[w]) + 1 /\ \A v \in Workspaces : v # w => log'[v] = log[v]
    BY <1>1, <1>6, <2>1, LogStep, AppendProperties DEF PublishAppend, LogTyped
  <2>3. Len(log[w]) + 1 <= MaxSeq
    <3>1. Len(log[w]) + Cardinality(Appending(w)) <= MaxSeq
      BY <2>1 DEF Types, LogTyped, RoomLeft
    <3>2. Cardinality(Appending(w)) \in Nat /\ Cardinality(Appending(w) \ {p}) \in Nat
          /\ Cardinality(Appending(w) \ {p}) = Cardinality(Appending(w)) - 1
      BY <2>1, AppendingIsFinite, FS_Subset, FS_RemoveElement, FS_CardinalityType
    <3> QED
      BY <1>1, <2>1, <3>1, <3>2
  <2>4. pub[p].targeted => /\ e \in PublisherStates /\ e.pc = "enqueue" /\ e.targeted
                           /\ e.kind \in SequencedKinds /\ e.n = Len(log[w]) + 1
    <3>1. pub[p] \in PublisherStates /\ pub[p].kind \in SequencedKinds
          /\ Len(log[w]) + 1 \in 0 .. MaxSeq
      BY <1>1, <1>2, <1>6, <2>1, <2>3 DEF PublishAppend, PublisherOK
    <3> QED
      BY <3>1 DEF PublisherStates
  <2>5. x \in PublisherStates /\ (x.pc = "idle" \/ (x = e /\ pub[p].targeted))
    BY <1>3, <2>4 DEF Idle
  <2> HIDE DEF e, x
  <2>6. ASSUME NEW q \in Publishers PROVE PublisherOK(q)'
    <3>1. CASE q = p
      <4>1. pub'[q] = x
        BY <1>2, <2>1, <3>1
      <4> QED
        BY <1>1, <2>1, <2>2, <2>4, <2>5, <3>1, <4>1 DEF PublisherOK
    <3>2. CASE q # p
      <4>1. pub'[q] = pub[q] /\ PublisherOK(q)
        BY <1>2, <2>1, <3>2
      <4>2. Len(log'[WorkspaceOf[q]]) >= Len(log[WorkspaceOf[q]])
            /\ Len(log'[WorkspaceOf[q]]) \in Nat
        BY <1>1, <2>1, <2>2
      <4> QED
        BY <1>1, <4>1, <4>2 DEF PublisherOK
    <3> QED
      BY <3>1, <3>2
  <2> QED
    BY <1>2, <2>1, <2>5, <2>6 DEF PublishersTyped
<1>7. ASSUME NEW p \in Publishers, Settles(p) PROVE PublishersTyped'
  <2>1. \A ws \in Workspaces :
           /\ [Idle EXCEPT !.pc = "control", !.lostWs = ws] \in PublisherStates
           /\ [Idle EXCEPT !.pc = "control", !.lostWs = ws].pc = "control"
           /\ [Idle EXCEPT !.pc = "control", !.lostWs = ws].lostWs = ws
    BY <1>3 DEF PublisherStates
  <2>2. PICK x \in PublisherStates : /\ pub' = [pub EXCEPT ![p] = x] /\ log' = log
                                     /\ \/ x.pc = "idle"
                                        \/ x.pc = "control" /\ x.lostWs \in Workspaces
    BY <1>3, <1>7, <2>1 DEF Settles, Idle
  <2> QED
    BY <1>2, <2>2 DEF PublishersTyped, PublisherOK
<1> QED
  BY <1>4, <1>5, <1>6, <1>7, PublishersStep

LEMMA QueueStep == ASSUME Types, [Next]_vars PROVE QueueTyped'
<1> USE LimitsAssumption, HubAssumption, NoneAssumption
<1>1. QueueTyped /\ Items = Events \cup Controls
  BY DEF Types, Items
<1>2. /\ HardLimit \in Nat /\ Len(queue) \in Nat /\ OutLimit \in Nat
      /\ \A i \in 1 .. Len(queue) : queue[i] \in Items
      /\ <<>> \in Feeds /\ Len(<<>>) = 0
  BY <1>1, EmptySeq DEF QueueTyped, Feeds
<1>3. ASSUME NEW p \in Publishers, Enqueue(p) PROVE QueueTyped'
  <2>1. pub[p].pc = "enqueue" /\ UNCHANGED <<subscribed, closed, run, held, out, received>>
    BY <1>3 DEF Enqueue, EnqueueClosed, EnqueueMerged, EnqueueSoftDropped,
                EnqueueHardDropped, EnqueueEvicting, EnqueueAppended
  <2>2. Carried(p) \in Events /\ Carried(p) \in Items
    BY <2>1, CarriedIsEvent DEF Items
  <2>3. CASE UNCHANGED <<queue, notify>>
    BY <1>1, <2>1, <2>3 DEF QueueTyped
  <2>4. CASE EnqueueMerged(p)
    <3>1. PICK i \in 1 .. Len(queue) : MergesAt(queue, Carried(p), i)
                                       /\ queue' = Merged(queue, Carried(p), i)
      BY <2>4 DEF EnqueueMerged
    <3>2. queue' \in Feeds /\ Len(queue') = Len(queue)
      BY <1>1, <2>2, <3>1, MergesIntoEvent, MergedIsFeed DEF QueueTyped
    <3> QED
      BY <1>1, <2>1, <2>4, <3>2 DEF EnqueueMerged, QueueTyped
  <2>5. CASE EnqueueEvicting(p)
    <3>1. PICK i \in 1 .. Len(queue) : queue' = Append(Without(queue, i), Carried(p))
      BY <2>5 DEF EnqueueEvicting
    <3>2. queue' \in Feeds /\ Len(queue') = Len(queue)
      BY <1>1, <2>2, <3>1, ReplacedIsFeed DEF QueueTyped
    <3> QED
      BY <1>1, <2>1, <2>5, <3>2 DEF EnqueueEvicting, WakeRun, QueueTyped
  <2>6. CASE EnqueueAppended(p)
    <3>1. queue' \in Feeds /\ Len(queue') = Len(queue) + 1 /\ Len(queue) < HardLimit
      BY <1>1, <2>2, <2>6, AppendedIsFeed DEF EnqueueAppended, Appends, QueueTyped
    <3> QED
      BY <1>1, <1>2, <2>1, <2>6, <3>1 DEF EnqueueAppended, WakeRun, QueueTyped
  <2> QED
    BY <1>3, <2>3, <2>4, <2>5, <2>6
    DEF Enqueue, EnqueueClosed, EnqueueSoftDropped, EnqueueHardDropped
<1>4. ASSUME NEW p \in Publishers, EnqueueControl(p) PROVE QueueTyped'
  <2>1. pub[p].pc = "control" /\ UNCHANGED <<subscribed, closed, run, held, out, received>>
    BY <1>4 DEF EnqueueControl, ControlSkipped, ControlAbsorbed, ControlAppended,
                ControlDisplacing
  <2> DEFINE c == DroppedControl(pub[p].lostWs, None)
  <2>2. c \in Items
    BY <2>1, ControlIsItem DEF Types, PublishersTyped, PublisherOK, Items
  <2> HIDE DEF c
  <2>3. CASE UNCHANGED <<queue, notify>>
    BY <1>1, <2>1, <2>3 DEF QueueTyped
  <2>4. CASE ControlAppended(p)
    <3>1. queue' = Append(queue, c) /\ Len(queue) < HardLimit
      BY <2>4 DEF ControlAppended, c
    <3>2. queue' \in Feeds /\ Len(queue') = Len(queue) + 1
      BY <1>1, <2>2, <3>1, AppendedIsFeed DEF QueueTyped
    <3> QED
      BY <1>1, <1>2, <2>1, <2>4, <3>1, <3>2 DEF ControlAppended, WakeRun, QueueTyped
  <2>5. CASE ControlDisplacing(p)
    <3>1. PICK i \in 1 .. Len(queue) : queue' = Append(Without(queue, i), c)
      BY <2>5 DEF ControlDisplacing, c
    <3>2. queue' \in Feeds /\ Len(queue') = Len(queue)
      BY <1>1, <2>2, <3>1, ReplacedIsFeed DEF QueueTyped
    <3> QED
      BY <1>1, <2>1, <2>5, <3>2 DEF ControlDisplacing, WakeRun, QueueTyped
  <2> QED
    BY <1>4, <2>3, <2>4, <2>5 DEF EnqueueControl, ControlSkipped, ControlAbsorbed
<1>5. CASE Subscribe
  BY <1>1, <1>5 DEF Subscribe, QueueTyped
<1>11. CASE Cancel
  <2>1. queue' = <<>> /\ closed' = TRUE /\ subscribed' = FALSE
        /\ UNCHANGED <<notify, run, held, out, received>>
    BY <1>11 DEF Cancel
  <2>2. queue' \in Feeds /\ Len(queue') <= HardLimit
    BY <1>2, <2>1
  <2> QED
    BY <1>1, <2>1, <2>2 DEF QueueTyped
<1>6. CASE RunPop
  <2>1. Head(queue) \in Items /\ Tail(queue) \in Feeds /\ Len(Tail(queue)) = Len(queue) - 1
    BY <1>1, <1>6, HeadTailProperties DEF RunPop, QueueTyped, Feeds
  <2> QED
    BY <1>1, <1>2, <1>6, <2>1 DEF RunPop, QueueTyped
<1>7. CASE RunSend
  <2>1. held \in Items
    BY <1>1, <1>7 DEF RunSend, QueueTyped
  <2>2. Append(out, held) \in Feeds /\ Len(Append(out, held)) = Len(out) + 1 /\ Len(out) \in Nat
    BY <1>1, <2>1, AppendedIsFeed DEF QueueTyped, Feeds
  <2> QED
    BY <1>1, <1>2, <1>7, <2>2 DEF RunSend, QueueTyped
<1>8. CASE Receive
  <2>1. /\ Head(out) \in Items /\ Tail(out) \in Feeds /\ Len(Tail(out)) = Len(out) - 1
        /\ Len(out) \in Nat
    BY <1>1, <1>8, HeadTailProperties DEF Receive, QueueTyped, Feeds
  <2>2. Append(received, Head(out)) \in Feeds
    BY <1>1, <2>1, AppendedIsFeed DEF QueueTyped
  <2> QED
    BY <1>1, <1>2, <1>8, <2>1, <2>2 DEF Receive, QueueTyped
<1>9. CASE RunWake
  BY <1>1, <1>9 DEF RunWake, QueueTyped
<1>12. CASE RunDrained
  BY <1>1, <1>12 DEF RunDrained, QueueTyped
<1>13. CASE RunExit
  BY <1>1, <1>13 DEF RunExit, QueueTyped
<1>10. CASE UNCHANGED <<subscribed, closed, queue, notify, run, held, out, received>>
  BY <1>1, <1>10 DEF QueueTyped
<1> QED
  BY <1>3, <1>4, <1>5, <1>6, <1>7, <1>8, <1>9, <1>10, <1>11, <1>12, <1>13
  DEF Next, vars, PublishStep, PublishBegin, PublishAppend, RunStep

LEMMA SeqsAreNumbers ==
    ASSUME NEW x \in Items
    PROVE  SeqsOf(x) \subseteq Workspaces \X (1 .. MaxSeq)
BY ItemTypes DEF SeqsOf

LEMMA HistoryStep == ASSUME Types, [Next]_vars PROVE HistoryTyped'
<1>1. HistoryTyped /\ \A i \in 1 .. Len(queue) : queue[i] \in Items
  BY DEF Types, QueueTyped, Feeds
<1>2. ASSUME NEW x \in Items, Lose(x) PROVE HistoryTyped'
  BY <1>1, <1>2, SeqsAreNumbers DEF Lose, HistoryTyped
<1>3. ASSUME NEW p \in Publishers, EnqueueSoftDropped(p) \/ EnqueueHardDropped(p)
      PROVE  HistoryTyped'
  BY <1>2, <1>3, CarriedIsEvent DEF EnqueueSoftDropped, EnqueueHardDropped, Items
<1>4. ASSUME NEW p \in Publishers, EnqueueEvicting(p) \/ ControlDisplacing(p)
      PROVE  HistoryTyped'
  BY <1>1, <1>2, <1>4 DEF EnqueueEvicting, ControlDisplacing
<1>5. CASE UNCHANGED lost /\ owed' \subseteq owed
  BY <1>1, <1>5 DEF HistoryTyped
<1> QED
  BY <1>3, <1>4, <1>5
  DEF Next, vars, PublishStep, PublishBegin, PublishAppend, Enqueue, EnqueueClosed,
      EnqueueMerged, EnqueueAppended, EnqueueControl, ControlSkipped, ControlAbsorbed,
      ControlAppended, Subscribe, Cancel, RunStep, RunWake, RunPop, RunDrained, RunSend,
      RunExit, Receive

LEMMA TypesInit == Init => Types
<1> SUFFICES ASSUME Init PROVE Types
  OBVIOUS
<1> USE LimitsAssumption, HubAssumption
<1>1. /\ <<>> \in Feeds /\ Len(<<>>) = 0 /\ <<>> \in Seq(Entries)
  BY EmptySeq DEF Feeds
<1>2. Idle \in PublisherStates /\ Idle.pc = "idle"
  BY DEF Idle, PublisherStates
<1>3. \A ws : Appending(ws) = {}
  BY <1>2 DEF Init, Appending
<1>4. LogTyped
  <2>1. log = [ws \in Workspaces |-> <<>>]
    BY DEF Init
  <2>2. Cardinality({}) = 0
    BY FS_EmptySet
  <2> QED
    <3>1. \A ws \in Workspaces : Len(log[ws]) = 0 /\ Cardinality(Appending(ws)) = 0
      BY <1>1, <1>3, <2>1, <2>2
    <3>2. log \in [Workspaces -> Seq(Entries)]
      BY <1>1, <2>1
    <3> QED
      BY <3>1, <3>2 DEF LogTyped, RoomLeft
<1>5. PublishersTyped
  BY <1>2 DEF Init, PublishersTyped, PublisherOK
<1>6. QueueTyped
  <2>1. /\ queue \in Feeds /\ out \in Feeds /\ received \in Feeds
        /\ Len(queue) <= HardLimit /\ Len(out) <= OutLimit /\ queue = <<>>
    BY <1>1 DEF Init
  <2> QED
    BY <2>1 DEF Init, QueueTyped
<1>7. HistoryTyped
  BY DEF Init, HistoryTyped
<1> QED
  BY <1>4, <1>5, <1>6, <1>7 DEF Types

LEMMA TypesStep == Types /\ [Next]_vars => Types'
BY LogStep, PublishersTypedStep, QueueStep, HistoryStep DEF Types

(***************************************************************************)
(* Every part of the hub has its type: the queue keeps to its hard limit   *)
(* although control events are forced in, the output channel to its size.  *)
(***************************************************************************)
THEOREM HubTyped == Spec => []TypeOK
<1>1. Types => TypeOK
  <2>1. Entries = [kind : SequencedKinds, stream : Publishers, targeted : BOOLEAN]
        /\ Items = Events \cup Controls
    BY DEF Entries, Items
  <2> QED
    BY <2>1 DEF Types, LogTyped, PublishersTyped, QueueTyped, HistoryTyped, TypeOK, Feeds
<1> QED
  BY <1>1, TypesInit, TypesStep, PTL DEF Spec
-----------------------------------------------------------------------------
(***************************************************************************)
(* The line of events (Pipeline), step by step                             *)
(***************************************************************************)
InHand == IF held = None THEN <<>> ELSE <<held>>

Front == received \o out \o InHand

LEMMA PipelineIsFeed ==
    ASSUME Types
    PROVE  /\ InHand \in Feeds /\ Front \in Feeds /\ Pipeline \in Feeds
           /\ Pipeline = Front \o queue
<1>1. received \in Feeds /\ out \in Feeds /\ queue \in Feeds /\ held \in Items \cup {None}
  BY DEF Types, QueueTyped
<1>2. <<>> \in Feeds /\ \A x \in Items : <<x>> \in Feeds
  BY DEF Feeds
<1>3. InHand \in Feeds
  BY <1>1, <1>2 DEF InHand
<1>4. Pipeline = Front \o queue
  BY DEF Pipeline, Front, InHand
<1>5. Front \in Feeds
  BY <1>1, <1>3, ConcatProperties DEF Front, Feeds
<1> QED
  BY <1>1, <1>3, <1>4, <1>5, ConcatProperties DEF Feeds

LineTyped == Pipeline \in Feeds

LEMMA LineIsTyped == Types => LineTyped
BY PipelineIsFeed DEF LineTyped

LEMMA LineStaysTyped == Types /\ [Next]_vars => LineTyped'
<1>1. Types' => LineTyped'
  BY LineIsTyped, PTL
<1> QED
  BY <1>1, TypesStep

LEMMA ConcatElements ==
    ASSUME NEW f \in Feeds, NEW q \in Feeds
    PROVE  /\ f \o q \in Feeds /\ Len(f) \in Nat /\ Len(q) \in Nat
           /\ Len(f \o q) = Len(f) + Len(q)
           /\ \A i \in 1 .. Len(f) : (f \o q)[i] = f[i]
           /\ \A i \in 1 .. Len(q) : (f \o q)[Len(f) + i] = q[i]
           /\ \A i \in 1 .. Len(f) + Len(q) :
                 (f \o q)[i] = IF i <= Len(f) THEN f[i] ELSE q[i - Len(f)]
<1>1. /\ f \o q \in Feeds /\ Len(f) \in Nat /\ Len(q) \in Nat
      /\ Len(f \o q) = Len(f) + Len(q)
      /\ \A i \in 1 .. Len(f) + Len(q) :
            (f \o q)[i] = IF i <= Len(f) THEN f[i] ELSE q[i - Len(f)]
  BY ConcatProperties DEF Feeds
<1> QED
  BY <1>1

LEMMA SameFeeds ==
    ASSUME NEW f \in Feeds, NEW g \in Feeds, Len(f) = Len(g),
           \A i \in 1 .. Len(f) : f[i] = g[i]
    PROVE  f = g
BY SeqEqual DEF Feeds

\* The elements of f \o q, said of a name for it.
Joins(g, f, q) ==
    /\ g \in Feeds /\ Len(g) = Len(f) + Len(q)
    /\ \A i \in 1 .. Len(f) : g[i] = f[i]
    /\ \A i \in 1 .. Len(q) : g[Len(f) + i] = q[i]

LEMMA ConcatJoins ==
    ASSUME NEW f \in Feeds, NEW q \in Feeds
    PROVE  Joins(f \o q, f, q) /\ Len(f) \in Nat /\ Len(q) \in Nat
BY ConcatElements DEF Joins

LEMMA JoinIsUnique ==
    ASSUME NEW f \in Feeds, NEW q \in Feeds, NEW g, NEW h, Joins(g, f, q), Joins(h, f, q)
    PROVE  g = h
<1>1. g \in Feeds /\ h \in Feeds /\ Len(g) = Len(h) /\ Len(f) \in Nat /\ Len(q) \in Nat
      /\ Len(g) = Len(f) + Len(q)
  BY DEF Joins, Feeds
<1>2. ASSUME NEW i \in 1 .. Len(g) PROVE g[i] = h[i]
  <2>1. CASE i <= Len(f)
    BY <1>1, <2>1 DEF Joins
  <2>2. CASE i > Len(f)
    <3>1. i - Len(f) \in 1 .. Len(q) /\ i = Len(f) + (i - Len(f))
      BY <1>1, <2>2
    <3>2. g[Len(f) + (i - Len(f))] = q[i - Len(f)] /\ h[Len(f) + (i - Len(f))] = q[i - Len(f)]
      BY <3>1 DEF Joins
    <3> QED
      BY <3>1, <3>2
  <2> QED
    BY <1>1, <2>1, <2>2
<1> QED
  BY <1>1, <1>2, SameFeeds

LEMMA ConcatAppended ==
    ASSUME NEW f \in Feeds, NEW q \in Feeds, NEW x \in Items
    PROVE  f \o Append(q, x) = Append(f \o q, x)
<1>1. PICK g : g = f \o q /\ Joins(g, f, q)
  BY ConcatJoins
<1>2. PICK a : /\ a = Append(q, x) /\ a \in Feeds /\ Len(a) = Len(q) + 1
               /\ \A j \in 1 .. Len(q) : a[j] = q[j]
               /\ a[Len(q) + 1] = x
  BY AppendedIsFeed
<1>3. PICK b : /\ b = Append(g, x) /\ b \in Feeds /\ Len(b) = Len(g) + 1
               /\ \A j \in 1 .. Len(g) : b[j] = g[j]
               /\ b[Len(g) + 1] = x
  <2>1. g \in Feeds
    BY <1>1 DEF Joins
  <2> QED
    BY <2>1, AppendedIsFeed
<1>4. Len(f) \in Nat /\ Len(q) \in Nat
  BY DEF Feeds
<1>5. Joins(b, f, a)
  <2>1. \A i \in 1 .. Len(f) : b[i] = f[i]
    BY <1>1, <1>3, <1>4 DEF Joins
  <2>2. \A i \in 1 .. Len(q) : b[Len(f) + i] = a[i]
    BY <1>1, <1>2, <1>3, <1>4 DEF Joins
  <2>3. b[Len(f) + (Len(q) + 1)] = a[Len(q) + 1]
    BY <1>1, <1>2, <1>3, <1>4 DEF Joins
  <2> QED
    <3>1. ASSUME NEW i \in 1 .. Len(a) PROVE b[Len(f) + i] = a[i]
      <4>1. i \in 1 .. Len(q) \/ i = Len(q) + 1
        BY <1>2, <1>4
      <4> QED
        BY <2>2, <2>3, <4>1
    <3>2. Len(b) = Len(f) + Len(a)
      BY <1>1, <1>2, <1>3, <1>4 DEF Joins
    <3> QED
      BY <1>3, <2>1, <3>1, <3>2 DEF Joins
<1> QED
  BY <1>1, <1>2, <1>3, <1>5, ConcatJoins, JoinIsUnique

LEMMA ConcatWithout ==
    ASSUME NEW f \in Feeds, NEW q \in Feeds, NEW i \in 1 .. Len(q)
    PROVE  f \o Without(q, i) = Without(f \o q, Len(f) + i) /\ (f \o q)[Len(f) + i] = q[i]
           /\ Len(f) + i \in 1 .. Len(f \o q)
<1>1. PICK g : g = f \o q /\ Joins(g, f, q)
  BY ConcatJoins
<1>2. Len(f) \in Nat /\ Len(q) \in Nat
  BY DEF Feeds
<1>3. Len(f) + i \in 1 .. Len(g) /\ g \in Feeds /\ Len(g) = Len(f) + Len(q) /\ g[Len(f) + i] = q[i]
  BY <1>1, <1>2 DEF Joins
<1>4. PICK a : /\ a = Without(q, i) /\ a \in Feeds /\ Len(a) = Len(q) - 1
               /\ \A j \in 1 .. Len(q) - 1 : a[j] = IF j < i THEN q[j] ELSE q[j + 1]
  BY WithoutIsFeed
<1>5. PICK b : /\ b = Without(g, Len(f) + i) /\ b \in Feeds /\ Len(b) = Len(g) - 1
               /\ \A j \in 1 .. Len(g) - 1 : b[j] = IF j < Len(f) + i THEN g[j] ELSE g[j + 1]
  BY <1>3, WithoutIsFeed
<1>6. \A j \in 1 .. Len(f) : b[j] = f[j]
  BY <1>1, <1>2, <1>3, <1>5 DEF Joins
<1>7. ASSUME NEW j \in 1 .. Len(q) - 1 PROVE b[Len(f) + j] = a[j]
  <2>1. /\ Len(f) + j \in 1 .. Len(g) - 1 /\ j \in 1 .. Len(q) /\ j + 1 \in 1 .. Len(q)
        /\ (Len(f) + j) + 1 = Len(f) + (j + 1) /\ (j < i <=> Len(f) + j < Len(f) + i)
    BY <1>2, <1>3
  <2>2. g[Len(f) + j] = q[j] /\ g[(Len(f) + j) + 1] = q[j + 1]
    BY <1>1, <2>1 DEF Joins
  <2> QED
    BY <1>4, <1>5, <2>1, <2>2
<1>8. Joins(b, f, a)
  BY <1>2, <1>3, <1>4, <1>5, <1>6, <1>7 DEF Joins
<1>9. Joins(f \o a, f, a)
  BY <1>4, ConcatJoins
<1>10. f \o a = b
  BY <1>4, <1>8, <1>9, JoinIsUnique
<1> QED
  BY <1>1, <1>3, <1>4, <1>5, <1>10

LEMMA ConcatMerged ==
    ASSUME NEW f \in Feeds, NEW q \in Feeds, NEW i \in 1 .. Len(q), NEW e \in Events,
           q[i] \in Events
    PROVE  f \o Merged(q, e, i) = Merged(f \o q, e, Len(f) + i)
           /\ (f \o q)[Len(f) + i] = q[i] /\ Len(f) + i \in 1 .. Len(f \o q)
<1>1. PICK g : g = f \o q /\ Joins(g, f, q)
  BY ConcatJoins
<1>2. Len(f) \in Nat /\ Len(q) \in Nat
  BY DEF Feeds
<1>3. Len(f) + i \in 1 .. Len(g) /\ g \in Feeds /\ Len(g) = Len(f) + Len(q) /\ g[Len(f) + i] = q[i]
  BY <1>1, <1>2 DEF Joins
<1>4. PICK a : /\ a = Merged(q, e, i) /\ a \in Feeds /\ Len(a) = Len(q)
               /\ \A j \in 1 .. Len(q) : j # i => a[j] = q[j]
               /\ a[i] = [q[i] EXCEPT !.to = e.to]
  BY MergedIsFeed
<1>5. PICK b : /\ b = Merged(g, e, Len(f) + i) /\ b \in Feeds /\ Len(b) = Len(g)
               /\ \A j \in 1 .. Len(g) : j # Len(f) + i => b[j] = g[j]
               /\ b[Len(f) + i] = [g[Len(f) + i] EXCEPT !.to = e.to]
  <2>1. PICK k \in 1 .. Len(g) : k = Len(f) + i
    BY <1>3
  <2>2. g[k] \in Events
    BY <1>3, <2>1
  <2> QED
    BY <1>3, <2>1, <2>2, MergedIsFeed
<1>6. \A j \in 1 .. Len(f) : b[j] = f[j]
  BY <1>1, <1>2, <1>3, <1>5 DEF Joins
<1>7. ASSUME NEW j \in 1 .. Len(q) PROVE b[Len(f) + j] = a[j]
  <2>1. Len(f) + j \in 1 .. Len(g) /\ (j = i <=> Len(f) + j = Len(f) + i)
    BY <1>2, <1>3
  <2>2. g[Len(f) + j] = q[j]
    BY <1>1 DEF Joins
  <2> QED
    BY <1>3, <1>4, <1>5, <2>1, <2>2
<1>8. Joins(b, f, a)
  BY <1>2, <1>3, <1>4, <1>5, <1>6, <1>7 DEF Joins
<1>9. Joins(f \o a, f, a)
  BY <1>4, ConcatJoins
<1>10. f \o a = b
  BY <1>4, <1>8, <1>9, JoinIsUnique
<1> QED
  BY <1>1, <1>3, <1>4, <1>5, <1>10

LEMMA HeadFirst ==
    ASSUME NEW q \in Feeds, q # <<>>
    PROVE  /\ Head(q) \in Items /\ Tail(q) \in Feeds /\ <<Head(q)>> \in Feeds
           /\ <<Head(q)>> \o Tail(q) = q
<1>1. /\ Head(q) \in Items /\ Tail(q) \in Feeds /\ Len(Tail(q)) = Len(q) - 1
      /\ \A i \in 1 .. Len(Tail(q)) : Tail(q)[i] = q[i + 1]
  BY HeadTailProperties DEF Feeds
<1>2. PICK h, t : /\ h = Head(q) /\ t = Tail(q) /\ h = q[1] /\ t \in Feeds
                  /\ Len(t) = Len(q) - 1 /\ \A i \in 1 .. Len(t) : t[i] = q[i + 1]
  <2>1. Head(q) = q[1]
    BY DEF Feeds
  <2> DEFINE h == Head(q)
             t == Tail(q)
  <2>2. h = q[1] /\ t \in Feeds /\ Len(t) = Len(q) - 1 /\ \A i \in 1 .. Len(t) : t[i] = q[i + 1]
    BY <1>1, <2>1
  <2> QED
    BY <2>2
<1>3. <<h>> \in Feeds /\ Len(<<h>>) = 1 /\ <<h>>[1] = h
  BY <1>1, <1>2 DEF Feeds
<1>4. Len(q) \in Nat /\ Len(q) >= 1
  BY DEF Feeds
<1>5. Joins(q, <<h>>, t)
  BY <1>2, <1>3, <1>4 DEF Joins
<1>6. Joins(<<h>> \o t, <<h>>, t)
  BY <1>2, <1>3, ConcatJoins
<1> QED
  BY <1>1, <1>2, <1>3, <1>5, <1>6, JoinIsUnique

\* Concatenation under a name of its own: nested, it can be reasoned about.
Cat(f, q) == f \o q

LEMMA CatAssociates ==
    ASSUME NEW f \in Feeds, NEW q \in Feeds, NEW h \in Feeds
    PROVE  Cat(f, Cat(q, h)) = Cat(Cat(f, q), h)
<1>1. PICK a : a = Cat(f, q) /\ Joins(a, f, q)
  BY ConcatJoins DEF Cat
<1>2. PICK b : b = Cat(q, h) /\ Joins(b, q, h)
  BY ConcatJoins DEF Cat
<1>3. PICK c : c = Cat(f, b) /\ Joins(c, f, b)
  <2>1. b \in Feeds
    BY <1>2 DEF Joins
  <2> QED
    BY <2>1, ConcatJoins DEF Cat
<1>4. /\ Len(f) \in Nat /\ Len(q) \in Nat /\ Len(h) \in Nat
      /\ a \in Feeds /\ b \in Feeds /\ c \in Feeds
      /\ Len(a) = Len(f) + Len(q) /\ Len(b) = Len(q) + Len(h) /\ Len(c) = Len(f) + Len(b)
  BY <1>1, <1>2, <1>3 DEF Joins, Feeds
<1>5. ASSUME NEW i \in 1 .. Len(a) PROVE c[i] = a[i]
  <2>1. CASE i <= Len(f)
    BY <1>1, <1>3, <1>4, <2>1 DEF Joins
  <2>2. CASE i > Len(f)
    <3>1. PICK j \in 1 .. Len(q) : i = Len(f) + j
      <4>1. i - Len(f) \in 1 .. Len(q) /\ i = Len(f) + (i - Len(f))
        BY <1>4, <2>2
      <4> QED
        BY <4>1
    <3>2. j \in 1 .. Len(b)
      BY <1>4
    <3>3. c[Len(f) + j] = b[j] /\ b[j] = q[j] /\ a[Len(f) + j] = q[j]
      BY <1>1, <1>2, <1>3, <3>2 DEF Joins
    <3> QED
      BY <3>1, <3>3
  <2> QED
    BY <1>4, <2>1, <2>2
<1>6. ASSUME NEW i \in 1 .. Len(h) PROVE c[Len(a) + i] = h[i]
  <2>1. Len(q) + i \in 1 .. Len(b) /\ Len(a) + i = Len(f) + (Len(q) + i)
    BY <1>4
  <2>2. c[Len(f) + (Len(q) + i)] = b[Len(q) + i] /\ b[Len(q) + i] = h[i]
    BY <1>2, <1>3, <2>1 DEF Joins
  <2> QED
    BY <2>1, <2>2
<1>7. Joins(c, a, h)
  BY <1>4, <1>5, <1>6 DEF Joins
<1>8. Joins(Cat(a, h), a, h)
  BY <1>4, ConcatJoins DEF Cat
<1> QED
  BY <1>1, <1>2, <1>3, <1>4, <1>7, <1>8, JoinIsUnique

LEMMA CatTypes ==
    ASSUME NEW f \in Feeds
    PROVE  /\ Cat(f, <<>>) = f
           /\ \A q \in Feeds : Cat(f, q) \in Feeds
           /\ \A x \in Items : Append(f, x) = Cat(f, <<x>>) /\ <<x>> \in Feeds
BY ConcatEmptySeq, ConcatElements, AppendIsConcat DEF Feeds, Cat

\* run and the consumer only move events along the line.
LEMMA MovingOnStays == ASSUME Types, RunPop \/ RunSend \/ Receive PROVE Pipeline' = Pipeline
<1>1. received \in Feeds /\ out \in Feeds /\ queue \in Feeds /\ InHand \in Feeds
  BY PipelineIsFeed DEF Types, QueueTyped
<1>2. /\ Pipeline = Cat(Cat(Cat(received, out), InHand), queue)
      /\ Pipeline' = Cat(Cat(Cat(received', out'), InHand'), queue')
  BY DEF Pipeline, InHand, Cat
<1>3. PICK R \in Feeds : R = Cat(received, out)
  BY <1>1, CatTypes
<1>4. \A x \in Items : x # None
  BY NoneAssumption DEF Items
<1>5. CASE RunPop
  <2>1. /\ held = None /\ queue # <<>> /\ queue' = Tail(queue) /\ received' = received
        /\ out' = out /\ held' = Head(queue)
    BY <1>5 DEF RunPop, Types, QueueTyped
  <2>2. /\ Head(queue) \in Items /\ Tail(queue) \in Feeds /\ <<Head(queue)>> \in Feeds
        /\ Cat(<<Head(queue)>>, Tail(queue)) = queue
    BY <1>1, <2>1, HeadFirst DEF Cat
  <2>3. InHand = <<>> /\ InHand' = <<Head(queue)>>
    BY <1>4, <2>1, <2>2 DEF InHand
  <2>4. Pipeline = Cat(R, queue)
    BY <1>2, <1>3, <2>3, CatTypes
  <2>5. Pipeline' = Cat(Cat(R, <<Head(queue)>>), Tail(queue))
    BY <1>2, <1>3, <2>1, <2>3
  <2> QED
    BY <2>2, <2>4, <2>5, CatAssociates
<1>6. CASE RunSend
  <2>1. /\ held # None /\ held \in Items /\ out' = Append(out, held) /\ held' = None
        /\ received' = received /\ queue' = queue
    BY <1>6 DEF RunSend, Types, QueueTyped
  <2>2. InHand = <<held>> /\ InHand' = <<>> /\ out' = Cat(out, <<held>>) /\ <<held>> \in Feeds
    BY <1>1, <2>1, CatTypes DEF InHand
  <2>3. Cat(received, out') = Cat(R, <<held>>)
    BY <1>1, <1>3, <2>2, CatAssociates
  <2>4. Cat(Cat(R, <<held>>), <<>>) = Cat(R, <<held>>)
    BY <2>2, CatTypes
  <2> QED
    BY <1>2, <1>3, <2>1, <2>2, <2>3, <2>4
<1>7. CASE Receive
  <2>1. /\ out # <<>> /\ received' = Append(received, Head(out)) /\ out' = Tail(out)
        /\ held' = held /\ queue' = queue
    BY <1>7 DEF Receive
  <2>2. /\ Head(out) \in Items /\ Tail(out) \in Feeds /\ <<Head(out)>> \in Feeds
        /\ Cat(<<Head(out)>>, Tail(out)) = out
    BY <1>1, <2>1, HeadFirst DEF Cat
  <2>3. received' = Cat(received, <<Head(out)>>)
    BY <1>1, <2>1, <2>2, CatTypes
  <2>4. Cat(received', out') = Cat(received, out)
    <3>1. PICK x, t : x = <<Head(out)>> /\ t = Tail(out)
      OBVIOUS
    <3>2. Cat(Cat(received, x), t) = Cat(received, Cat(x, t))
      BY <1>1, <2>2, <3>1, CatAssociates
    <3> QED
      BY <2>1, <2>2, <2>3, <3>1, <3>2
  <2> QED
    BY <1>2, <2>1, <2>4 DEF InHand
<1> QED
  BY <1>5, <1>6, <1>7

\* The end of the subscription cuts the line short.
IsCut ==
    /\ Len(Pipeline') <= Len(Pipeline)
    /\ \A i \in 1 .. Len(Pipeline') : Pipeline'[i] = Pipeline[i]

LEMMA ConcatIsLonger ==
    ASSUME NEW f \in Feeds, NEW q \in Feeds
    PROVE  Len(f) <= Len(f \o q) /\ \A i \in 1 .. Len(f) : f[i] = (f \o q)[i]
BY ConcatElements

LEMMA EndingCuts ==
    ASSUME Types, Cancel \/ RunExit
    PROVE  IsCut /\ closed' /\ UNCHANGED <<log, pub, lost, owed>>
<1>1. received \in Feeds /\ out \in Feeds /\ queue \in Feeds /\ <<>> \in Feeds
  BY DEF Types, QueueTyped, Feeds
<1>2. \A f \in Feeds : f \o <<>> = f
  BY ConcatEmptySeq DEF Feeds
<1>3. Front \in Feeds /\ InHand \in Feeds /\ Pipeline = Front \o queue
  BY PipelineIsFeed
<1>4. PICK R \in Feeds : R = received \o out
  BY <1>1, ConcatElements
<1>5. CASE Cancel
  <2>1. queue' = <<>> /\ Front' = Front /\ closed' /\ UNCHANGED <<log, pub, lost, owed>>
    BY <1>5 DEF Cancel, Front, InHand
  <2>2. Pipeline' = Front' \o queue'
    BY DEF Pipeline, Front, InHand
  <2>3. Pipeline' = Front
    BY <1>2, <1>3, <2>1, <2>2
  <2> QED
    BY <1>1, <1>3, <2>1, <2>3, ConcatIsLonger DEF IsCut
<1>6. CASE RunExit
  <2>1. /\ queue = <<>> /\ queue' = queue /\ received' = received /\ out' = out /\ held' = None
        /\ closed' /\ UNCHANGED <<log, pub, lost, owed>>
    BY <1>6 DEF RunExit, Types, QueueTyped
  <2>2. Pipeline = R \o InHand
    BY <1>2, <1>3, <1>4, <2>1 DEF Front
  <2>3. Pipeline' = R
    BY <1>1, <1>2, <1>4, <2>1 DEF Pipeline
  <2> QED
    BY <1>3, <2>1, <2>2, <2>3, ConcatIsLonger DEF IsCut
<1> QED
  BY <1>5, <1>6

(***************************************************************************)
(* What a publisher can do to the line.                                    *)
(***************************************************************************)
Extends(x) == Pipeline' = Append(Pipeline, x) /\ lost' = lost /\ owed' = owed

Replaces(k, x) ==
    /\ k \in 1 .. Len(Pipeline)
    /\ Pipeline' = Append(Without(Pipeline, k), x)
    /\ Lose(Pipeline[k])

Takes(k, e) ==
    /\ k \in 1 .. Len(Pipeline)
    /\ Pipeline[k] \in Events /\ Pipeline[k].kind = e.kind /\ Pipeline[k].ws = e.ws
    /\ Pipeline[k].stream = e.stream /\ e.from = Pipeline[k].to + 1
    /\ Pipeline' = Merged(Pipeline, e, k)
    /\ lost' = lost /\ owed' = owed

LEMMA FrontKept ==
    ASSUME Types, UNCHANGED <<received, out, held>>
    PROVE  Front \in Feeds /\ queue \in Feeds /\ Pipeline = Front \o queue
           /\ Pipeline' = Front \o queue'
<1>1. Front' = Front
  BY DEF Front, InHand
<1>2. Pipeline' = Front' \o queue'
  BY DEF Pipeline, Front, InHand
<1> QED
  BY <1>1, <1>2, PipelineIsFeed DEF Types, QueueTyped

LEMMA EnqueueOnLine ==
    ASSUME Types, NEW p \in Publishers, Enqueue(p)
    PROVE  /\ pub[p].pc = "enqueue" /\ closed' = closed
           /\ \/ closed /\ Pipeline' = Pipeline
              \/ Pipeline' = Pipeline /\ Lose(Carried(p))
              \/ Extends(Carried(p))
              \/ \E k : Replaces(k, Carried(p))
              \/ \E k : Takes(k, Carried(p))
<1>1. pub[p].pc = "enqueue" /\ UNCHANGED <<closed, held, out, received>>
  BY DEF Enqueue, EnqueueClosed, EnqueueMerged, EnqueueSoftDropped, EnqueueHardDropped,
         EnqueueEvicting, EnqueueAppended
<1>2. /\ Front \in Feeds /\ queue \in Feeds /\ Pipeline = Front \o queue
      /\ Pipeline' = Front \o queue' /\ Carried(p) \in Events /\ Carried(p) \in Items
  BY <1>1, FrontKept, CarriedIsEvent DEF Items
<1> DEFINE e == Carried(p)
<1> HIDE DEF e
<1>3. CASE EnqueueClosed(p) \/ EnqueueSoftDropped(p) \/ EnqueueHardDropped(p)
  <2>1. queue' = queue /\ (closed \/ Lose(e))
    BY <1>3 DEF EnqueueClosed, EnqueueSoftDropped, EnqueueHardDropped, e
  <2> QED
    BY <1>1, <1>2, <2>1 DEF e
<1>4. CASE EnqueueMerged(p)
  <2>1. PICK i \in 1 .. Len(queue) : MergesAt(queue, e, i) /\ queue' = Merged(queue, e, i)
    BY <1>4 DEF EnqueueMerged, e
  <2>2. /\ queue[i] \in Events /\ queue[i].kind = e.kind /\ queue[i].ws = e.ws
        /\ queue[i].stream = e.stream /\ e.from = queue[i].to + 1
    BY <1>2, <2>1, MergesIntoEvent DEF e
  <2>3. PICK k : /\ k = Len(Front) + i /\ k \in 1 .. Len(Pipeline) /\ Pipeline[k] = queue[i]
                 /\ Pipeline' = Merged(Pipeline, e, k)
    <3>1. e \in Events
      BY <1>2 DEF e
    <3>2. Front \o Merged(queue, e, i) = Merged(Front \o queue, e, Len(Front) + i)
          /\ (Front \o queue)[Len(Front) + i] = queue[i]
          /\ Len(Front) + i \in 1 .. Len(Front \o queue)
      BY <1>2, <2>2, <3>1, ConcatMerged
    <3> QED
      BY <1>2, <2>1, <3>2
  <2> QED
    BY <1>1, <1>4, <2>2, <2>3 DEF EnqueueMerged, Takes, e
<1>5. CASE EnqueueEvicting(p)
  <2>1. PICK i \in 1 .. Len(queue) : queue' = Append(Without(queue, i), e) /\ Lose(queue[i])
    BY <1>5 DEF EnqueueEvicting, e
  <2>2. /\ Pipeline[Len(Front) + i] = queue[i]
        /\ Len(Front) + i \in 1 .. Len(Pipeline)
        /\ Pipeline' = Append(Without(Pipeline, Len(Front) + i), e)
    BY <1>2, <2>1, ConcatWithout, WithoutIsFeed, ConcatAppended DEF e
  <2> QED
    BY <1>1, <2>1, <2>2 DEF Replaces, e
<1>6. CASE EnqueueAppended(p)
  BY <1>1, <1>2, <1>6, ConcatAppended DEF EnqueueAppended, Extends, e
<1> QED
  BY <1>3, <1>4, <1>5, <1>6 DEF Enqueue

LEMMA ControlOnLine ==
    ASSUME Types, NEW p \in Publishers, EnqueueControl(p)
    PROVE  /\ pub[p].pc = "control" /\ closed' = closed
           /\ \/ Pipeline' = Pipeline /\ lost' = lost /\ owed' = owed
              \/ \E c \in Controls : Extends(c) \/ \E k : Replaces(k, c)
<1>1. pub[p].pc = "control" /\ UNCHANGED <<closed, held, out, received>>
  BY DEF EnqueueControl, ControlSkipped, ControlAbsorbed, ControlAppended, ControlDisplacing
<1>2. /\ Front \in Feeds /\ queue \in Feeds /\ Pipeline = Front \o queue
      /\ Pipeline' = Front \o queue'
  BY <1>1, FrontKept
<1>3. PICK c \in Controls : c = DroppedControl(pub[p].lostWs, None)
  BY <1>1, ControlIsItem DEF Types, PublishersTyped, PublisherOK
<1>4. c \in Items
  BY DEF Items
<1>5. CASE ControlSkipped(p) \/ ControlAbsorbed(p)
  <2>1. queue' = queue /\ lost' = lost /\ owed' = owed
    BY <1>5 DEF ControlSkipped, ControlAbsorbed
  <2> QED
    BY <1>1, <1>2, <2>1
<1>6. CASE ControlAppended(p)
  BY <1>1, <1>2, <1>3, <1>4, <1>6, ConcatAppended DEF ControlAppended, Extends
<1>7. CASE ControlDisplacing(p)
  <2>1. PICK i \in 1 .. Len(queue) : queue' = Append(Without(queue, i), c) /\ Lose(queue[i])
    BY <1>3, <1>7 DEF ControlDisplacing
  <2>2. /\ Pipeline[Len(Front) + i] = queue[i]
        /\ Len(Front) + i \in 1 .. Len(Pipeline)
        /\ Pipeline' = Append(Without(Pipeline, Len(Front) + i), c)
    BY <1>2, <1>4, <2>1, ConcatWithout, WithoutIsFeed, ConcatAppended
  <2> QED
    BY <1>1, <2>1, <2>2 DEF Replaces
<1> QED
  BY <1>5, <1>6, <1>7 DEF EnqueueControl

LEMMA StepsOnLine ==
    ASSUME Types, [Next]_vars
    PROVE  \/ \E p \in Publishers : \E kind \in PublishedKinds : PublishBegin(p, kind)
           \/ \E p \in Publishers : PublishAppend(p) \/ Enqueue(p) \/ EnqueueControl(p)
           \/ Cancel \/ RunExit
           \/ Pipeline' = Pipeline /\ UNCHANGED <<log, pub, closed, lost>>
<1>1. CASE RunPop \/ RunSend \/ Receive
  BY <1>1, MovingOnStays DEF RunPop, RunSend, Receive
<1>2. CASE Subscribe \/ RunWake \/ RunDrained \/ UNCHANGED vars
  <2>1. UNCHANGED <<received, out, held, queue, log, pub, closed, lost>>
    BY <1>2 DEF Subscribe, RunWake, RunDrained, vars
  <2> QED
    BY <2>1 DEF Pipeline
<1> QED
  BY <1>1, <1>2 DEF Next, PublishStep, RunStep

LEMMA PublishingLeavesLine ==
    ASSUME NEW p \in Publishers,
           PublishAppend(p) \/ \E kind \in PublishedKinds : PublishBegin(p, kind)
    PROVE  Pipeline' = Pipeline /\ lost' = lost /\ closed' = closed
<1>1. UNCHANGED <<received, out, held, queue, lost, closed>>
  BY DEF PublishAppend, PublishBegin
<1> QED
  BY <1>1 DEF Pipeline
-----------------------------------------------------------------------------
(***************************************************************************)
(* Coverage and order along the line                                       *)
(***************************************************************************)
Sequenced(x) == x.kind # "dropped"

\* Every number x covers was published with its kind on its stream; l is the
\* log, pb the publishers' states.
ExactItem(x, l) ==
    Sequenced(x) =>
        /\ x.ws = WorkspaceOf[x.stream]
        /\ x.from <= x.to /\ x.to <= Len(l[x.ws])
        /\ \A n \in x.from .. x.to : l[x.ws][n].kind = x.kind /\ l[x.ws][n].stream = x.stream

Exact(L, l) == \A i \in 1 .. Len(L) : ExactItem(L[i], l)

Ordered(L) ==
    \A i, j \in 1 .. Len(L) :
        (i < j /\ L[i].stream = L[j].stream /\ Sequenced(L[i]) /\ Sequenced(L[j]))
        => L[i].to < L[j].from

Behind(L, pb) ==
    \A p \in Publishers : pb[p].pc = "enqueue" =>
        \A i \in 1 .. Len(L) : (Sequenced(L[i]) /\ L[i].stream = p) => L[i].to < pb[p].n

LineOK(L, l, pb) == Exact(L, l) /\ Ordered(L) /\ Behind(L, pb)

\* What a publisher carries is in the log under its number.
CarriesOwn(l, pb) ==
    \A p \in Publishers : pb[p].pc = "enqueue" =>
        /\ l[WorkspaceOf[p]][pb[p].n].kind = pb[p].kind
        /\ l[WorkspaceOf[p]][pb[p].n].stream = p

\* K is what is left of L.
Within(K, L) ==
    \E m \in [1 .. Len(K) -> 1 .. Len(L)] :
        /\ \A i \in 1 .. Len(K) : K[i] = L[m[i]]
        /\ \A i, j \in 1 .. Len(K) : i < j => m[i] < m[j]

LEMMA WithoutIsWithin ==
    ASSUME NEW L \in Feeds, NEW k \in 1 .. Len(L)
    PROVE  Within(Without(L, k), L)
<1> DEFINE K == Without(L, k)
<1>1. Len(K) = Len(L) - 1 /\ Len(L) \in Nat
      /\ \A j \in 1 .. Len(L) - 1 : K[j] = IF j < k THEN L[j] ELSE L[j + 1]
  BY WithoutIsFeed DEF Feeds
<1> HIDE DEF K
<1> DEFINE m == [j \in 1 .. Len(K) |-> IF j < k THEN j ELSE j + 1]
<1>2. m \in [1 .. Len(K) -> 1 .. Len(L)]
  BY <1>1
<1>3. \A i \in 1 .. Len(K) : K[i] = L[m[i]]
  BY <1>1
<1>4. \A i, j \in 1 .. Len(K) : i < j => m[i] < m[j]
  BY <1>1
<1> QED
  BY <1>2, <1>3, <1>4 DEF Within, K

LEMMA PrefixIsWithin ==
    ASSUME NEW L \in Feeds, NEW K \in Feeds, Len(K) <= Len(L),
           \A i \in 1 .. Len(K) : K[i] = L[i]
    PROVE  Within(K, L)
<1>1. Len(K) \in Nat /\ Len(L) \in Nat
  BY DEF Feeds
<1> DEFINE m == [j \in 1 .. Len(K) |-> j]
<1>2. m \in [1 .. Len(K) -> 1 .. Len(L)]
  BY <1>1
<1>3. (\A i \in 1 .. Len(K) : K[i] = L[m[i]]) /\ \A i, j \in 1 .. Len(K) : i < j => m[i] < m[j]
  OBVIOUS
<1> QED
  BY <1>2, <1>3 DEF Within

LEMMA WithinKeeps ==
    ASSUME NEW L \in Feeds, NEW K \in Feeds, NEW l, NEW pb, Within(K, L), LineOK(L, l, pb)
    PROVE  LineOK(K, l, pb)
<1>1. PICK m \in [1 .. Len(K) -> 1 .. Len(L)] :
              /\ \A i \in 1 .. Len(K) : K[i] = L[m[i]]
              /\ \A i, j \in 1 .. Len(K) : i < j => m[i] < m[j]
  BY DEF Within
<1>2. Exact(K, l)
  BY <1>1 DEF LineOK, Exact
<1>3. Ordered(K)
  <2> SUFFICES ASSUME NEW i \in 1 .. Len(K), NEW j \in 1 .. Len(K), i < j,
                      K[i].stream = K[j].stream, Sequenced(K[i]), Sequenced(K[j])
               PROVE  K[i].to < K[j].from
    BY DEF Ordered
  <2>1. PICK a \in 1 .. Len(L), b \in 1 .. Len(L) : a = m[i] /\ b = m[j]
    OBVIOUS
  <2>2. a < b /\ K[i] = L[a] /\ K[j] = L[b]
    BY <1>1, <2>1
  <2> QED
    BY <2>2 DEF LineOK, Ordered
<1>4. Behind(K, pb)
  BY <1>1 DEF LineOK, Behind
<1> QED
  BY <1>2, <1>3, <1>4 DEF LineOK

\* x may go to the end of the line.
LastInLine(x, L, l) ==
    /\ ExactItem(x, l)
    /\ Sequenced(x) =>
          \A i \in 1 .. Len(L) : (Sequenced(L[i]) /\ L[i].stream = x.stream) => L[i].to < x.from

\* The publisher of x is done with it.
Settled(x, pb) ==
    Sequenced(x) => pb[x.stream].pc # "enqueue"

LEMMA AppendKeeps ==
    ASSUME NEW L \in Feeds, NEW x \in Items, NEW l, NEW pb, LineOK(L, l, pb),
           LastInLine(x, L, l), Settled(x, pb)
    PROVE  LineOK(Append(L, x), l, pb)
<1>1. PICK M \in Feeds : /\ M = Append(L, x) /\ Len(M) = Len(L) + 1
                         /\ \A j \in 1 .. Len(L) : M[j] = L[j]
                         /\ M[Len(L) + 1] = x
  BY AppendedIsFeed
<1>2. Len(L) \in Nat /\ \A i \in 1 .. Len(M) : i \in 1 .. Len(L) \/ i = Len(L) + 1
  BY <1>1 DEF Feeds
<1>3. Exact(M, l)
  BY <1>1, <1>2 DEF LineOK, Exact, LastInLine
<1>4. Ordered(M)
  <2> SUFFICES ASSUME NEW i \in 1 .. Len(M), NEW j \in 1 .. Len(M), i < j,
                      M[i].stream = M[j].stream, Sequenced(M[i]), Sequenced(M[j])
               PROVE  M[i].to < M[j].from
    BY DEF Ordered
  <2>1. i \in 1 .. Len(L)
    BY <1>1, <1>2
  <2>2. CASE j \in 1 .. Len(L)
    BY <1>1, <2>1, <2>2 DEF LineOK, Ordered
  <2>3. CASE j = Len(L) + 1
    BY <1>1, <2>1, <2>3 DEF LastInLine
  <2> QED
    BY <1>2, <2>2, <2>3
<1>5. Behind(M, pb)
  BY <1>1, <1>2 DEF LineOK, Behind, Settled
<1> QED
  BY <1>1, <1>3, <1>4, <1>5 DEF LineOK

\* An event joined by the next of its stream.
LEMMA MergeKeeps ==
    ASSUME NEW L \in Feeds, NEW k \in 1 .. Len(L), NEW e \in Events, NEW l, NEW pb,
           L[k] \in Events, L[k].kind = e.kind, L[k].ws = e.ws, L[k].stream = e.stream,
           e.from = L[k].to + 1, e.to = e.from,
           LineOK(L, l, pb), LastInLine(e, L, l), Settled(e, pb)
    PROVE  LineOK(Merged(L, e, k), l, pb)
<1>1. PICK M \in Feeds : /\ M = Merged(L, e, k) /\ Len(M) = Len(L)
                         /\ \A j \in 1 .. Len(L) : j # k => M[j] = L[j]
                         /\ M[k] = [L[k] EXCEPT !.to = e.to]
  BY MergedIsFeed
<1>2. /\ M[k].kind = L[k].kind /\ M[k].ws = L[k].ws /\ M[k].stream = L[k].stream
      /\ M[k].from = L[k].from /\ M[k].to = L[k].to + 1 /\ M[k].to = e.to
      /\ Sequenced(L[k]) /\ Sequenced(e) /\ L[k].to \in Nat /\ L[k].from \in Nat
  <2>1. L[k].to \in Nat /\ L[k].from \in Nat
    BY ItemTypes DEF Items
  <2>2. Sequenced(L[k]) /\ Sequenced(e)
    BY DEF Events, SequencedKinds, Sequenced
  <2>3. /\ M[k].kind = L[k].kind /\ M[k].ws = L[k].ws /\ M[k].stream = L[k].stream
        /\ M[k].from = L[k].from /\ M[k].to = e.to
    BY <1>1 DEF Events
  <2> QED
    BY <2>1, <2>2, <2>3
<1>3. Exact(M, l)
  <2>1. ExactItem(L[k], l) /\ ExactItem(e, l)
    BY DEF LineOK, Exact, LastInLine
  <2>2. ExactItem(M[k], l)
    <3>1. \A n \in M[k].from .. M[k].to : n \in L[k].from .. L[k].to \/ n \in e.from .. e.to
      BY <1>2
    <3>2. L[k].from <= M[k].to
      BY <1>2, <2>1 DEF ExactItem
    <3> QED
      BY <1>2, <2>1, <3>1, <3>2 DEF ExactItem, Sequenced
  <2> QED
    BY <1>1, <2>2 DEF LineOK, Exact
<1>4. Ordered(M)
  <2> SUFFICES ASSUME NEW i \in 1 .. Len(M), NEW j \in 1 .. Len(M), i < j,
                      M[i].stream = M[j].stream, Sequenced(M[i]), Sequenced(M[j])
               PROVE  M[i].to < M[j].from
    BY DEF Ordered
  <2>1. L[i].stream = L[j].stream /\ Sequenced(L[i]) /\ Sequenced(L[j]) /\ M[j].from = L[j].from
    BY <1>1, <1>2 DEF Sequenced
  <2>2. L[i].to < L[j].from
    BY <1>1, <2>1 DEF LineOK, Ordered
  <2>3. CASE i # k
    BY <1>1, <2>1, <2>2, <2>3
  <2>4. CASE i = k
    <3>1. L[j].to < e.from
      BY <1>1, <1>2, <2>1, <2>4 DEF LastInLine
    <3>2. L[j].from <= L[j].to
      BY <1>1, <2>1 DEF LineOK, Exact, ExactItem
    <3>3. L[j].from \in Nat /\ L[j].to \in Nat
      BY <1>1, <2>1, ItemTypes DEF Feeds, Sequenced, Items
    <3> QED
      BY <1>2, <2>2, <2>4, <3>1, <3>2, <3>3
  <2> QED
    BY <2>3, <2>4
<1>5. Behind(M, pb)
  <2> SUFFICES ASSUME NEW p \in Publishers, pb[p].pc = "enqueue",
                      NEW i \in 1 .. Len(M), Sequenced(M[i]), M[i].stream = p
               PROVE  M[i].to < pb[p].n
    BY DEF Behind
  <2>1. i # k
    BY <1>2 DEF Settled
  <2> QED
    BY <1>1, <2>1 DEF LineOK, Behind
<1> QED
  BY <1>1, <1>3, <1>4, <1>5 DEF LineOK

LEMMA WithinLast ==
    ASSUME NEW L \in Feeds, NEW K \in Feeds, Within(K, L), NEW x, NEW l, LastInLine(x, L, l)
    PROVE  LastInLine(x, K, l)
BY DEF Within, LastInLine

\* Publishers go on without reaching the queue.
LEMMA PublishersKeep ==
    ASSUME NEW L, NEW l, NEW pb, NEW pc, LineOK(L, l, pb),
           \A p \in Publishers : pc[p].pc = "enqueue" =>
                pb[p].pc = "enqueue" /\ pc[p].n = pb[p].n
    PROVE  LineOK(L, l, pc)
BY DEF LineOK, Behind

LineInv == LineOK(Pipeline, log, pub) /\ CarriesOwn(log, pub)

\* Of the publishers only p moves on when it settles.
LEMMA SettledMovesOn ==
    ASSUME Types, NEW p \in Publishers, Settles(p)
    PROVE  /\ log' = log /\ pub'[p].pc # "enqueue"
           /\ \A q \in Publishers : q # p => pub'[q] = pub[q]
<1>1. pub \in [Publishers -> PublisherStates]
  BY DEF Types, PublishersTyped
<1>2. PICK x : pub' = [pub EXCEPT ![p] = x] /\ x.pc \in {"idle", "control"}
  BY DEF Settles, Idle
<1> QED
  BY <1>1, <1>2 DEF Settles

LEMMA CarriedIsLast ==
    ASSUME Types, LineInv, NEW p \in Publishers, pub[p].pc = "enqueue"
    PROVE  LastInLine(Carried(p), Pipeline, log)
<1>1. /\ Carried(p).ws = WorkspaceOf[p] /\ Carried(p).stream = p
      /\ Carried(p).kind = pub[p].kind /\ Carried(p).from = pub[p].n /\ Carried(p).to = pub[p].n
      /\ pub[p].n \in 1 .. MaxSeq /\ pub[p].n <= Len(log[WorkspaceOf[p]])
  BY CarriedIsEvent
<1>2. ExactItem(Carried(p), log)
  <2>1. \A n \in pub[p].n .. pub[p].n : n = pub[p].n
    BY <1>1
  <2> QED
    BY <1>1, <2>1 DEF LineInv, CarriesOwn, ExactItem
<1> QED
  BY <1>1, <1>2 DEF LastInLine, LineInv, LineOK, Behind

LEMMA LineInit == Init => LineInv
<1> SUFFICES ASSUME Init PROVE LineInv
  OBVIOUS
<1>1. Types
  BY TypesInit
<1>2. Pipeline = <<>>
  <2>1. /\ Front = <<>> \o <<>> \o <<>> /\ queue = <<>>
    BY DEF Init, Front, InHand
  <2>2. <<>> \in Feeds /\ <<>> \o <<>> = <<>>
    BY ConcatEmptySeq DEF Feeds
  <2> QED
    BY <1>1, <2>1, <2>2, PipelineIsFeed
<1>3. \A p \in Publishers : pub[p].pc # "enqueue"
  BY DEF Init, Idle
<1>4. 1 .. Len(Pipeline) = {}
  BY <1>2
<1> QED
  BY <1>3, <1>4 DEF LineInv, LineOK, Exact, Ordered, Behind, CarriesOwn

LEMMA AppendedToLog ==
    ASSUME Types, NEW p \in Publishers, PublishAppend(p)
    PROVE  /\ \A ws \in Workspaces :
                 /\ Len(log[ws]) \in Nat /\ Len(log'[ws]) \in Nat /\ Len(log'[ws]) >= Len(log[ws])
                 /\ \A n \in 1 .. Len(log[ws]) : log'[ws][n] = log[ws][n]
           /\ WorkspaceOf[p] \in Workspaces
           /\ Len(log'[WorkspaceOf[p]]) = Len(log[WorkspaceOf[p]]) + 1
           /\ log'[WorkspaceOf[p]][Len(log[WorkspaceOf[p]]) + 1] =
                 [kind |-> pub[p].kind, stream |-> p, targeted |-> pub[p].targeted]
           /\ \A ws \in Workspaces : ws # WorkspaceOf[p] => log'[ws] = log[ws]
           /\ \A q \in Publishers : q # p => pub'[q] = pub[q]
           /\ pub'[p].pc = "enqueue" =>
                 /\ pub[p].targeted /\ pub'[p].n = Len(log[WorkspaceOf[p]]) + 1
                 /\ pub'[p].kind = pub[p].kind
           /\ pub[p].targeted =>
                 pub'[p].pc = "enqueue" /\ pub'[p].n = Len(log[WorkspaceOf[p]]) + 1
<1> DEFINE w == WorkspaceOf[p]
           x == [kind |-> pub[p].kind, stream |-> p, targeted |-> pub[p].targeted]
<1>1. log \in [Workspaces -> Seq(Entries)] /\ w \in Workspaces /\ pub \in [Publishers -> PublisherStates]
      /\ PublisherOK(p)
  BY HubAssumption DEF Types, LogTyped, PublishersTyped
<1>2. x \in Entries
  BY <1>1 DEF PublishAppend, PublisherOK, PublisherStates, Entries
<1>3. /\ Append(log[w], x) \in Seq(Entries) /\ Len(Append(log[w], x)) = Len(log[w]) + 1
      /\ Append(log[w], x)[Len(log[w]) + 1] = x
      /\ \A n \in 1 .. Len(log[w]) : Append(log[w], x)[n] = log[w][n]
  BY <1>1, <1>2, AppendProperties
<1>4. log' = [log EXCEPT ![w] = Append(log[w], x)]
  BY DEF PublishAppend
<1>5. log'[w] = Append(log[w], x) /\ \A ws \in Workspaces : ws # w => log'[ws] = log[ws]
  BY <1>1, <1>4
<1>6. \A ws \in Workspaces : Len(log[ws]) \in Nat
  BY <1>1
<1> HIDE DEF x
<1>7. /\ \A q \in Publishers : q # p => pub'[q] = pub[q]
      /\ pub[p].targeted => pub'[p] = [pub[p] EXCEPT !.pc = "enqueue", !.n = Len(log[w]) + 1]
      /\ ~pub[p].targeted => pub'[p] = Idle
  BY <1>1 DEF PublishAppend
<1>8. pub[p].targeted => /\ pub'[p].pc = "enqueue" /\ pub'[p].n = Len(log[w]) + 1
                         /\ pub'[p].kind = pub[p].kind
  BY <1>1, <1>7 DEF PublisherStates
<1>9. ASSUME NEW ws \in Workspaces
      PROVE  /\ Len(log'[ws]) \in Nat /\ Len(log'[ws]) >= Len(log[ws])
             /\ \A n \in 1 .. Len(log[ws]) : log'[ws][n] = log[ws][n]
  BY <1>3, <1>5, <1>6
<1>10. ~pub[p].targeted => pub'[p].pc = "idle"
  BY <1>7 DEF Idle
<1> QED
  BY <1>1, <1>3, <1>5, <1>6, <1>7, <1>8, <1>9, <1>10 DEF x

LEMMA LineStep == ASSUME Types, LineInv, [Next]_vars PROVE LineInv'
<1>1. Pipeline \in Feeds /\ Pipeline' \in Feeds
  BY PipelineIsFeed, LineStaysTyped DEF LineTyped
<1>2. LineOK(Pipeline, log, pub) /\ CarriesOwn(log, pub)
  BY DEF LineInv
<1>3. ASSUME NEW p \in Publishers, NEW kind \in PublishedKinds, PublishBegin(p, kind)
      PROVE  LineInv'
  <2>1. log' = log /\ pub'[p].pc = "append" /\ \A q \in Publishers : q # p => pub'[q] = pub[q]
    BY <1>3 DEF PublishBegin, Idle, Types, PublishersTyped
  <2>2. Pipeline' = Pipeline
    BY <1>3, PublishingLeavesLine
  <2>3. LineOK(Pipeline, log, pub')
    BY <1>2, <2>1, PublishersKeep
  <2> QED
    BY <1>2, <2>1, <2>2, <2>3 DEF LineInv, CarriesOwn
<1>4. ASSUME NEW p \in Publishers, PublishAppend(p) PROVE LineInv'
  <2> DEFINE w == WorkspaceOf[p]
  <2>0. Pipeline' = Pipeline /\ \A i \in 1 .. Len(Pipeline) : Pipeline[i] \in Items
    BY <1>1, <1>4, PublishingLeavesLine DEF Feeds
  <2>1. /\ \A ws \in Workspaces :
              /\ Len(log[ws]) \in Nat /\ Len(log'[ws]) \in Nat /\ Len(log'[ws]) >= Len(log[ws])
              /\ \A n \in 1 .. Len(log[ws]) : log'[ws][n] = log[ws][n]
        /\ w \in Workspaces
        /\ log'[w][Len(log[w]) + 1] =
              [kind |-> pub[p].kind, stream |-> p, targeted |-> pub[p].targeted]
        /\ \A q \in Publishers : q # p => pub'[q] = pub[q]
        /\ pub'[p].pc = "enqueue" => pub'[p].n = Len(log[w]) + 1 /\ pub'[p].kind = pub[p].kind
    BY <1>4, AppendedToLog
  <2>2. ASSUME NEW i \in 1 .. Len(Pipeline), Sequenced(Pipeline[i])
        PROVE  /\ Pipeline[i].ws \in Workspaces /\ Pipeline[i].from \in 1 .. MaxSeq
               /\ Pipeline[i].to \in 1 .. MaxSeq /\ ExactItem(Pipeline[i], log)
    BY <1>2, <2>0, <2>2, ItemTypes DEF Sequenced, LineOK, Exact
  <2>3. Exact(Pipeline, log')
    <3> SUFFICES ASSUME NEW i \in 1 .. Len(Pipeline), Sequenced(Pipeline[i])
                 PROVE  ExactItem(Pipeline[i], log')
      BY DEF Exact, ExactItem
    <3> DEFINE y == Pipeline[i]
    <3>1. /\ y.ws \in Workspaces /\ y.from \in 1 .. MaxSeq /\ y.to \in 1 .. MaxSeq
          /\ ExactItem(y, log) /\ Sequenced(y)
      BY <2>2
    <3> HIDE DEF y
    <3>2. y.to <= Len(log[y.ws]) /\ y.to <= Len(log'[y.ws])
      BY <2>1, <3>1 DEF ExactItem
    <3>3. \A n \in y.from .. y.to : n \in 1 .. Len(log[y.ws])
      BY <2>1, <3>1, <3>2
    <3>4. \A n \in y.from .. y.to : log'[y.ws][n] = log[y.ws][n]
      BY <2>1, <3>1, <3>3
    <3> QED
      BY <3>1, <3>2, <3>4 DEF ExactItem, y
  <2>4. Behind(Pipeline, pub')
    <3> SUFFICES ASSUME NEW q \in Publishers, pub'[q].pc = "enqueue",
                        NEW i \in 1 .. Len(Pipeline), Sequenced(Pipeline[i]),
                        Pipeline[i].stream = q
                 PROVE  Pipeline[i].to < pub'[q].n
      BY DEF Behind
    <3>1. CASE q = p
      <4>1. Pipeline[i].to <= Len(log[w]) /\ Pipeline[i].to \in Nat
        BY <2>2, <3>1 DEF ExactItem
      <4> QED
        BY <2>1, <3>1, <4>1
    <3>2. CASE q # p
      BY <1>2, <2>1, <3>2 DEF LineOK, Behind
    <3> QED
      BY <3>1, <3>2
  <2>5. CarriesOwn(log', pub')
    <3> SUFFICES ASSUME NEW q \in Publishers, pub'[q].pc = "enqueue"
                 PROVE  /\ log'[WorkspaceOf[q]][pub'[q].n].kind = pub'[q].kind
                        /\ log'[WorkspaceOf[q]][pub'[q].n].stream = q
      BY DEF CarriesOwn
    <3>1. CASE q = p
      BY <2>1, <3>1
    <3>2. CASE q # p
      <4>1. pub'[q] = pub[q] /\ pub[q].n \in 1 .. Len(log[WorkspaceOf[q]])
            /\ WorkspaceOf[q] \in Workspaces
        BY <2>1, <3>2, HubAssumption DEF Types, PublishersTyped, PublisherOK
      <4> QED
        BY <1>2, <2>1, <4>1 DEF CarriesOwn
    <3> QED
      BY <3>1, <3>2
  <2> QED
    BY <1>2, <2>0, <2>3, <2>4, <2>5 DEF LineInv, LineOK
<1>5. ASSUME NEW p \in Publishers, Enqueue(p) PROVE LineInv'
  <2>1. /\ log' = log /\ pub'[p].pc # "enqueue" /\ pub[p].pc = "enqueue"
        /\ \A q \in Publishers : q # p => pub'[q] = pub[q]
    BY <1>5, StepsSettle, SettledMovesOn, EnqueueOnLine
  <2>2. LineOK(Pipeline, log, pub') /\ CarriesOwn(log, pub')
    BY <1>2, <2>1, PublishersKeep DEF CarriesOwn
  <2>3. PICK e \in Events : /\ e = Carried(p) /\ e \in Items /\ e.stream = p /\ e.to = e.from
                            /\ LastInLine(e, Pipeline, log)
    BY <2>1, CarriedIsEvent, CarriedIsLast DEF Items
  <2>4. Settled(e, pub')
    BY <2>1, <2>3 DEF Settled
  <2>5. CASE Pipeline' = Pipeline
    BY <2>1, <2>2, <2>5 DEF LineInv
  <2>6. CASE Pipeline' = Append(Pipeline, e)
    <3>1. LineOK(Pipeline', log, pub')
      BY <1>1, <2>2, <2>3, <2>4, <2>6, AppendKeeps
    <3> QED
      BY <2>1, <2>2, <3>1 DEF LineInv
  <2>7. ASSUME NEW k \in 1 .. Len(Pipeline), Pipeline' = Append(Without(Pipeline, k), e)
        PROVE  LineInv'
    <3>1. PICK K \in Feeds : K = Without(Pipeline, k) /\ Within(K, Pipeline)
      BY <1>1, WithoutIsFeed, WithoutIsWithin
    <3>2. LineOK(K, log, pub') /\ LastInLine(e, K, log)
      BY <1>1, <2>2, <2>3, <3>1, WithinKeeps, WithinLast
    <3>3. LineOK(Pipeline', log, pub')
      BY <2>3, <2>4, <2>7, <3>1, <3>2, AppendKeeps
    <3> QED
      BY <2>1, <2>2, <3>3 DEF LineInv
  <2>8. ASSUME NEW k, Takes(k, e) PROVE LineInv'
    <3>1. LineOK(Pipeline', log, pub')
      BY <1>1, <2>2, <2>3, <2>4, <2>8, MergeKeeps DEF Takes
    <3> QED
      BY <2>1, <2>2, <3>1 DEF LineInv
  <2> QED
    BY <1>5, <2>3, <2>5, <2>6, <2>7, <2>8, EnqueueOnLine DEF Extends, Replaces
<1>6. ASSUME NEW p \in Publishers, EnqueueControl(p) PROVE LineInv'
  <2>1. log' = log /\ pub'[p].pc # "enqueue" /\ \A q \in Publishers : q # p => pub'[q] = pub[q]
    BY <1>6, StepsSettle, SettledMovesOn
  <2>2. LineOK(Pipeline, log, pub') /\ CarriesOwn(log, pub')
    BY <1>2, <2>1, PublishersKeep DEF CarriesOwn
  <2>3. CASE Pipeline' = Pipeline
    BY <2>1, <2>2, <2>3 DEF LineInv
  <2>4. ASSUME NEW c \in Controls, Extends(c) \/ \E k : Replaces(k, c) PROVE LineInv'
    <3>1. c \in Items /\ ~Sequenced(c)
      BY DEF Items, Sequenced, Controls
    <3>2. PICK K \in Feeds : Within(K, Pipeline) /\ Pipeline' = Append(K, c)
      <4>1. CASE Extends(c)
        <5>1. Within(Pipeline, Pipeline)
          BY <1>1, PrefixIsWithin DEF Feeds
        <5> QED
          BY <1>1, <4>1, <5>1 DEF Extends
      <4>2. ASSUME NEW k, Replaces(k, c)
            PROVE  \E K \in Feeds : Within(K, Pipeline) /\ Pipeline' = Append(K, c)
        BY <1>1, <4>2, WithoutIsFeed, WithoutIsWithin DEF Replaces
      <4> QED
        BY <2>4, <4>1, <4>2
    <3>3. LineOK(K, log, pub')
      BY <1>1, <2>2, <3>2, WithinKeeps
    <3>4. LineOK(Pipeline', log, pub')
      BY <3>1, <3>2, <3>3, AppendKeeps DEF LastInLine, ExactItem, Settled
    <3> QED
      BY <2>1, <2>2, <3>4 DEF LineInv
  <2> QED
    BY <1>6, <2>3, <2>4, ControlOnLine
<1>7. CASE Cancel \/ RunExit
  <2>1. IsCut /\ log' = log /\ pub' = pub
    BY <1>7, EndingCuts
  <2>2. Within(Pipeline', Pipeline)
    BY <1>1, <2>1, PrefixIsWithin DEF IsCut
  <2>3. LineOK(Pipeline', log, pub)
    BY <1>1, <1>2, <2>2, WithinKeeps
  <2> QED
    BY <1>2, <2>1, <2>3 DEF LineInv
<1>8. CASE Pipeline' = Pipeline /\ UNCHANGED <<log, pub>>
  BY <1>2, <1>8 DEF LineInv
<1> QED
  BY <1>3, <1>4, <1>5, <1>6, <1>7, <1>8, StepsOnLine

LEMMA HubLine == Spec => [](Types /\ LineInv)
<1>1. Init => Types /\ LineInv
  BY TypesInit, LineInit
<1>2. Types /\ LineInv /\ [Next]_vars => (Types /\ LineInv)'
  BY TypesStep, LineStep
<1> QED
  BY <1>1, <1>2, PTL DEF Spec

(***************************************************************************)
(* What one goroutine publishes reaches the consumer in the order it       *)
(* published it, whatever is merged, evicted or dropped on the way.        *)
(***************************************************************************)
THEOREM OrderIsKept == Spec => []PublisherOrder
<1>1. Types /\ LineInv => PublisherOrder
  BY DEF LineInv, LineOK, Ordered, PublisherOrder, Sequenced
<1> QED
  BY <1>1, HubLine, PTL

(***************************************************************************)
(* Coalescing hides and repeats nothing: what an event covers was          *)
(* published with its kind on its stream, and no two events cover the same *)
(* number.                                                                 *)
(***************************************************************************)
THEOREM CoverageIsExact == Spec => []CoverageExact
<1>1. ASSUME Types, LineInv, NEW i \in 1 .. Len(Pipeline), Sequenced(Pipeline[i])
      PROVE  ExactItem(Pipeline[i], log) /\ Pipeline[i] \in Items
  BY <1>1, PipelineIsFeed DEF LineInv, LineOK, Exact, Feeds
<1>2. ASSUME Types, LineInv, NEW i \in 1 .. Len(Pipeline), NEW j \in i + 1 .. Len(Pipeline),
             Sequenced(Pipeline[i]), NEW s \in SeqsOf(Pipeline[i]) \cap SeqsOf(Pipeline[j])
      PROVE  FALSE
  <2>0. Len(Pipeline) \in Nat /\ j \in 1 .. Len(Pipeline) /\ i < j
    BY <1>2, PipelineIsFeed DEF Feeds
  <2>1. PICK n \in 1 .. MaxSeq : /\ s = <<Pipeline[i].ws, n>> /\ s = <<Pipeline[j].ws, n>>
                                 /\ Covers(Pipeline[i], n) /\ Covers(Pipeline[j], n)
    BY <1>2 DEF SeqsOf
  <2>2. Sequenced(Pipeline[j])
    <3>1. Pipeline[j] \in Items /\ Pipeline[j].from # 0
      BY <1>2, <2>0, <2>1, PipelineIsFeed DEF Feeds, Covers
    <3> QED
      BY <3>1, ItemTypes DEF Sequenced, Items
  <2>3. /\ n \in Pipeline[i].from .. Pipeline[i].to /\ n \in Pipeline[j].from .. Pipeline[j].to
        /\ Pipeline[i].ws = Pipeline[j].ws
        /\ Pipeline[i].to \in Nat /\ Pipeline[j].from \in Nat
    <3>1. /\ Pipeline[i].from \in Nat /\ Pipeline[i].to \in Nat
          /\ Pipeline[j].from \in Nat /\ Pipeline[j].to \in Nat
      BY <1>1, <1>2, <2>0, <2>2, ItemTypes DEF Sequenced
    <3> QED
      BY <2>1, <3>1 DEF Covers
  <2>4. Pipeline[i].stream = Pipeline[j].stream
    BY <1>1, <1>2, <2>0, <2>2, <2>3 DEF ExactItem
  <2>5. Pipeline[i].to < Pipeline[j].from
    BY <1>2, <2>0, <2>2, <2>4 DEF LineInv, LineOK, Ordered
  <2> QED
    BY <2>3, <2>5
<1>3. Types /\ LineInv => CoverageExact
  BY <1>1, <1>2 DEF CoverageExact, ExactItem, Sequenced
<1> QED
  BY <1>3, HubLine, PTL
-----------------------------------------------------------------------------
(***************************************************************************)
(* Every event is accounted for                                            *)
(***************************************************************************)
CoveredIn(L, ws, n) == \E i \in 1 .. Len(L) : L[i].ws = ws /\ Covers(L[i], n)

InPublishersHands(ws, n) ==
    \E p \in Publishers : pub[p].pc = "enqueue" /\ WorkspaceOf[p] = ws /\ pub[p].n = n

Accounted(ws, n) ==
    \/ InPublishersHands(ws, n)
    \/ CoveredIn(Pipeline, ws, n)
    \/ <<ws, n>> \in lost

AllAccounted ==
    \A ws \in Workspaces : \A n \in 1 .. Len(log[ws]) :
        log[ws][n].targeted => Accounted(ws, n)

\* What is appended, alone or for an event taken out, loses no event silently.
LEMMA AppendingAccounts ==
    ASSUME Types, NEW x \in Items, Extends(x) \/ \E k : Replaces(k, x),
           NEW ws, NEW n \in 1 .. MaxSeq
    PROVE  /\ CoveredIn(Pipeline, ws, n) => CoveredIn(Pipeline', ws, n) \/ <<ws, n>> \in lost'
           /\ x.ws = ws /\ Covers(x, n) => CoveredIn(Pipeline', ws, n)
<1>1. PICK L \in Feeds : L = Pipeline
  BY PipelineIsFeed
<1>2. Len(L) \in Nat
  BY DEF Feeds
<1>3. CASE Extends(x)
  <2>1. PICK M : /\ M = Pipeline' /\ Len(M) = Len(L) + 1
                 /\ \A j \in 1 .. Len(L) : M[j] = L[j]
                 /\ M[Len(L) + 1] = x
    BY <1>1, <1>3, AppendedIsFeed DEF Extends
  <2>2. Len(L) + 1 \in 1 .. Len(M) /\ \A j \in 1 .. Len(L) : j \in 1 .. Len(M)
    BY <1>2, <2>1
  <2> QED
    BY <1>1, <2>1, <2>2 DEF CoveredIn
<1>4. ASSUME NEW k, Replaces(k, x)
      PROVE  /\ CoveredIn(L, ws, n) => CoveredIn(Pipeline', ws, n) \/ <<ws, n>> \in lost'
             /\ x.ws = ws /\ Covers(x, n) => CoveredIn(Pipeline', ws, n)
  <2>1. k \in 1 .. Len(L) /\ Pipeline' = Append(Without(L, k), x) /\ Lose(L[k])
    BY <1>1, <1>4 DEF Replaces
  <2>2. PICK K : /\ K = Without(L, k) /\ K \in Feeds /\ Len(K) = Len(L) - 1
                 /\ \A j \in 1 .. Len(L) - 1 : K[j] = IF j < k THEN L[j] ELSE L[j + 1]
    BY <2>1, WithoutIsFeed
  <2>3. PICK M : /\ M = Pipeline' /\ Len(M) = Len(L)
                 /\ \A j \in 1 .. Len(L) - 1 : M[j] = K[j]
                 /\ M[Len(L)] = x
    <3>1. Append(K, x) = Pipeline' /\ Len(K) + 1 = Len(L) /\ Len(L) - 1 = Len(K)
      BY <1>2, <2>1, <2>2
    <3>2. PICK a \in Feeds : /\ a = Append(K, x) /\ Len(a) = Len(K) + 1
                           /\ \A j \in 1 .. Len(K) : a[j] = K[j]
                           /\ a[Len(K) + 1] = x
      BY <2>2, AppendedIsFeed
    <3> QED
      BY <3>1, <3>2
  <2>4. ASSUME NEW i \in 1 .. Len(L), L[i].ws = ws, Covers(L[i], n)
        PROVE  CoveredIn(M, ws, n) \/ <<ws, n>> \in lost'
    <3>1. CASE i = k
      BY <2>1, <2>4, <3>1 DEF Lose, SeqsOf
    <3>2. CASE i < k
      <4>1. i \in 1 .. Len(L) - 1 /\ i \in 1 .. Len(M) /\ M[i] = L[i]
        BY <1>2, <2>1, <2>2, <2>3, <3>2
      <4> QED
        BY <2>4, <4>1 DEF CoveredIn
    <3>3. CASE i > k
      <4>1. i - 1 \in 1 .. Len(L) - 1 /\ i - 1 \in 1 .. Len(M) /\ (i - 1) + 1 = i /\ ~(i - 1 < k)
        BY <1>2, <2>1, <2>3, <3>3
      <4>2. M[i - 1] = L[i]
        BY <2>2, <2>3, <4>1
      <4> QED
        BY <2>4, <4>1, <4>2 DEF CoveredIn
    <3> QED
      BY <1>2, <2>1, <3>1, <3>2, <3>3
  <2>5. Len(L) \in 1 .. Len(M)
    BY <1>2, <2>1, <2>3
  <2> QED
    BY <2>3, <2>4, <2>5 DEF CoveredIn
<1> QED
  BY <1>1, <1>3, <1>4

LEMMA MergingAccounts ==
    ASSUME Types, NEW e \in Events, NEW k, Takes(k, e), e.to = e.from,
           Pipeline[k].from <= Pipeline[k].to, NEW ws, NEW n \in 1 .. MaxSeq
    PROVE  /\ CoveredIn(Pipeline, ws, n) => CoveredIn(Pipeline', ws, n)
           /\ e.ws = ws /\ Covers(e, n) => CoveredIn(Pipeline', ws, n)
<1>1. PICK L \in Feeds : L = Pipeline
  BY PipelineIsFeed
<1>2. /\ k \in 1 .. Len(L) /\ L[k] \in Events /\ L[k].ws = e.ws /\ e.from = L[k].to + 1
      /\ Pipeline' = Merged(L, e, k)
  BY <1>1 DEF Takes
<1>3. PICK M : /\ M = Pipeline' /\ Len(M) = Len(L)
               /\ \A j \in 1 .. Len(L) : j # k => M[j] = L[j]
               /\ M[k] = [L[k] EXCEPT !.to = e.to]
  BY <1>2, MergedIsFeed
<1>4. /\ M[k].ws = e.ws /\ M[k].from = L[k].from /\ M[k].to = e.to
      /\ L[k].from \in 1 .. MaxSeq /\ L[k].to \in 1 .. MaxSeq
      /\ e.to \in 1 .. MaxSeq
  BY <1>2, <1>3 DEF Events
<1>5. Covers(L[k], n) => Covers(M[k], n)
  BY <1>2, <1>4 DEF Covers
<1>6. Covers(e, n) => Covers(M[k], n)
  BY <1>1, <1>2, <1>4 DEF Covers
<1>7. e.ws = ws /\ Covers(e, n) => CoveredIn(M, ws, n)
  BY <1>2, <1>3, <1>4, <1>6 DEF CoveredIn
<1>8. ASSUME NEW i \in 1 .. Len(L), L[i].ws = ws, Covers(L[i], n) PROVE CoveredIn(M, ws, n)
  <2>1. CASE i = k
    BY <1>2, <1>3, <1>4, <1>5, <1>8, <2>1 DEF CoveredIn
  <2>2. CASE i # k
    BY <1>3, <1>8, <2>2 DEF CoveredIn
  <2> QED
    BY <2>1, <2>2
<1> QED
  BY <1>1, <1>3, <1>7, <1>8 DEF CoveredIn

LEMMA ClosedStaysClosed == ASSUME Types, [Next]_vars, closed PROVE closed'
BY DEF Types, QueueTyped, Next, vars, PublishStep, PublishBegin, PublishAppend, Enqueue, EnqueueClosed,
       EnqueueMerged, EnqueueSoftDropped, EnqueueHardDropped, EnqueueEvicting,
       EnqueueAppended, EnqueueControl, ControlSkipped, ControlAbsorbed, ControlAppended,
       ControlDisplacing, Subscribe, Cancel, RunStep, RunWake, RunPop, RunDrained, RunSend,
       RunExit, Receive

LEMMA AccountsStep ==
    ASSUME Types, LineInv, closed \/ AllAccounted, [Next]_vars
    PROVE  (closed \/ AllAccounted)'
<1> SUFFICES ASSUME ~closed' PROVE AllAccounted'
  OBVIOUS
<1>1. ~closed /\ AllAccounted
  BY ClosedStaysClosed
<1>2. log \in [Workspaces -> Seq(Entries)] /\ \A ws \in Workspaces : \A n \in 1 .. Len(log[ws]) : n \in 1 .. MaxSeq
  <2>1. \A ws \in Workspaces : Len(log[ws]) \in Nat /\ Len(log[ws]) <= MaxSeq
    BY AppendingIsFinite, HubAssumption DEF Types, LogTyped, RoomLeft
  <2> QED
    BY <2>1, HubAssumption DEF Types, LogTyped
<1>3. ASSUME NEW p \in Publishers, NEW kind \in PublishedKinds, PublishBegin(p, kind)
      PROVE  AllAccounted'
  <2>1. /\ pub[p].pc = "idle" /\ log' = log
        /\ \A q \in Publishers : q # p => pub'[q] = pub[q]
        /\ Pipeline' = Pipeline /\ lost' = lost
    BY <1>3, PublishingLeavesLine DEF PublishBegin, Types, PublishersTyped
  <2> QED
    BY <1>1, <2>1 DEF AllAccounted, Accounted, InPublishersHands
<1>4. ASSUME NEW p \in Publishers, PublishAppend(p) PROVE AllAccounted'
  <2> DEFINE w == WorkspaceOf[p]
  <2>1. /\ \A ws \in Workspaces :
              /\ Len(log[ws]) \in Nat
              /\ \A n \in 1 .. Len(log[ws]) : log'[ws][n] = log[ws][n]
        /\ w \in Workspaces /\ Len(log'[w]) = Len(log[w]) + 1
        /\ log'[w][Len(log[w]) + 1] =
              [kind |-> pub[p].kind, stream |-> p, targeted |-> pub[p].targeted]
        /\ \A ws \in Workspaces : ws # w => log'[ws] = log[ws]
        /\ \A q \in Publishers : q # p => pub'[q] = pub[q]
        /\ pub[p].targeted => pub'[p].pc = "enqueue" /\ pub'[p].n = Len(log[w]) + 1
    BY <1>4, AppendedToLog
  <2>2. Pipeline' = Pipeline /\ lost' = lost /\ pub[p].pc = "append"
    BY <1>4, PublishingLeavesLine DEF PublishAppend
  <2>3. ASSUME NEW ws \in Workspaces, NEW n \in 1 .. Len(log[ws]), log'[ws][n].targeted
        PROVE  Accounted(ws, n)'
    <3>1. Accounted(ws, n)
      BY <1>1, <2>1, <2>3 DEF AllAccounted
    <3>2. InPublishersHands(ws, n) => InPublishersHands(ws, n)'
      BY <2>1, <2>2 DEF InPublishersHands
    <3> QED
      BY <2>2, <3>1, <3>2 DEF Accounted
  <2>4. PICK m : m = Len(log[w]) + 1
    OBVIOUS
  <2>5. log'[w][m].targeted => Accounted(w, m)'
    BY <2>1, <2>4 DEF Accounted, InPublishersHands
  <2>6. ASSUME NEW ws \in Workspaces, NEW n \in 1 .. Len(log'[ws])
        PROVE  n \in 1 .. Len(log[ws]) \/ (ws = w /\ n = m)
    BY <2>1, <2>4
  <2> QED
    BY <2>3, <2>5, <2>6 DEF AllAccounted
<1>5. ASSUME NEW p \in Publishers, Enqueue(p) PROVE AllAccounted'
  <2>1. /\ log' = log /\ pub[p].pc = "enqueue"
        /\ \A q \in Publishers : q # p => pub'[q] = pub[q]
    BY <1>5, StepsSettle, SettledMovesOn, EnqueueOnLine
  <2>2. PICK e \in Events : /\ e = Carried(p) /\ e \in Items /\ e.ws = WorkspaceOf[p]
                            /\ e.from = pub[p].n /\ e.to = e.from /\ e.from \in 1 .. MaxSeq
    BY <2>1, CarriedIsEvent DEF Items
  <2> SUFFICES ASSUME NEW ws \in Workspaces, NEW n \in 1 .. Len(log[ws]), log[ws][n].targeted
               PROVE  Accounted(ws, n)'
    BY <2>1 DEF AllAccounted
  <2>3. Accounted(ws, n) /\ n \in 1 .. MaxSeq
    BY <1>1, <1>2 DEF AllAccounted
  <2>4. \/ InPublishersHands(ws, n)'
        \/ e.ws = ws /\ Covers(e, n)
        \/ CoveredIn(Pipeline, ws, n)
        \/ <<ws, n>> \in lost
    BY <2>1, <2>2, <2>3 DEF Accounted, InPublishersHands, Covers
  <2>5. CASE Pipeline' = Pipeline /\ Lose(e)
    <3>1. e.ws = ws /\ Covers(e, n) => <<ws, n>> \in SeqsOf(e)
      BY <2>3 DEF SeqsOf
    <3> QED
      BY <2>4, <2>5, <3>1 DEF Lose, Accounted
  <2>6. CASE Extends(e) \/ \E k : Replaces(k, e)
    <3>1. lost \subseteq lost'
      BY <2>6 DEF Extends, Replaces, Lose
    <3> QED
      BY <2>2, <2>3, <2>4, <2>6, <3>1, AppendingAccounts DEF Accounted
  <2>7. ASSUME NEW k, Takes(k, e) PROVE Accounted(ws, n)'
    <3>1. Pipeline[k].from <= Pipeline[k].to
      BY <2>7, ItemTypes DEF Takes, LineInv, LineOK, Exact, ExactItem, Sequenced, Items
    <3> QED
      BY <2>2, <2>3, <2>4, <2>7, <3>1, MergingAccounts DEF Accounted, Takes
  <2> QED
    BY <1>1, <1>5, <2>2, <2>5, <2>6, <2>7, EnqueueOnLine
<1>6. ASSUME NEW p \in Publishers, EnqueueControl(p) PROVE AllAccounted'
  <2>1. /\ log' = log /\ pub[p].pc = "control"
        /\ \A q \in Publishers : q # p => pub'[q] = pub[q]
    BY <1>6, StepsSettle, SettledMovesOn, ControlOnLine
  <2> SUFFICES ASSUME NEW ws \in Workspaces, NEW n \in 1 .. Len(log[ws]), log[ws][n].targeted
               PROVE  Accounted(ws, n)'
    BY <2>1 DEF AllAccounted
  <2>2. Accounted(ws, n) /\ n \in 1 .. MaxSeq
    BY <1>1, <1>2 DEF AllAccounted
  <2>3. InPublishersHands(ws, n) => InPublishersHands(ws, n)'
    BY <2>1 DEF InPublishersHands
  <2>4. CASE Pipeline' = Pipeline /\ lost' = lost
    BY <2>2, <2>3, <2>4 DEF Accounted
  <2>5. ASSUME NEW c \in Controls, Extends(c) \/ \E k : Replaces(k, c) PROVE Accounted(ws, n)'
    <3>1. lost \subseteq lost' /\ c \in Items
      BY <2>5 DEF Extends, Replaces, Lose, Items
    <3> QED
      BY <2>2, <2>3, <2>5, <3>1, AppendingAccounts DEF Accounted
  <2> QED
    BY <1>6, <2>4, <2>5, ControlOnLine
<1>7. CASE Cancel \/ RunExit
  BY <1>7, EndingCuts
<1>8. CASE Pipeline' = Pipeline /\ UNCHANGED <<log, pub, lost>>
  BY <1>1, <1>8 DEF AllAccounted, Accounted, InPublishersHands
<1> QED
  BY <1>3, <1>4, <1>5, <1>6, <1>7, <1>8, StepsOnLine

(***************************************************************************)
(* Publish accounts for every event it had to hand to an open subscriber:  *)
(* with its publisher, on its way, received or recorded as lost.           *)
(***************************************************************************)
THEOREM NoEventVanishes == Spec => []NothingVanishes
<1>1. Init => Types /\ LineInv /\ (closed \/ AllAccounted)
  <2>1. Init => AllAccounted
    <3> SUFFICES ASSUME Init, NEW ws \in Workspaces PROVE 1 .. Len(log[ws]) = {}
      BY DEF AllAccounted
    <3> QED
      BY DEF Init
  <2> QED
    BY <2>1, TypesInit, LineInit
<1>2. Types /\ LineInv /\ (closed \/ AllAccounted) /\ [Next]_vars
      => (Types /\ LineInv /\ (closed \/ AllAccounted))'
  BY TypesStep, LineStep, AccountsStep
<1>3. (closed \/ AllAccounted) => NothingVanishes
  BY DEF AllAccounted, Accounted, InPublishersHands, CoveredIn, NothingVanishes
<1> QED
  BY <1>1, <1>2, <1>3, PTL DEF Spec
-----------------------------------------------------------------------------
(***************************************************************************)
(* Losses are announced                                                    *)
(*                                                                         *)
(* A subscriber of one workspace: its control events are all of that       *)
(* workspace, so one that is queued absorbs every other.  (The control     *)
(* event of one workspace can displace that of another in the queue of a   *)
(* subscriber of all workspaces.)                                          *)
(***************************************************************************)
OneWorkspace == \A v, w \in Workspaces : v = w

LEMMA AppendHas ==
    ASSUME NEW q \in Feeds, NEW x \in Items, NEW ws
    PROVE  Absorbs(Append(q, x), ws) <=> Absorbs(q, ws) \/ IsControlOf(x, ws)
<1>1. PICK a \in Feeds : /\ a = Append(q, x) /\ Len(a) = Len(q) + 1
                         /\ \A j \in 1 .. Len(q) : a[j] = q[j]
                         /\ a[Len(q) + 1] = x
  BY AppendedIsFeed
<1>2. Len(q) \in Nat /\ \A j : j \in 1 .. Len(a) <=> j \in 1 .. Len(q) \/ j = Len(q) + 1
  BY <1>1 DEF Feeds
<1> QED
  BY <1>1, <1>2 DEF Absorbs

LEMMA WithoutHas ==
    ASSUME NEW q \in Feeds, NEW k \in 1 .. Len(q), NEW ws, Absorbs(q, ws), ~IsControlOf(q[k], ws)
    PROVE  Absorbs(Without(q, k), ws)
<1>1. PICK K : /\ K = Without(q, k) /\ Len(K) = Len(q) - 1 /\ Len(q) \in Nat
               /\ \A j \in 1 .. Len(q) - 1 : K[j] = IF j < k THEN q[j] ELSE q[j + 1]
  BY WithoutIsFeed DEF Feeds
<1>2. PICK i \in 1 .. Len(q) : IsControlOf(q[i], ws)
  BY DEF Absorbs
<1>3. CASE i < k
  <2>1. i \in 1 .. Len(q) - 1
    BY <1>1, <1>3
  <2>2. K[i] = q[i] /\ i \in 1 .. Len(K)
    BY <1>1, <1>3, <2>1
  <2> QED
    BY <1>1, <1>2, <2>2 DEF Absorbs
<1>4. CASE i > k
  <2>1. i - 1 \in 1 .. Len(q) - 1 /\ ~(i - 1 < k) /\ (i - 1) + 1 = i
    BY <1>1, <1>4
  <2>2. K[i - 1] = q[i] /\ i - 1 \in 1 .. Len(K)
    BY <1>1, <2>1
  <2> QED
    BY <1>1, <1>2, <2>2 DEF Absorbs
<1> QED
  BY <1>1, <1>2, <1>3, <1>4

LEMMA MergedHas ==
    ASSUME NEW q \in Feeds, NEW k \in 1 .. Len(q), NEW e \in Events, q[k] \in Events,
           NEW ws, Absorbs(q, ws)
    PROVE  Absorbs(Merged(q, e, k), ws)
<1>1. PICK M \in Feeds : /\ M = Merged(q, e, k) /\ Len(M) = Len(q)
                         /\ \A j \in 1 .. Len(q) : j # k => M[j] = q[j]
                         /\ M[k] = [q[k] EXCEPT !.to = e.to]
  BY MergedIsFeed
<1>2. ~IsControlOf(q[k], ws)
  BY DEF Events, SequencedKinds, IsControlOf
<1> QED
  BY <1>1, <1>2 DEF Absorbs

LEMMA TailHas ==
    ASSUME NEW q \in Feeds, q # <<>>, NEW ws, Absorbs(q, ws)
    PROVE  IsControlOf(Head(q), ws) \/ Absorbs(Tail(q), ws)
<1>1. /\ Len(Tail(q)) = Len(q) - 1 /\ Len(q) \in Nat /\ Head(q) = q[1]
      /\ \A i \in 1 .. Len(Tail(q)) : Tail(q)[i] = q[i + 1]
  BY HeadTailProperties DEF Feeds
<1>2. PICK i \in 1 .. Len(q) : IsControlOf(q[i], ws)
  BY DEF Absorbs
<1>3. PICK t : t = Tail(q)
  OBVIOUS
<1>4. ASSUME i # 1 PROVE Absorbs(t, ws)
  <2>1. i - 1 \in 1 .. Len(t) /\ (i - 1) + 1 = i
    BY <1>1, <1>3, <1>4
  <2>2. t[i - 1] = q[i]
    BY <1>1, <1>3, <2>1
  <2> QED
    BY <1>2, <2>1, <2>2 DEF Absorbs
<1> QED
  BY <1>1, <1>2, <1>3, <1>4

\* A queued control event leaves the queue only for the hands of run.
LEMMA ControlKept ==
    ASSUME Types, OneWorkspace, [Next]_vars, ~closed', NEW ws \in Workspaces,
           Absorbs(queue, ws)
    PROVE  Absorbs(queue', ws) \/ (held' # None /\ IsControlOf(held', ws))
<1>1. queue \in Feeds /\ \A i \in 1 .. Len(queue) : queue[i] \in Items
  BY DEF Types, QueueTyped, Feeds
<1>2. \A x \in Items : x # None
  BY NoneAssumption DEF Items
<1>3. ASSUME NEW p \in Publishers, EnqueueMerged(p) PROVE Absorbs(queue', ws)
  <2>1. PICK i \in 1 .. Len(queue) : MergesAt(queue, Carried(p), i)
                                     /\ queue' = Merged(queue, Carried(p), i)
    BY <1>3 DEF EnqueueMerged
  <2>2. Carried(p) \in Events
    BY <1>3, CarriedIsEvent DEF EnqueueMerged
  <2> QED
    BY <1>1, <2>1, <2>2, MergesIntoEvent, MergedHas
<1>4. ASSUME NEW p \in Publishers, EnqueueEvicting(p) PROVE Absorbs(queue', ws)
  <2>1. PICK i \in 1 .. Len(queue) : EvictsAt(queue, Carried(p), i)
                                     /\ queue' = Append(Without(queue, i), Carried(p))
    BY <1>4 DEF EnqueueEvicting
  <2>2. Carried(p) \in Items
    BY <1>4, CarriedIsEvent DEF EnqueueEvicting, Items
  <2>3. ~IsControlOf(queue[i], ws)
    BY <2>1 DEF EvictsAt, FirstDroppable, IsDroppable, IsControlOf
  <2> QED
    BY <1>1, <2>1, <2>2, <2>3, WithoutHas, WithoutIsFeed, AppendHas
<1>5. ASSUME NEW p \in Publishers, EnqueueAppended(p) PROVE Absorbs(queue', ws)
  BY <1>1, <1>5, CarriedIsEvent, AppendHas DEF EnqueueAppended, Items
<1>6. ASSUME NEW p \in Publishers, ControlAppended(p) PROVE Absorbs(queue', ws)
  <2>1. DroppedControl(pub[p].lostWs, None) \in Items
    BY <1>6, ControlIsItem DEF ControlAppended, Types, PublishersTyped, PublisherOK, Items
  <2> QED
    BY <1>1, <1>6, <2>1, AppendHas DEF ControlAppended
<1>7. ASSUME NEW p \in Publishers, ControlDisplacing(p) PROVE FALSE
  BY <1>7 DEF ControlDisplacing, Types, PublishersTyped, PublisherOK, OneWorkspace
<1>8. CASE RunPop
  <2>1. queue # <<>> /\ held' = Head(queue) /\ queue' = Tail(queue)
    BY <1>8 DEF RunPop
  <2>2. Head(queue) \in Items
    BY <1>1, <2>1, HeadFirst
  <2> QED
    BY <1>1, <1>2, <2>1, <2>2, TailHas
<1>9. CASE queue' = queue
  BY <1>9
<1> QED
  BY <1>3, <1>4, <1>5, <1>6, <1>7, <1>8, <1>9
  DEF Next, vars, PublishStep, PublishBegin, PublishAppend, Enqueue, EnqueueClosed,
      EnqueueSoftDropped, EnqueueHardDropped, EnqueueControl, ControlSkipped,
      ControlAbsorbed, Subscribe, Cancel, RunStep, RunWake, RunDrained, RunSend,
      RunExit, Receive

(***************************************************************************)
(* A control event in the queue of a workspace's subscriber is never       *)
(* dropped: it stays queued until run takes it to send it, unless the      *)
(* subscription is cancelled.                                              *)
(***************************************************************************)
THEOREM ControlIsKept == ASSUME OneWorkspace PROVE Spec => ControlUndroppable
<1>1. Types /\ [Next]_vars =>
        [\A ws \in Workspaces :
           (Absorbs(queue, ws) /\ ~closed')
           => Absorbs(queue', ws) \/ (held' # None /\ IsControlOf(held', ws))]_vars
  BY ControlKept
<1>2. Spec => []Types
  BY HubLine, PTL
<1> QED
  BY <1>1, <1>2, PTL DEF Spec, ControlUndroppable

\* A publisher is about to announce a loss in ws.
Owing(ws) == \E p \in Publishers : pub[p].pc = "control" /\ pub[p].lostWs = ws

\* A control event of ws is on its way.
ControlUnderway(ws) ==
    \/ Absorbs(out, ws)
    \/ held # None /\ IsControlOf(held, ws)
    \/ Absorbs(queue, ws)

Announced(ws) == (\E s \in owed : s[1] = ws) => Owing(ws) \/ ControlUnderway(ws)

Announces == closed \/ \A ws \in Workspaces : Announced(ws)

LEMMA UnderwayHas ==
    ASSUME Types, NEW ws, ControlUnderway(ws)
    PROVE  \E i \in 1 .. Len(Underway) : IsControlOf(Underway[i], ws)
<1>1. out \in Feeds /\ queue \in Feeds /\ InHand \in Feeds
  BY PipelineIsFeed DEF Types, QueueTyped
<1>2. Underway = Cat(Cat(out, InHand), queue)
  BY DEF Underway, InHand, Cat
<1>3. ASSUME NEW f \in Feeds, NEW q \in Feeds, Absorbs(f, ws) \/ Absorbs(q, ws)
      PROVE  Absorbs(Cat(f, q), ws)
  <2>1. PICK g : g = Cat(f, q) /\ Joins(g, f, q)
    BY ConcatJoins DEF Cat
  <2>2. Len(f) \in Nat /\ Len(q) \in Nat /\ Len(g) = Len(f) + Len(q)
    BY <2>1 DEF Joins, Feeds
  <2>3. ASSUME NEW i \in 1 .. Len(f), IsControlOf(f[i], ws) PROVE Absorbs(g, ws)
    <3>1. g[i] = f[i] /\ i \in 1 .. Len(g)
      BY <2>1, <2>2 DEF Joins
    <3> QED
      BY <2>3, <3>1 DEF Absorbs
  <2>4. ASSUME NEW i \in 1 .. Len(q), IsControlOf(q[i], ws) PROVE Absorbs(g, ws)
    <3>1. g[Len(f) + i] = q[i] /\ Len(f) + i \in 1 .. Len(g)
      BY <2>1, <2>2 DEF Joins
    <3> QED
      BY <2>4, <3>1 DEF Absorbs
  <2> QED
    BY <1>3, <2>1, <2>3, <2>4 DEF Absorbs
<1>4. held # None /\ IsControlOf(held, ws) => Absorbs(InHand, ws)
  <2> SUFFICES ASSUME held # None, IsControlOf(held, ws) PROVE Absorbs(InHand, ws)
    OBVIOUS
  <2>1. InHand = <<held>> /\ Len(<<held>>) = 1 /\ <<held>>[1] = held
    BY DEF InHand
  <2> QED
    BY <2>1 DEF Absorbs
<1>5. Cat(out, InHand) \in Feeds
  BY <1>1, CatTypes
<1> QED
  BY <1>1, <1>2, <1>3, <1>4, <1>5 DEF ControlUnderway, Absorbs

LEMMA AnnouncesStep ==
    ASSUME Types, OneWorkspace, Announces, [Next]_vars
    PROVE  Announces'
<1> SUFFICES ASSUME ~closed' PROVE Announces'
  BY DEF Announces
<1>1. /\ ~closed /\ \A ws \in Workspaces : Announced(ws)
      /\ pub \in [Publishers -> PublisherStates] /\ \A p \in Publishers : PublisherOK(p)
      /\ queue \in Feeds /\ out \in Feeds /\ held \in Items \cup {None}
      /\ \A i \in 1 .. Len(queue) : queue[i] \in Items
  BY ClosedStaysClosed DEF Announces, Types, PublishersTyped, QueueTyped, Feeds
<1>2. ASSUME NEW ws \in Workspaces, Absorbs(queue, ws)
      PROVE  Absorbs(queue', ws) \/ (held' # None /\ IsControlOf(held', ws))
  BY <1>2, ControlKept
\* Where the loss is only now to be announced, or just has been.
<1>3. ASSUME NEW p \in Publishers, pub[p].pc = "enqueue",
             NEW ws \in Workspaces, pub' = [pub EXCEPT ![p] =
                  [Idle EXCEPT !.pc = "control", !.lostWs = ws]]
      PROVE  Announces'
  <2>1. pub'[p].pc = "control" /\ pub'[p].lostWs = ws
    BY <1>1, <1>3 DEF Idle
  <2>2. \A v \in Workspaces : Owing(v)'
    BY <2>1 DEF Owing, OneWorkspace
  <2> QED
    BY <2>2 DEF Announces, Announced
<1>4. ASSUME \A ws \in Workspaces : Absorbs(queue', ws) PROVE Announces'
  BY <1>4 DEF Announces, Announced, ControlUnderway
\* Where everything stays announced as it was.
<1>5. ASSUME \A q \in Publishers : pub[q].pc = "control" => pub'[q] = pub[q],
             out' = out, held' = held, owed' = owed
      PROVE  Announces'
  <2> SUFFICES ASSUME NEW ws \in Workspaces, \E s \in owed : s[1] = ws
               PROVE  Owing(ws)' \/ ControlUnderway(ws)'
    BY <1>5 DEF Announces, Announced
  <2>1. Owing(ws) \/ ControlUnderway(ws)
    BY <1>1 DEF Announced
  <2>2. Owing(ws) => Owing(ws)'
    BY <1>5 DEF Owing
  <2>3. ControlUnderway(ws) => ControlUnderway(ws)'
    BY <1>2, <1>5 DEF ControlUnderway
  <2> QED
    BY <2>1, <2>2, <2>3
<1>6. ASSUME NEW p \in Publishers, pub[p].pc # "control", UNCHANGED <<out, held, owed>>,
             \A q \in Publishers : q # p => pub'[q] = pub[q]
      PROVE  Announces'
  BY <1>5, <1>6
<1>7. ASSUME NEW p \in Publishers, NEW kind \in PublishedKinds, PublishBegin(p, kind)
      PROVE  Announces'
  BY <1>1, <1>6, <1>7 DEF PublishBegin
<1>8. ASSUME NEW p \in Publishers, PublishAppend(p) PROVE Announces'
  BY <1>1, <1>6, <1>8 DEF PublishAppend
<1>9. ASSUME NEW p \in Publishers, Enqueue(p) PROVE Announces'
  <2>1. CASE EnqueueMerged(p)
    BY <1>1, <1>6, <2>1 DEF EnqueueMerged
  <2>2. CASE EnqueueAppended(p)
    BY <1>1, <1>6, <2>2 DEF EnqueueAppended
  <2>3. CASE EnqueueSoftDropped(p) \/ EnqueueHardDropped(p)
    BY <1>3, <2>3, HubAssumption DEF EnqueueSoftDropped, EnqueueHardDropped, OweControl
  <2>4. CASE EnqueueEvicting(p)
    <3>1. \A i \in 1 .. Len(queue) : queue[i].ws \in Workspaces
      BY <1>1, ItemTypes
    <3> QED
      BY <1>3, <2>4, <3>1 DEF EnqueueEvicting
  <2>5. CASE EnqueueClosed(p)
    BY <1>1, <2>5 DEF EnqueueClosed
  <2> QED
    BY <1>9, <2>1, <2>2, <2>3, <2>4, <2>5 DEF Enqueue
<1>10. ASSUME NEW p \in Publishers, EnqueueControl(p) PROVE Announces'
  <2> DEFINE w == pub[p].lostWs
             c == DroppedControl(w, None)
  <2>1. w \in Workspaces /\ c \in Items /\ IsControlOf(c, w)
    BY <1>1, <1>10, ControlIsItem
    DEF EnqueueControl, ControlSkipped, ControlAbsorbed, ControlAppended,
        ControlDisplacing, PublisherOK, Items
  <2> HIDE DEF c
  <2>2. Absorbs(queue', w)
    <3>1. CASE ControlAbsorbed(p)
      BY <3>1 DEF ControlAbsorbed
    <3>2. CASE ControlAppended(p)
      BY <1>1, <2>1, <3>2, AppendHas DEF ControlAppended, c
    <3>3. CASE ControlDisplacing(p)
      <4>1. PICK i \in 1 .. Len(queue) : queue' = Append(Without(queue, i), c)
        BY <3>3 DEF ControlDisplacing, c
      <4> QED
        BY <1>1, <2>1, <4>1, WithoutIsFeed, AppendHas
    <3> QED
      BY <1>1, <1>10, <3>1, <3>2, <3>3 DEF EnqueueControl, ControlSkipped
  <2> QED
    BY <1>4, <2>1, <2>2 DEF OneWorkspace
<1>11. CASE RunPop
  <2> SUFFICES ASSUME NEW ws \in Workspaces, \E s \in owed : s[1] = ws
               PROVE  Owing(ws)' \/ ControlUnderway(ws)'
    BY <1>11 DEF Announces, Announced, RunPop
  <2>1. pub' = pub /\ out' = out /\ held = None
    BY <1>11 DEF RunPop, Types, QueueTyped
  <2>2. Owing(ws) \/ ControlUnderway(ws)
    BY <1>1 DEF Announced
  <2> QED
    BY <1>2, <2>1, <2>2 DEF Owing, ControlUnderway
<1>12. CASE RunSend
  <2> SUFFICES ASSUME NEW ws \in Workspaces, \E s \in owed : s[1] = ws
               PROVE  Owing(ws)' \/ ControlUnderway(ws)'
    BY <1>12 DEF Announces, Announced, RunSend
  <2>1. pub' = pub /\ out' = Append(out, held) /\ queue' = queue /\ held \in Items
    BY <1>12 DEF RunSend, Types, QueueTyped
  <2>2. Owing(ws) \/ ControlUnderway(ws)
    BY <1>1 DEF Announced
  <2>3. Absorbs(out, ws) \/ IsControlOf(held, ws) => Absorbs(out', ws)
    BY <1>1, <2>1, AppendHas
  <2> QED
    BY <2>1, <2>2, <2>3 DEF Owing, ControlUnderway
<1>13. CASE Receive
  <2>1. /\ out # <<>> /\ out' = Tail(out) /\ pub' = pub /\ held' = held /\ queue' = queue
        /\ owed' \subseteq owed
        /\ Head(out).kind = "dropped" => \A s \in owed' : s[1] # Head(out).ws
    BY <1>13 DEF Receive
  <2> SUFFICES ASSUME NEW ws \in Workspaces, \E s \in owed' : s[1] = ws
               PROVE  Owing(ws)' \/ ControlUnderway(ws)'
    BY DEF Announces, Announced
  <2>2. Owing(ws) \/ ControlUnderway(ws)
    BY <1>1, <2>1 DEF Announced
  <2>3. ~IsControlOf(Head(out), ws)
    BY <2>1 DEF IsControlOf
  <2>4. Absorbs(out, ws) => Absorbs(out', ws)
    BY <1>1, <2>1, <2>3, TailHas
  <2> QED
    BY <2>1, <2>2, <2>4 DEF Owing, ControlUnderway
<1>14. CASE UNCHANGED <<pub, out, held, owed>>
  BY <1>5, <1>14
<1>15. CASE Cancel \/ RunExit
  BY <1>1, <1>15 DEF Cancel, RunExit
<1> QED
  BY <1>7, <1>8, <1>9, <1>10, <1>11, <1>12, <1>13, <1>14, <1>15
  DEF Next, vars, PublishStep, Subscribe, RunStep, RunWake, RunDrained

(***************************************************************************)
(* No loss of a workspace's open subscription is silent: a control event   *)
(* is on its way to the consumer, or a publisher is about to enqueue one.  *)
(***************************************************************************)
THEOREM LossIsAnnounced == ASSUME OneWorkspace PROVE Spec => []LossAnnounced
<1>1. Init => Types /\ Announces
  BY TypesInit DEF Init, Announces, Announced
<1>2. Types /\ Announces /\ [Next]_vars => (Types /\ Announces)'
  BY TypesStep, AnnouncesStep
<1>3. Types /\ Announces => LossAnnounced
  <2> SUFFICES ASSUME Types, Announces, ~closed, NEW s \in owed
               PROVE  \/ Owing(s[1])
                      \/ \E i \in 1 .. Len(Underway) : IsControlOf(Underway[i], s[1])
    BY DEF LossAnnounced, Owing
  <2>1. s[1] \in Workspaces
    BY DEF Types, HistoryTyped
  <2>2. Owing(s[1]) \/ ControlUnderway(s[1])
    BY <2>1 DEF Announces, Announced
  <2> QED
    BY <2>2, UnderwayHas
<1> QED
  BY <1>1, <1>2, <1>3, PTL DEF Spec
=============================================================================
