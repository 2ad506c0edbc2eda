--------------------------- MODULE SubscriberQueue ---------------------------
(***************************************************************************)
(* The per-subscriber queue of the event hub                               *)
(* (backend/internal/events/hub.go), as predicates over a sequence of      *)
(* events.  One predicate per way `subscriber.enqueue` can end, so that    *)
(* the modules that use the queue have one action per outcome.             *)
(*                                                                         *)
(* An event keeps what the queue looks at: its kind (what the method says  *)
(* about dropping and coalescing), its workspace, its stream (thread, turn *)
(* and item or process: the key under which it may be coalesced) and the   *)
(* interval of workspace sequence numbers it covers.  Seq and CoversSeqTo  *)
(* are the same number for every event the hub builds, so `to' is both.    *)
(***************************************************************************)
EXTENDS Integers, Sequences

CONSTANTS SoftLimit,    \* subscriberQueueSoftLimit
          HardLimit     \* subscriberQueueHardLimit

ASSUME LimitsAssumption ==
    /\ SoftLimit \in Nat
    /\ HardLimit \in Nat
    /\ 0 < SoftLimit
    /\ SoftLimit < HardLimit

(***************************************************************************)
(* "delta": text or output delta; "replace": a command output delta with   *)
(* replace = true; "usage": thread/tokenUsage/updated; "critical": any     *)
(* other sequenced method; "dropped": workspace/events/dropped.            *)
(***************************************************************************)
SequencedKinds == {"delta", "replace", "usage", "critical"}

\* Wrong variant: the control event counts as droppable.
IsDroppableOrControl(e) == e.kind \in {"delta", "replace", "usage", "dropped"}

IsDroppable(e) == e.kind \in {"delta", "replace", "usage"}

IsCoalescing(e) == e.kind \in {"delta", "usage"}

\* The control event that announces a loss carries no sequence number.
DroppedControl(ws, none) ==
    [kind |-> "dropped", ws |-> ws, stream |-> none, from |-> 0, to |-> 0]

IsControlOf(e, ws) == e.kind = "dropped" /\ e.ws = ws

(***************************************************************************)
(* Coalescing: the scan runs from the back and stops at the first event of *)
(* the same method and key; if its coverage does not end right before the  *)
(* incoming one, the incoming event is not merged at all.                  *)
(***************************************************************************)
SameKey(a, b) == a.kind = b.kind /\ a.ws = b.ws /\ a.stream = b.stream

LastWithKey(q, e, i) ==
    /\ SameKey(q[i], e)
    /\ \A j \in i + 1 .. Len(q) : ~SameKey(q[j], e)

\* Wrong variant: coverage is not compared.
AnyCoverage(current, incoming) == TRUE

ContiguousCoverage(current, incoming) ==
    \/ current.to = 0
    \/ incoming.from = 0
    \/ incoming.from = current.to + 1

MergesAt(q, e, i) ==
    /\ IsCoalescing(e)
    /\ LastWithKey(q, e, i)
    /\ ContiguousCoverage(q[i], e)

Merges(q, e) == \E i \in 1 .. Len(q) : MergesAt(q, e, i)

\* The merged event keeps its place and covers both.
Merged(q, e, i) == [q EXCEPT ![i].to = e.to]

FirstDroppable(q, i) ==
    /\ IsDroppable(q[i])
    /\ \A j \in 1 .. i - 1 : ~IsDroppable(q[j])

NoDroppable(q) == \A i \in 1 .. Len(q) : ~IsDroppable(q[i])

\* Wrong variant: the event after the chosen one is removed when there is one.
WithoutNext(q, i) ==
    [j \in 1 .. Len(q) - 1 |-> IF j <= i THEN q[j] ELSE q[j + 1]]

Without(q, i) ==
    [j \in 1 .. Len(q) - 1 |-> IF j < i THEN q[j] ELSE q[j + 1]]

(***************************************************************************)
(* The outcomes of enqueue on an open subscriber, in the order the code    *)
(* tries them.                                                             *)
(***************************************************************************)
SoftDrops(q, e) == ~Merges(q, e) /\ Len(q) >= SoftLimit /\ IsDroppable(e)

Admitted(q, e) == ~Merges(q, e) /\ ~SoftDrops(q, e)

EvictsAt(q, e, i) == Admitted(q, e) /\ Len(q) >= HardLimit /\ FirstDroppable(q, i)

HardDrops(q, e) == Admitted(q, e) /\ Len(q) >= HardLimit /\ NoDroppable(q)

Appends(q, e) == Admitted(q, e) /\ Len(q) < HardLimit

(***************************************************************************)
(* enqueueDroppedControlEvent: a queued control event of the workspace     *)
(* absorbs the new one (its count and time only); otherwise the control    *)
(* event is appended, and at the hard limit it takes the place of the      *)
(* first droppable event or, when there is none, of the oldest event.      *)
(***************************************************************************)
Absorbs(q, ws) == \E i \in 1 .. Len(q) : IsControlOf(q[i], ws)

ControlDisplaces(q, i) ==
    /\ i \in 1 .. Len(q)
    /\ Len(q) >= HardLimit
    /\ \/ FirstDroppable(q, i)
       \/ NoDroppable(q) /\ i = 1

Covers(e, n) == e.from <= n /\ n <= e.to /\ e.from # 0
=============================================================================
