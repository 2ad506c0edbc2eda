--------------------------- MODULE StreamLeadership ---------------------------
(***************************************************************************)
(* The tabs of one browser that show the same workspace (useWorkspaceStream *)
(* .ts, workspace-stream-broadcast.ts): one of them leads, holds the        *)
(* WebSocket and forwards its events over a BroadcastChannel; the others    *)
(* follow.  Leadership is settled by presence and heartbeat messages and    *)
(* the order of the tabs' ids.                                              *)
(*                                                                          *)
(* A step is one callback of a tab (message, timer, socket event, mount):   *)
(* JavaScript runs each to its end.  Time is abstract: a leader or a peer   *)
(* is stale some time after it is gone; one that is alive is thought stale  *)
(* as an incident (throttled timers of a hidden tab).  Of server and log    *)
(* there is what WorkspaceStream shows: a connection brings the events      *)
(* after afterSeq in order, those up to the head it found marked as replay. *)
(* Events are applied as they come; their batches are in WorkspaceStream.   *)
(***************************************************************************)
EXTENDS Integers, Sequences, FiniteSets, FiniteSetsExt

CONSTANTS Tabs,           \* instance ids, compared as the code compares strings
          MaxSeq,         \* bound on the events
          MaxChanges,     \* bound on the subscriptions
          MaxIncidents    \* bound on broken connections, live tabs thought
                          \* stale and checks of the leadership out of turn

ASSUME TabsAssumption ==
    /\ IsFiniteSet(Tabs) /\ Tabs \subseteq Nat \ {0}
    /\ MaxSeq \in Nat /\ MaxChanges \in Nat /\ MaxIncidents \in Nat

VARIABLES
    page,    \* page[t]: "loaded" (nothing subscribed), "open" or "gone"
    stream,  \* stream[t]: the WorkspaceStream of the tab
    inbox,   \* inbox[t]: messages of the channel not yet received
    last,    \* last[t]: lastEventSeqByWorkspace of the tab's session store
    head,    \* the last number of the server's log
    lagged,  \* tabs that lack an event nobody is about to send them (history)
    spent    \* how much of each bound is used

vars == <<page, stream, inbox, last, head, lagged, spent>>

Nobody == 0
NoSeq == -1
NoSocket == [life |-> "none", pos |-> 0, to |-> 0]

NewStream ==
    [isLeader |-> FALSE, leaderId |-> Nobody, fresh |-> FALSE, peers |-> {},
     socket |-> NoSocket, replaced |-> FALSE, reconnect |-> FALSE,
     override |-> NoSeq, asked |-> NoSeq]

Init ==
    /\ page = [t \in Tabs |-> "loaded"]
    /\ stream = [t \in Tabs |-> NewStream]
    /\ inbox = [t \in Tabs |-> <<>>]
    /\ head = 2
    /\ last \in [Tabs -> 1 .. head]
    /\ lagged = {}
    /\ spent = [changes |-> 0, incidents |-> 0]

Open == {t \in Tabs : page[t] = "open"}

Spend(what, max) ==
    /\ spent[what] < max
    /\ spent' = [spent EXCEPT ![what] = @ + 1]
-----------------------------------------------------------------------------
(***************************************************************************)
(* The channel: everybody else who is listening gets the message.          *)
(***************************************************************************)
Presence(t)    == [type |-> "presence", from |-> t, seq |-> 0, replay |-> FALSE]
Heartbeat(t)   == [type |-> "heartbeat", from |-> t, seq |-> 0, replay |-> FALSE]
Release(t)     == [type |-> "release", from |-> t, seq |-> 0, replay |-> FALSE]
Forward(t, e)  == [type |-> "event", from |-> t, seq |-> e.seq, replay |-> e.replay]
Request(t, n)  == [type |-> "recovery-request", from |-> t, seq |-> n, replay |-> FALSE]

\* A heartbeat right behind an equal one changes nothing.
Queued(box, ms) ==
    IF box # <<>> /\ ms # <<>> /\ Head(ms) = box[Len(box)] /\ Head(ms).type = "heartbeat"
    THEN box \o Tail(ms) ELSE box \o ms

Posted(boxes, t, ms) ==
    [u \in Tabs |-> IF u \in Open \ {t} THEN Queued(boxes[u], ms) ELSE boxes[u]]
-----------------------------------------------------------------------------
(***************************************************************************)
(* What the functions of the hook make of a tab's stream.                  *)
(***************************************************************************)
Connecting(s) == s.socket.life \in {"connecting", "open"}

\* Wrong variant: the number is that of the storage the tabs share.
AfterSeqOfStorage(t, s) ==
    IF s.override # NoSeq THEN s.override ELSE Max({last[u] : u \in Tabs})

\* Wrong variant: a replay starts at the leader's own number whoever asked for it.
AfterOwnSeq(t, s) == last[t]

\* buildWorkspaceStreamPath
AfterSeq(t, s) == IF s.override # NoSeq THEN s.override ELSE last[t]

\* openWorkspaceSocket: a socket that is still closing is replaced.
Dialled(t, s) ==
    IF ~s.isLeader \/ Connecting(s) THEN s
    ELSE [s EXCEPT !.socket = [life |-> "connecting", pos |-> AfterSeq(t, s), to |-> 0],
                   !.replaced = @ \/ s.socket.life = "closing",
                   !.reconnect = FALSE, !.override = NoSeq]

\* becomeWorkspaceStreamLeader
Leading(t, s) == Dialled(t, [s EXCEPT !.isLeader = TRUE, !.leaderId = t, !.fresh = FALSE])

\* selectWorkspaceStreamLeaderCandidate
Preferred(t, s) == CHOOSE u \in s.peers \cup {t} : \A v \in s.peers \cup {t} : u <= v

FollowsAnother(t, s) == s.fresh /\ s.leaderId \notin {Nobody, t} /\ Preferred(t, s) # t

\* ensureWorkspaceStreamLeadership
Ensured(t, s) == IF FollowsAnother(t, s) THEN s ELSE Leading(t, s)

\* Wrong variant: a tab that yields keeps its mark of leadership.
FollowingAsLeader(s, l) ==
    [s EXCEPT !.leaderId = l, !.fresh = TRUE, !.socket = NoSocket, !.reconnect = FALSE]

\* becomeWorkspaceStreamFollower, closeWorkspaceSocket
Following(s, l) ==
    [s EXCEPT !.isLeader = FALSE, !.leaderId = l, !.fresh = TRUE,
              !.socket = NoSocket, !.reconnect = FALSE]

\* scheduleReconnect
Reconnecting(s) == [s EXCEPT !.reconnect = @ \/ s.isLeader]

\* socket.close(): onclose comes later.
HungUp(s) ==
    IF Connecting(s) THEN [s EXCEPT !.socket = [NoSocket EXCEPT !.life = "closing"]] ELSE s

SeesPeer(s, u) == [s EXCEPT !.peers = @ \cup {u}]

\* A leader announces itself and each change of its connection.
Announced(t, s, s2) ==
    IF s2.isLeader /\ (~s.isLeader \/ s2.socket.life \notin {s.socket.life, "closing"})
    THEN <<Heartbeat(t)>> ELSE <<>>

Become(t, s2, ms) ==
    /\ stream' = [stream EXCEPT ![t] = s2]
    /\ inbox' = Posted(inbox, t, ms \o Announced(t, stream[t], s2))
-----------------------------------------------------------------------------
(***************************************************************************)
(* handleWorkspaceStreamEvent for an event e with a number, and            *)
(* applySessionEvents: numbers that are known are skipped.                 *)
(***************************************************************************)
IsGap(t, e) == ~e.replay /\ e.seq > last[t] + 1

\* The last number a tab has or is about to have.
Reach(t) == Max({last[t]} \cup {inbox[t][i].seq : i \in 1 .. Len(inbox[t])})

Apply(t, e) ==
    /\ last' = [last EXCEPT ![t] = IF e.seq > @ THEN e.seq ELSE @]
    /\ lagged' = IF \A u \in Open : Reach(u) <= last'[t] THEN lagged \ {t} ELSE lagged

Ignore == UNCHANGED <<last, lagged>>

Behind(tabs) == {t \in tabs : \E u \in tabs : Reach(t) < Reach(u)}

\* What the leader was to send is not on its way any more.
Lapses == lagged' = lagged \cup Behind(Open)

\* requestWorkspaceStreamSeqRecovery; a follower asks once per cooldown.
Asks(t, s) == ~s.isLeader /\ s.asked # last[t]

Recovered(t, s) ==
    IF s.isLeader THEN HungUp(s) ELSE [s EXCEPT !.asked = last[t]]

Requests(t, s) == IF Asks(t, s) THEN <<Request(t, last[t])>> ELSE <<>>
-----------------------------------------------------------------------------
(***************************************************************************)
(* Messages of the channel (handleWorkspaceStreamBroadcastMessage)         *)
(***************************************************************************)
\* Take the first message and act on it: the tab's stream becomes s2, and it
\* posts ms.
Receive(t, s2, ms) ==
    /\ stream' = [stream EXCEPT ![t] = s2]
    /\ inbox' = Posted([inbox EXCEPT ![t] = Tail(@)], t,
                       ms \o Announced(t, stream[t], s2))
    /\ UNCHANGED <<page, head, spent>>

NextIs(t, type) == t \in Open /\ inbox[t] # <<>> /\ Head(inbox[t]).type = type

ReceivePresence(t) ==
    LET s == stream[t] IN
    /\ NextIs(t, "presence")
    /\ Receive(t, SeesPeer(s, Head(inbox[t]).from),
               IF s.isLeader THEN <<Heartbeat(t)>> ELSE <<>>)
    /\ Ignore

\* Whoever leads yields to any other heartbeat: the comparison of the ids
\* (shouldYieldWorkspaceStreamLeadership) decides between equal branches.
ReceiveHeartbeat(t) ==
    LET u == Head(inbox[t]).from IN
    /\ NextIs(t, "heartbeat")
    /\ Receive(t, Following(SeesPeer(stream[t], u), u), <<>>)
    /\ IF stream[t].isLeader THEN Lapses ELSE UNCHANGED lagged
    /\ UNCHANGED last

ReceiveRelease(t) ==
    LET s == stream[t] IN
    /\ NextIs(t, "release")
    /\ Receive(t, IF s.leaderId = Head(inbox[t]).from
                  THEN Ensured(t, [s EXCEPT !.leaderId = Nobody, !.fresh = FALSE])
                  ELSE s, <<>>)
    /\ Ignore

ReceiveEvent(t) ==
    LET s == stream[t]
        e == Head(inbox[t]) IN
    /\ NextIs(t, "event")
    /\ IF IsGap(t, e)
       THEN Ignore /\ Receive(t, Recovered(t, s), Requests(t, s))
       ELSE Apply(t, e) /\ Receive(t, s, <<>>)

\* The least cursor anybody asked for is replayed from.
LeastCursor(s, n) == IF s.override = NoSeq \/ n < s.override THEN n ELSE s.override

\* handleWorkspaceStreamFollowerRecoveryRequest
Accepting(s, n) ==
    LET s1 == [s EXCEPT !.override = LeastCursor(s, n), !.reconnect = FALSE] IN
    IF ~s.isLeader THEN s ELSE IF Connecting(s) THEN HungUp(s1) ELSE Reconnecting(s1)

ReceiveRequest(t) ==
    LET m == Head(inbox[t]) IN
    /\ NextIs(t, "recovery-request")
    /\ Receive(t, Accepting(SeesPeer(stream[t], m.from), m.seq), <<>>)
    /\ lagged' = IF stream[t].isLeader /\ Reach(m.from) = m.seq
                 THEN lagged \ {m.from} ELSE lagged
    /\ UNCHANGED last
-----------------------------------------------------------------------------
(***************************************************************************)
(* Timers                                                                  *)
(***************************************************************************)
Idle == UNCHANGED <<page, last, head, lagged, spent>>

\* What a tab has posted arrives within the second before its next tick.
Delivered(t) ==
    \A u \in Tabs : \A i \in 1 .. Len(inbox[u]) : inbox[u][i].from # t

\* activityTimer
Tick(t) ==
    LET s == stream[t] IN
    /\ t \in Open
    /\ Delivered(t)
    /\ IF s.isLeader
       THEN Become(t, s, <<Presence(t), Heartbeat(t)>>)
       ELSE Become(t, Ensured(t, s), <<Presence(t)>>)
    /\ Idle

\* Another view of the tab subscribes, or the election delay is over.
EnsureLeadership(t) ==
    /\ t \in Open
    /\ Become(t, Ensured(t, stream[t]), <<>>)
    /\ Spend("incidents", MaxIncidents)
    /\ UNCHANGED <<page, last, head, lagged>>

CooldownEnds(t) ==
    /\ t \in Open
    /\ stream[t].asked # NoSeq
    /\ stream' = [stream EXCEPT ![t].asked = NoSeq]
    /\ UNCHANGED inbox
    /\ Idle

\* workspaceStreamLeaderStaleAfterMs without a heartbeat of the leader.
LeaderGoesStale(t) ==
    /\ t \in Open
    /\ stream[t].fresh
    /\ stream' = [stream EXCEPT ![t].fresh = FALSE]
    /\ IF stream[t].leaderId \in Open
       THEN Spend("incidents", MaxIncidents)
       ELSE UNCHANGED spent
    /\ UNCHANGED <<page, inbox, last, head, lagged>>

PeerGoesStale(t, u) ==
    /\ t \in Open
    /\ u \in stream[t].peers
    /\ stream' = [stream EXCEPT ![t].peers = @ \ {u}]
    /\ IF u \in Open THEN Spend("incidents", MaxIncidents) ELSE UNCHANGED spent
    /\ UNCHANGED <<page, inbox, last, head, lagged>>
-----------------------------------------------------------------------------
(***************************************************************************)
(* The leader's socket and the server                                      *)
(***************************************************************************)
SocketIs(t, life) == t \in Open /\ stream[t].socket.life = life

\* The server subscribes and reads its head; onopen.
SocketOpens(t) ==
    /\ SocketIs(t, "connecting")
    /\ Become(t, [stream[t] EXCEPT !.socket.life = "open", !.socket.to = head], <<>>)
    /\ Idle

\* onmessage: what is not refused is forwarded, also what is known.
SocketReceives(t) ==
    LET s == [stream[t] EXCEPT !.socket.pos = @ + 1]
        e == [seq |-> s.socket.pos, replay |-> s.socket.pos <= s.socket.to] IN
    /\ SocketIs(t, "open")
    /\ s.socket.pos <= head
    /\ IF IsGap(t, e)
       THEN Ignore /\ Become(t, Recovered(t, s), <<>>)
       ELSE Apply(t, e) /\ Become(t, s, <<Forward(t, e)>>)
    /\ UNCHANGED <<page, head, spent>>

Closed(t) == Become(t, [Reconnecting(stream[t]) EXCEPT !.socket = NoSocket], <<>>)

SocketCloses(t) ==
    /\ SocketIs(t, "closing")
    /\ Closed(t)
    /\ Idle

\* onclose of a socket that has been replaced goes on as that of the current.
ReplacedSocketCloses(t) ==
    /\ t \in Open
    /\ stream[t].replaced
    /\ stream' = [stream EXCEPT ![t] = [Reconnecting(@) EXCEPT !.replaced = FALSE]]
    /\ inbox' = Posted(inbox, t, IF stream[t].isLeader THEN <<Heartbeat(t)>> ELSE <<>>)
    /\ Idle

\* The network, the server or the watchdog ends the connection.
SocketBreaks(t) ==
    /\ SocketIs(t, "connecting") \/ SocketIs(t, "open")
    /\ Closed(t)
    /\ Spend("incidents", MaxIncidents)
    /\ Lapses
    /\ UNCHANGED <<page, last, head>>

\* reconnectTimer
Reconnect(t) ==
    /\ t \in Open
    /\ stream[t].reconnect
    /\ Become(t, Dialled(t, [stream[t] EXCEPT !.reconnect = FALSE]), <<>>)
    /\ Idle

AppendEvent ==
    /\ head < MaxSeq
    /\ head' = head + 1
    /\ UNCHANGED <<page, stream, inbox, last, lagged, spent>>
-----------------------------------------------------------------------------
(***************************************************************************)
(* Tabs come and go                                                        *)
(***************************************************************************)
\* subscribeWorkspaceStream: the presence, then ensureWorkspaceStreamLeadership,
\* which finds no leader.
Subscribe(t) ==
    /\ page[t] = "loaded"
    /\ page' = [page EXCEPT ![t] = "open"]
    /\ stream' = [stream EXCEPT ![t] = Ensured(t, NewStream)]
    /\ inbox' = Posted(inbox, t, <<Presence(t), Heartbeat(t)>>)
    /\ lagged' = lagged \cup Behind(Open \cup {t})
    /\ Spend("changes", MaxChanges)
    /\ UNCHANGED <<last, head>>

\* disposeWorkspaceStream
Dispose(t) ==
    /\ t \in Open
    /\ page' = [page EXCEPT ![t] = "loaded"]
    /\ stream' = [stream EXCEPT ![t] = NewStream]
    /\ inbox' = [Posted(inbox, t, IF stream[t].isLeader THEN <<Release(t)>> ELSE <<>>)
                 EXCEPT ![t] = <<>>]
    /\ lagged' = lagged \cup Behind(Open \ {t})
    /\ UNCHANGED <<last, head, spent>>

\* The tab is closed or crashes: nobody is told.
Vanish(t) ==
    /\ t \in Open
    /\ page' = [page EXCEPT ![t] = "gone"]
    /\ stream' = [stream EXCEPT ![t] = NewStream]
    /\ inbox' = [inbox EXCEPT ![t] = <<>>]
    /\ lagged' = lagged \cup Behind(Open \ {t})
    /\ UNCHANGED <<last, head, spent>>
-----------------------------------------------------------------------------
ReceiveNext(t) ==
    \/ ReceivePresence(t)
    \/ ReceiveHeartbeat(t)
    \/ ReceiveRelease(t)
    \/ ReceiveEvent(t)
    \/ ReceiveRequest(t)

SocketStep(t) ==
    \/ SocketOpens(t)
    \/ SocketReceives(t)
    \/ SocketCloses(t)
    \/ ReplacedSocketCloses(t)
    \/ Reconnect(t)

Next ==
    \/ \E t \in Tabs :
          \/ ReceiveNext(t) \/ SocketStep(t) \/ SocketBreaks(t) \/ Tick(t)
          \/ EnsureLeadership(t) \/ CooldownEnds(t) \/ LeaderGoesStale(t)
          \/ Subscribe(t) \/ Dispose(t) \/ Vanish(t)
    \/ \E t, u \in Tabs : PeerGoesStale(t, u)
    \/ AppendEvent

Spec == Init /\ [][Next]_vars

FairSpec ==
    /\ Spec
    /\ \A t \in Tabs :
          /\ WF_vars(ReceiveNext(t)) /\ WF_vars(SocketStep(t)) /\ WF_vars(Tick(t))
          /\ WF_vars(LeaderGoesStale(t) /\ stream[t].leaderId \notin Open)
-----------------------------------------------------------------------------
(***************************************************************************)
(* Properties                                                              *)
(***************************************************************************)
\* An open tab moves its number past an event it never applied only if it was
\* behind the others: what a leader gets and forwards across changes of leader
\* and connection has no hole.  A tab that lags may skip, for the check for
\* gaps lets replayed events pass (handleWorkspaceStreamEvent), and the leader
\* replays from its own number.
NoSilentSkip ==
    [][\A t \in Open : last'[t] > last[t] + 1 => t \in lagged]_vars

Agreed ==
    \A t, u \in Open :
        /\ \E v \in Open : stream[v].isLeader
        /\ stream[u].isLeader => stream[t].leaderId = u

\* However tabs come, go, yield to each other at once and take each other for
\* gone, in the end exactly one of those that are open leads, and the others
\* follow it (ensureWorkspaceStreamLeadership, becomeWorkspaceStreamFollower).
OneLeaderInTheEnd == <>[]Agreed

\* In the end every open tab has every event, unless it lagged and no leader
\* has taken up a request of it for a replay, or that replay was cut off.
TabsCatchUp == <>[](\A t \in Open : t \in lagged \/ last[t] = head)
=============================================================================
