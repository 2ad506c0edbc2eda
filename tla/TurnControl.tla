----------------------------- MODULE TurnControl -----------------------------
(***************************************************************************)
(* The turns of one thread: turns.Service (backend/internal/turns), which  *)
(* starts and interrupts them, and the maps of the runtime instance        *)
(* (backend/internal/runtime/manager.go) that say which turn is active,    *)
(* being interrupted or the last to have ended, and which client request   *)
(* a turn comes from.                                                      *)
(*                                                                         *)
(* A turn that a start makes is named by the start, which is also its      *)
(* clientTurnRequestId when it has one.  Processes and instances are       *)
(* numbered; 0 is none.  Starting a process is one step here and several   *)
(* in RuntimeManager; a call ends as BridgeClient shows it may, with an    *)
(* answer, an error or nothing at all.                                     *)
(***************************************************************************)
EXTENDS Integers, Sequences, FiniteSets, TLC

CONSTANTS Starters,      \* calls of turns.Service.Start, one each
          Labelled,      \* the starters with a clientTurnRequestId
          Interrupters,  \* goroutines that call Interrupt, any number of times
          MaxProcs, MaxInstances,   \* bounds
          None

ASSUME TurnAssumption ==
    /\ Labelled \subseteq Starters
    /\ Starters \cap Interrupters = {}
    /\ None \notin Starters \cup Interrupters
    /\ MaxProcs \in Nat \ {0}
    /\ MaxInstances \in Nat \ {0}

VARIABLES
    current,    \* Manager.runtimes[workspaceID]
    made,       \* instances made so far
    maps,       \* per instance, the entries of the thread in its five maps
    client,     \* per instance, its process
    procs,      \* processes started so far
    proc,       \* per process: instance, life, stdin, stdout, the turn it runs
                \* and whether it has announced it
    call,       \* per starter and interrupter, where it is
    shown,      \* per turn, what the last of its published events says
    label,      \* per turn, the clientTurnRequestId its turn/started carried
    home,       \* history: per turn, the process that took it on
    over,       \* history: turns that ended, or whose process did
    forgotten,  \* history: turns whose end is not marked any more while their
                \* Start, or their turn/started, has still to be handled
    dropped,    \* history: turns whose entry made way for an answer or for
                \* another turn, or whose turn/started the close overtook
    mixed       \* history: starts that were under way at the same time

runtimeVars == <<current, made, maps, client>>
history == <<home, over, forgotten, dropped, mixed>>
vars == <<runtimeVars, procs, proc, call, shown, label, history>>

Turns == Starters
Goroutines == Starters \cup Interrupters
Instances == 1 .. MaxInstances
Procs == 1 .. MaxProcs

Message(kind, id, result) == [kind |-> kind, id |-> id, result |-> result]

NoTurns == [active |-> None, interrupting |-> None, last |-> None,
            pending |-> None, byTurn |-> [t \in Turns |-> None]]

NotStarted == [inst |-> 0, life |-> "none", stdin |-> {}, stdout |-> <<>>,
               turn |-> None, announced |-> FALSE]

IdleCall == [pc |-> "idle", inst |-> 0, p |-> 0, turn |-> None,
             result |-> "ok", again |-> FALSE]

Init ==
    /\ current = 1 /\ made = 1
    /\ maps = [i \in Instances |-> NoTurns]
    /\ client = [i \in Instances |-> 0]
    /\ procs = 0
    /\ proc = [p \in Procs |-> NotStarted]
    /\ call = [g \in Goroutines |-> IdleCall]
    /\ shown = [t \in Turns |-> "none"]
    /\ label = [t \in Turns |-> None]
    /\ home = [t \in Turns |-> 0]
    /\ over = {} /\ forgotten = {} /\ dropped = {} /\ mixed = {}
-----------------------------------------------------------------------------
(***************************************************************************)
(* The instance's maps                                                     *)
(***************************************************************************)
Started(m, t) == [m EXCEPT !.active = t, !.interrupting = None, !.last = None]

Without(m, t) ==
    [m EXCEPT !.active = IF @ = t THEN None ELSE @,
              !.interrupting = IF @ = t THEN None ELSE @]

Ended(m, t) == [Without(m, t) EXCEPT !.last = t, !.byTurn[t] = None]

\* Wrong variant: not looking at the last terminal turn.
RememberedAlways(m, t) ==
    IF t = None THEN [m EXCEPT !.active = None, !.interrupting = None] ELSE Started(m, t)

Remembered(m, t) ==
    CASE t = None   -> [m EXCEPT !.active = None, !.interrupting = None]
      [] m.last = t -> m
      [] OTHER      -> Started(m, t)

BeingInterrupted(m) == [m EXCEPT !.active = None, !.interrupting = m.active]

Finished(m, t) == [m EXCEPT !.interrupting = IF @ = t THEN None ELSE @]

Restored(m, t) ==
    IF m.interrupting # t THEN m
    ELSE [m EXCEPT !.interrupting = None,
                   !.active = IF m.last # t /\ @ = None THEN t ELSE @]

\* What attachClientTurnRequestID puts on a turn/started.
LabelFor(m, t) == IF m.byTurn[t] # None THEN m.byTurn[t] ELSE m.pending

Attached(m, t) ==
    IF m.byTurn[t] # None \/ m.pending = None THEN m
    ELSE [m EXCEPT !.byTurn[t] = m.pending, !.pending = None]

Correlating(m, c) == IF c \in Labelled THEN [m EXCEPT !.pending = c] ELSE m

\* Wrong variant: a failed start leaves its pending request behind.
KeepsPending(m, c) == m

Uncorrelated(m, c) == [m EXCEPT !.pending = IF @ = c THEN None ELSE @]

Correlated(m, c, t) ==
    IF c \notin Labelled THEN m
    ELSE IF t = None THEN Uncorrelated(m, c)
    ELSE [Uncorrelated(m, c) EXCEPT !.byTurn[t] = c]

\* What an operation makes of the workspace's instance, if there is one.
InCurrent(m) == IF current = 0 THEN maps ELSE [maps EXCEPT ![current] = m]

Tracks(m, t) == m.active = t \/ m.interrupting = t

TracksSome(m) == {t \in Turns : Tracks(m, t)}

\* The turns an operation takes out of the maps.
DroppedBy(new) ==
    UNION {TracksSome(maps[i]) \ TracksSome(new[i]) : i \in Instances}
-----------------------------------------------------------------------------
(***************************************************************************)
(* Calls to the process                                                    *)
(***************************************************************************)
At(g, pc) == call[g].pc = pc

Go(g, pc) == call' = [call EXCEPT ![g].pc = pc]

Return(g) ==
    call' = [call EXCEPT ![g] = [IdleCall EXCEPT
                !.pc = IF g \in Starters THEN "done" ELSE "idle"]]

Answered(g, result) == call' = [call EXCEPT ![g].pc = "answered", ![g].result = result]

Request(g) == [by |-> g, turn |-> call[g].turn]

\* Manager.Call: the workspace's process at the time, started if there is none.
Send(g) ==
    /\ At(g, "call")
    /\ IF current = 0 \/ (client[current] = 0 /\ procs = MaxProcs)
       THEN /\ Answered(g, "error")
            /\ UNCHANGED <<client, procs, proc>>
       ELSE LET p == IF client[current] = 0 THEN procs + 1 ELSE client[current] IN
            /\ call' = [call EXCEPT ![g].pc = "sent", ![g].p = p]
            /\ client' = [client EXCEPT ![current] = p]
            /\ IF client[current] = 0
               THEN /\ procs' = p
                    /\ proc' = [proc EXCEPT ![p] = [NotStarted EXCEPT
                          !.inst = current, !.life = "alive", !.stdin = {Request(g)}]]
               ELSE /\ proc' = [proc EXCEPT ![p].stdin = @ \cup {Request(g)}]
                    /\ UNCHANGED procs
    /\ UNCHANGED <<current, made, maps, shown, label, history>>

\* The bridge has closed; the zero message passes for an answer without a turn.
SeesClosed(g) ==
    /\ At(g, "sent")
    /\ proc[call[g].p].life # "alive"
    /\ \E result \in {"error", "empty"} : Answered(g, result)
    /\ UNCHANGED <<runtimeVars, procs, proc, shown, label, history>>

\* The caller's own context ends; the request may still be served.
ContextEnds(g) ==
    /\ At(g, "sent")
    /\ Answered(g, "error")
    /\ UNCHANGED <<runtimeVars, procs, proc, shown, label, history>>
-----------------------------------------------------------------------------
(***************************************************************************)
(* Start                                                                   *)
(***************************************************************************)
\* A turn/start that may still be answered, or whose turn/started is to come.
Outstanding(t) ==
    \/ call[t].pc \in {"call", "sent", "answered"}
    \/ \E p \in Procs :
          \/ [by |-> t, turn |-> None] \in proc[p].stdin
          \/ proc[p].turn = t /\ ~proc[p].announced
          \/ \E i \in 1 .. Len(proc[p].stdout) :
                proc[p].stdout[i].kind = "started" /\ proc[p].stdout[i].id = t

\* The turns whose start, or news of whose start, is still to be handled.
StartToCome == {t \in Turns : ~At(t, "done") \/ Outstanding(t)}

\* TurnStart up to its Call: beginTurnStartCorrelation on the instance it finds.
StartBegin(c) ==
    /\ At(c, "idle")
    /\ call' = [call EXCEPT ![c].pc = "call", ![c].inst = current]
    /\ maps' = InCurrent(Correlating(maps[current], c))
    /\ LET others == {t \in Turns \ {c} : Outstanding(t)} IN
       mixed' = IF others = {} THEN mixed ELSE mixed \cup others \cup {c}
    /\ UNCHANGED <<current, made, client, procs, proc, shown, label, home, over,
                   forgotten, dropped>>

\* finishTurnStartCorrelation and failTurnStartCorrelation, on that instance.
StartCorrelated(c, i) ==
    CASE call[c].result = "ok"    -> Correlated(maps[i], c, c)
      [] call[c].result = "empty" -> Correlated(maps[i], c, None)
      [] OTHER                    -> Uncorrelated(maps[i], c)

\* The end of TurnStart, and what Start makes of its answer; it is refused for
\* an empty rollout, for good, or, the first time, for a thread that has to be
\* loaded (thread/resume, which may be refused in the same ways).
StartAnswered(c) ==
    /\ At(c, "answered")
    /\ LET i == call[c].inst IN
       maps' = IF i = 0 THEN maps ELSE [maps EXCEPT ![i] = StartCorrelated(c, i)]
    /\ \/ call[c].result \in {"ok", "empty"} /\ Go(c, "remember")
       \/ call[c].result = "refused" /\ Go(c, "recycle")
       \/ /\ call[c].result = "refused"
          /\ ~call[c].again
          /\ call' = [call EXCEPT ![c] = [IdleCall EXCEPT !.again = TRUE]]
       \/ call[c].result \in {"refused", "error"} /\ Return(c)
    /\ UNCHANGED <<current, made, client, procs, proc, shown, label, history>>

RememberActiveTurn(c) ==
    /\ At(c, "remember")
    /\ Return(c)
    /\ LET t == IF call[c].result = "ok" THEN c ELSE None IN
       maps' = InCurrent(Remembered(maps[current], t))
    /\ dropped' = dropped \cup DroppedBy(maps')
    /\ forgotten' = forgotten \cup ((over \cap StartToCome) \ {c})
    /\ UNCHANGED <<current, made, client, procs, proc, shown, label, home, over, mixed>>
-----------------------------------------------------------------------------
(***************************************************************************)
(* Interrupt; without an active turn, or when one is being interrupted, it *)
(* returns at once.  An interrupter with a request that is yet unanswered  *)
(* begins no other, so that its name can stand for the request's id.       *)
(***************************************************************************)
Unanswered(i) ==
    \E p \in Procs :
        \/ \E request \in proc[p].stdin : request.by = i
        \/ \E k \in 1 .. Len(proc[p].stdout) : proc[p].stdout[k].id = i

BeginInterrupt(i) ==
    /\ i \in Interrupters
    /\ At(i, "idle")
    /\ ~Unanswered(i)
    /\ current # 0
    /\ maps[current].interrupting = None
    /\ maps[current].active # None
    /\ call' = [call EXCEPT ![i] = [IdleCall EXCEPT !.pc = "call",
                                                    !.turn = maps[current].active]]
    /\ maps' = InCurrent(BeingInterrupted(maps[current]))
    /\ UNCHANGED <<current, made, client, procs, proc, shown, label, history>>

\* interruptRuntimeCallTimeout
TimesOut(i) ==
    /\ i \in Interrupters
    /\ At(i, "sent")
    /\ Answered(i, "timeout")
    /\ UNCHANGED <<runtimeVars, procs, proc, shown, label, history>>

\* FinishInterrupt, and after a timeout on to Recycle.
FinishInterrupt(i) ==
    /\ i \in Interrupters
    /\ At(i, "answered")
    /\ call[i].result \in {"ok", "empty", "timeout"}
    /\ IF call[i].result = "timeout" THEN Go(i, "recycle") ELSE Return(i)
    /\ maps' = InCurrent(Finished(maps[current], call[i].turn))
    /\ dropped' = dropped \cup DroppedBy(maps')
    /\ UNCHANGED <<current, made, client, procs, proc, shown, label, home, over,
                   forgotten, mixed>>

RestoreInterruptedTurn(i) ==
    /\ i \in Interrupters
    /\ At(i, "answered")
    /\ call[i].result \in {"refused", "error"}
    /\ Return(i)
    /\ maps' = InCurrent(Restored(maps[current], call[i].turn))
    /\ UNCHANGED <<current, made, client, procs, proc, shown, label, history>>
-----------------------------------------------------------------------------
(***************************************************************************)
(* Recycle: the instance is taken out and its process closed; once that is *)
(* done a new instance takes its place, unless one has.                    *)
(***************************************************************************)
TakenBy(p) == {t \in Turns : home[t] # 0 /\ home[t] = p}

\* closeWithError up to the kill.  The process may have died before it wrote
\* what is lost of its output, so that nothing has to be cut off here.
Closes(p) ==
    proc' = [proc EXCEPT ![p].life = "closing", ![p].stdin = {}, ![p].turn = None,
                         ![p].announced = FALSE]

RecycleRemove(g) ==
    /\ At(g, "recycle")
    /\ made < MaxInstances
    /\ LET p == IF current = 0 THEN 0 ELSE client[current] IN
       /\ call' = [call EXCEPT ![g].pc = "recycling", ![g].p = p]
       /\ IF p # 0 /\ proc[p].life = "alive" THEN Closes(p) ELSE UNCHANGED proc
    /\ current' = 0
    /\ forgotten' = forgotten \cup ((over \cup TakenBy(call'[g].p)) \cap StartToCome)
    /\ UNCHANGED <<made, maps, client, procs, shown, label, home, over, dropped, mixed>>

RecycleConfigure(g) ==
    /\ At(g, "recycling")
    /\ call[g].p # 0 => proc[call[g].p].life = "closed"
    /\ Return(g)
    /\ IF current = 0
       THEN current' = made + 1 /\ made' = made + 1
       ELSE UNCHANGED <<current, made>>
    /\ UNCHANGED <<maps, client, procs, proc, shown, label, history>>
-----------------------------------------------------------------------------
(***************************************************************************)
(* The app-server, as far as src/ relies on it: one turn of the thread     *)
(* runs at a time, announced before it ends, and everything it says is in  *)
(* order.                                                                  *)
(***************************************************************************)
Serve(p, request, turn, result) ==
    proc' = [proc EXCEPT ![p].stdin = @ \ {request}, ![p].turn = turn,
                         ![p].announced = @ /\ turn = proc[p].turn,
                         ![p].stdout = Append(@, Message("response", request.by, result))]

ServeRefused(p, request) == Serve(p, request, proc[p].turn, "refused")

ServeStart(p, request) ==
    /\ request.by \in Starters
    /\ proc[p].turn = None
    /\ Serve(p, request, request.by, "ok")

\* The turn ends in a step of its own, and may have ended by itself.
ServeInterrupt(p, request) ==
    /\ request.by \in Interrupters
    /\ Serve(p, request, proc[p].turn, "ok")

ServeRequest(p) ==
    /\ proc[p].life = "alive"
    /\ \E request \in proc[p].stdin :
          \/ ServeRefused(p, request) /\ UNCHANGED home
          \/ ServeStart(p, request) /\ home' = [home EXCEPT ![request.by] = p]
          \/ ServeInterrupt(p, request) /\ UNCHANGED home
    /\ UNCHANGED <<runtimeVars, procs, call, shown, label, over, forgotten, dropped, mixed>>

Notify(p, kind, turn, announced) ==
    proc' = [proc EXCEPT ![p].turn = turn, ![p].announced = announced,
                         ![p].stdout = Append(@, Message(kind, proc[p].turn, "ok"))]

TurnStarts(p) ==
    /\ proc[p].life = "alive"
    /\ proc[p].turn # None /\ ~proc[p].announced
    /\ Notify(p, "started", proc[p].turn, TRUE)
    /\ UNCHANGED <<runtimeVars, procs, call, shown, label, history>>

TurnEnds(p) ==
    /\ proc[p].life = "alive"
    /\ proc[p].announced
    /\ Notify(p, "terminal", None, FALSE)
    /\ UNCHANGED <<runtimeVars, procs, call, shown, label, history>>

Exits(p) ==
    /\ proc[p].life = "alive"
    /\ Closes(p)
    /\ UNCHANGED <<runtimeVars, procs, call, shown, label, history>>
-----------------------------------------------------------------------------
(***************************************************************************)
(* The bridge's reader: answers to their calls, notifications to the       *)
(* instance (HandleNotification: attachClientTurnRequestID, trackTurn and  *)
(* publish, in one step).  It drains what it holds after the process has   *)
(* closed.                                                                 *)
(***************************************************************************)
Reads(p, kind) ==
    /\ proc[p].stdout # <<>>
    /\ Head(proc[p].stdout).kind = kind

Read(p) == proc' = [proc EXCEPT ![p].stdout = Tail(@)]

HandleResponse(p) ==
    /\ Reads(p, "response")
    /\ LET m == Head(proc[p].stdout) IN
       IF At(m.id, "sent") /\ call[m.id].p = p /\ proc[p].life \in {"alive", "closing"}
       THEN Answered(m.id, m.result)
       ELSE UNCHANGED call
    /\ Read(p)
    /\ UNCHANGED <<runtimeVars, procs, shown, label, history>>

HandleTurnStarted(p) ==
    /\ Reads(p, "started")
    /\ LET m == Head(proc[p].stdout)
           i == proc[p].inst IN
       /\ maps' = [maps EXCEPT ![i] = Started(Attached(@, m.id), m.id)]
       /\ shown' = [shown EXCEPT ![m.id] = "running"]
       /\ label' = [label EXCEPT ![m.id] = LabelFor(maps[i], m.id)]
       /\ Read(p)
       /\ dropped' = dropped \cup DroppedBy(maps') \cup
              (IF proc[p].life \in {"alive", "closing"} THEN {} ELSE {m.id})
       /\ forgotten' = forgotten \cup ((over \cap StartToCome) \ {m.id})
    /\ UNCHANGED <<current, made, client, procs, call, home, over, mixed>>

HandleTurnEnded(p) ==
    /\ Reads(p, "terminal")
    /\ LET m == Head(proc[p].stdout) IN
       /\ maps' = [maps EXCEPT ![proc[p].inst] = Ended(@, m.id)]
       /\ Read(p)
       /\ shown' = [shown EXCEPT ![m.id] = "ended"]
       /\ over' = over \cup {m.id}
       /\ forgotten' = forgotten \cup ((over \cap StartToCome) \ {m.id})
    /\ UNCHANGED <<current, made, client, procs, call, label, home, dropped, mixed>>

\* Wrong variant: only the active turn, not one that is being interrupted.
ClosedActive(m) == {m.active} \ {None}

\* The turns of a closed process that are still unfinished.
ClosedTurns(m) == {IF m.active # None THEN m.active ELSE m.interrupting} \ {None}

\* The instance forgets its turns; the one it knew of is reported as interrupted
\* (publishSyntheticTerminalEventsOnUnexpectedClose).
HandleClosed(p) ==
    /\ proc[p].life = "closing"
    /\ LET i == proc[p].inst IN
       /\ maps' = [maps EXCEPT ![i] = NoTurns]
       /\ client' = [client EXCEPT ![i] = 0]
       /\ shown' = [t \in Turns |-> IF t \in ClosedTurns(maps[i]) THEN "ended" ELSE shown[t]]
    /\ proc' = [proc EXCEPT ![p].life = "closed"]
    /\ over' = over \cup TakenBy(p)
    /\ forgotten' = forgotten \cup (over' \cap StartToCome)
    /\ UNCHANGED <<current, made, procs, call, label, home, dropped, mixed>>
-----------------------------------------------------------------------------
CallStep(g) ==
    \/ Send(g)
    \/ SeesClosed(g)
    \/ RecycleRemove(g)
    \/ RecycleConfigure(g)

StartStep(c) ==
    c \in Starters /\ (StartAnswered(c) \/ RememberActiveTurn(c))

InterruptStep(i) == TimesOut(i) \/ FinishInterrupt(i) \/ RestoreInterruptedTurn(i)

ReaderStep(p) ==
    \/ HandleResponse(p)
    \/ HandleTurnStarted(p)
    \/ HandleTurnEnded(p)

ServerStep(p) == ServeRequest(p) \/ TurnStarts(p) \/ TurnEnds(p) \/ Exits(p)

Next ==
    \/ \E g \in Goroutines : CallStep(g) \/ ContextEnds(g)
    \/ \E c \in Starters : StartBegin(c) \/ StartStep(c)
    \/ \E i \in Interrupters : BeginInterrupt(i) \/ InterruptStep(i)
    \/ \E p \in Procs : ReaderStep(p) \/ HandleClosed(p) \/ ServerStep(p)

Spec == Init /\ [][Next]_vars

-----------------------------------------------------------------------------
Maps == [active : Turns \cup {None}, interrupting : Turns \cup {None},
         last : Turns \cup {None}, pending : Starters \cup {None},
         byTurn : [Turns -> Starters \cup {None}]]

Messages == [kind : {"response", "started", "terminal"},
             id : Goroutines,
             result : {"ok", "refused"}]

\* A turn is never both active and being interrupted.
TypeOK ==
    /\ current \in 0 .. made /\ made \in Instances
    /\ maps \in [Instances -> Maps]
    /\ \A i \in Instances : maps[i].active = None \/ maps[i].interrupting = None
    /\ client \in [Instances -> 0 .. procs]
    /\ procs \in 0 .. MaxProcs
    /\ \A p \in Procs :
          /\ proc[p].inst \in 0 .. made
          /\ proc[p].life \in {"none", "alive", "closing", "closed"}
          /\ proc[p].stdin \subseteq [by : Goroutines, turn : Turns \cup {None}]
          /\ proc[p].stdout \in Seq(Messages)
          /\ proc[p].turn \in Turns \cup {None} /\ proc[p].announced \in BOOLEAN
    /\ \A g \in Goroutines :
          /\ call[g].pc \in {"idle", "call", "sent", "answered",
                             "remember", "recycle", "recycling", "done"}
          /\ call[g].result \in {"ok", "refused", "error", "empty", "timeout"}
    /\ shown \in [Turns -> {"none", "running", "ended"}]
    /\ label \in [Turns -> Starters \cup {None}]
    /\ home \in [Turns -> 0 .. MaxProcs]
    /\ over \cup forgotten \cup dropped \cup mixed \subseteq Turns

(***************************************************************************)
(* A turn the subscribers have been told is running does not hang there    *)
(* when its process ends: the instance tracks it, so that HandleClosed     *)
(* will report it, or the news of its end is on the way; unless its entry  *)
(* was given up earlier (FinishInterrupt before the terminal event, a      *)
(* later Start or turn/started) or the close overtook its turn/started.    *)
(***************************************************************************)
EndOnTheWay(t) ==
    \E p \in Procs : \E k \in 1 .. Len(proc[p].stdout) :
        proc[p].stdout[k].kind = "terminal" /\ proc[p].stdout[k].id = t

RunningTurnIsTracked ==
    \A t \in Turns \ dropped :
        shown[t] = "running" =>
            EndOnTheWay(t) \/ \E i \in Instances : Tracks(maps[i], t)

(***************************************************************************)
(* A turn that is over does not become active again: whatever comes late,  *)
(* the answer of its own turn/start, a failed interrupt or a second start, *)
(* the marker of the last terminal turn keeps it out.  It is one marker    *)
(* per thread, gone when another turn starts or ends or the process does:  *)
(* a Start not yet done by then brings its turn back.                      *)
(***************************************************************************)
EndedTurnStaysOut ==
    \A i \in Instances : \A t \in over : Tracks(maps[i], t) => t \in forgotten

(***************************************************************************)
(* A turn/started carries the clientTurnRequestId of the request it comes  *)
(* from or none, so that the browser settles the right optimistic turn;    *)
(* only starts of the thread that overlap can mix theirs up (one pending   *)
(* request per thread).                                                    *)
(***************************************************************************)
LabelIsRight ==
    \A t \in Turns : label[t] \notin {t, None} => {t, label[t]} \subseteq mixed
=============================================================================
