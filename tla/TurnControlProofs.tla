-------------------------- MODULE TurnControlProofs --------------------------
(***************************************************************************)
(* Proofs about the turns of a thread, for any number of starts,           *)
(* interrupts, processes and instances, in three parts: types and the      *)
(* lemmas about one step; running turns are tracked and labels are right;  *)
(* a turn that is over stays out.                                          *)
(***************************************************************************)
EXTENDS TurnControl, SequenceTheorems, TLAPS

Places == {"idle", "call", "sent", "answered", "remember", "recycle", "recycling", "done"}

Calls == [pc : Places, inst : Instances \cup {0}, p : Procs \cup {0}, turn : Turns \cup {None},
          result : {"ok", "refused", "error", "empty", "timeout"}, again : BOOLEAN]

Requests == [by : Goroutines, turn : Turns \cup {None}]

\* A notification is about a turn, a response for whoever asked.
Said == {m \in Messages : m.kind # "response" => m.id \in Turns}

Outputs == Seq(Said)

Processes == [inst : Instances \cup {0}, life : {"none", "alive", "closing", "closed"},
              stdin : SUBSET Requests, stdout : Outputs, turn : Turns \cup {None},
              announced : BOOLEAN]

\* What trackTurn's maps never say: two states of one turn, or of two turns.
MapsOK(m) ==
    /\ m \in Maps
    /\ m.active = None \/ m.interrupting = None
    /\ m.last # None => m.last # m.active /\ m.last # m.interrupting

CallOK(e) == e \in Calls /\ (e.pc = "sent" => e.p \in Procs)

ProcOK(q) ==
    /\ q \in Processes
    /\ q.life = "none" => q.stdout = <<>>
    /\ q.life # "none" => q.inst \in Instances
    /\ q.announced => q.turn \in Turns

MapsTyped == maps \in [Instances -> Maps] /\ \A i \in Instances : MapsOK(maps[i])

CallsTyped == call \in [Goroutines -> Calls] /\ \A g \in Goroutines : CallOK(call[g])

ProcsTyped == proc \in [Procs -> Processes] /\ \A p \in Procs : ProcOK(proc[p])

Numbers ==
    /\ made \in Instances /\ current \in 0 .. made /\ (current = 0 => made < MaxInstances)
    /\ procs \in 0 .. MaxProcs
    /\ client \in [Instances -> 0 .. procs]
    /\ \A p \in Procs : proc[p].inst \in 0 .. made

Told ==
    /\ shown \in [Turns -> {"none", "running", "ended"}]
    /\ label \in [Turns -> Starters \cup {None}]
    /\ home \in [Turns -> Procs \cup {0}]
    /\ over \cup forgotten \cup dropped \cup mixed \subseteq Turns

Types == MapsTyped /\ CallsTyped /\ ProcsTyped /\ Numbers /\ Told

(***************************************************************************)
(* What is on a pipe                                                       *)
(***************************************************************************)
IsAbout(m, kind, g) == m.kind = kind /\ m.id = g

Says(q, kind, g) == \E k \in 1 .. Len(q) : IsAbout(q[k], kind, g)

Answers(q, g, result) ==
    \E k \in 1 .. Len(q) : IsAbout(q[k], "response", g) /\ q[k].result = result

\* A turn's start is announced before its end, and a call answered once.
InOrder(q, t) ==
    \A j, k \in 1 .. Len(q) :
        IsAbout(q[j], "started", t) /\ IsAbout(q[k], "terminal", t) => j < k

OnlyAnswer(q, g) ==
    \A j, k \in 1 .. Len(q) :
        IsAbout(q[j], "response", g) /\ IsAbout(q[k], "response", g) => j = k
-----------------------------------------------------------------------------
(* Types.  A step moves at most one call, one process and one instance.    *)
LEMMA OneCallMoves ==
    ASSUME CallsTyped, NEW g \in Goroutines, NEW e, CallOK(e), call' = [call EXCEPT ![g] = e]
    PROVE  CallsTyped'
<1> SUFFICES ASSUME NEW h \in Goroutines PROVE CallOK(call'[h])
  BY DEF CallsTyped, CallOK
<1> QED
  BY DEF CallsTyped

LEMMA OneProcMoves ==
    ASSUME ProcsTyped, NEW p \in Procs, NEW q, ProcOK(q), proc' = [proc EXCEPT ![p] = q]
    PROVE  ProcsTyped'
<1> SUFFICES ASSUME NEW r \in Procs PROVE ProcOK(proc'[r])
  BY DEF ProcsTyped, ProcOK
<1> QED
  BY DEF ProcsTyped

LEMMA OneInstanceMoves ==
    ASSUME MapsTyped, NEW i \in Instances, NEW m, MapsOK(m), maps' = [maps EXCEPT ![i] = m]
    PROVE  MapsTyped'
<1> SUFFICES ASSUME NEW j \in Instances PROVE MapsOK(maps'[j])
  BY DEF MapsTyped, MapsOK
<1> QED
  BY DEF MapsTyped

LEMMA CurrentMoves ==
    ASSUME MapsTyped, Numbers, NEW m, current # 0 => MapsOK(m), maps' = InCurrent(m)
    PROVE  MapsTyped'
<1>1. CASE current = 0
  BY <1>1 DEF InCurrent, MapsTyped, MapsOK
<1>2. CASE current # 0
  <2>1. current \in Instances
    BY <1>2, TurnAssumption DEF Numbers, Instances
  <2> QED
    BY <1>2, <2>1, OneInstanceMoves DEF InCurrent
<1> QED
  BY <1>1, <1>2

(* The operations on the maps keep them sound (trackTurn and the rest).    *)
LEMMA OperationsKeepMaps ==
    ASSUME NEW m, MapsOK(m), NEW t \in Turns, NEW c \in Starters
    PROVE  /\ MapsOK(Started(m, t)) /\ MapsOK(Ended(m, t))
           /\ MapsOK(Remembered(m, t)) /\ MapsOK(Remembered(m, None))
           /\ MapsOK(Attached(m, t)) /\ MapsOK(Started(Attached(m, t), t))
           /\ MapsOK(Correlating(m, c)) /\ MapsOK(Uncorrelated(m, c))
           /\ MapsOK(Correlated(m, c, t)) /\ MapsOK(Correlated(m, c, None))
           /\ MapsOK(NoTurns)
<1> USE TurnAssumption DEF Turns, Maps
<1>1. MapsOK(Started(m, t)) /\ MapsOK(Ended(m, t))
  BY DEF MapsOK, Started, Ended, Without
<1>2. MapsOK(Remembered(m, t)) /\ MapsOK(Remembered(m, None))
  BY <1>1 DEF MapsOK, Remembered
<1>3. MapsOK(Attached(m, t)) /\ MapsOK(Started(Attached(m, t), t))
  BY DEF MapsOK, Attached, Started
<1>4. MapsOK(Correlating(m, c)) /\ MapsOK(Uncorrelated(m, c))
  BY DEF MapsOK, Correlating, Uncorrelated
<1>5. MapsOK(Correlated(m, c, t)) /\ MapsOK(Correlated(m, c, None))
  BY <1>4 DEF MapsOK, Correlated, Uncorrelated
<1>6. MapsOK(NoTurns)
  BY DEF MapsOK, NoTurns
<1> QED
  BY <1>1, <1>2, <1>3, <1>4, <1>5, <1>6

LEMMA InterruptsKeepMaps ==
    ASSUME NEW m, MapsOK(m), NEW t \in Turns \cup {None}
    PROVE  /\ m.interrupting = None /\ m.active # None => MapsOK(BeingInterrupted(m))
           /\ MapsOK(Finished(m, t))
           /\ MapsOK(Restored(m, t))
<1> USE TurnAssumption DEF Turns, Maps
<1>1. m.interrupting = None /\ m.active # None => MapsOK(BeingInterrupted(m))
  BY DEF MapsOK, BeingInterrupted
<1>2. MapsOK(Finished(m, t))
  BY DEF MapsOK, Finished
<1>3. MapsOK(Restored(m, t))
  BY DEF MapsOK, Restored
<1> QED
  BY <1>1, <1>2, <1>3

LEMMA CurrentIsThere ==
    ASSUME Numbers
    PROVE  /\ current = 0 \/ current \in Instances
           /\ \A i \in Instances : client[i] = 0 \/ client[i] \in Procs
           /\ procs # MaxProcs => procs + 1 \in Procs
  BY TurnAssumption DEF Numbers, Instances, Procs

(* What a call holds (Manager.Call, turns.Service).                        *)
LEMMA CallsStep ==
    ASSUME Types, Next
    PROVE  CallsTyped'
<1> USE TurnAssumption DEF Types, Goroutines
<1>1. ASSUME NEW g \in Goroutines, NEW result \in {"ok", "refused", "error", "empty", "timeout"},
             Answered(g, result)
      PROVE  CallsTyped'
  <2> DEFINE e == [call[g] EXCEPT !.pc = "answered", !.result = result]
  <2>1. call' = [call EXCEPT ![g] = e]
    BY <1>1 DEF Answered
  <2>2. call[g] \in Calls
    BY DEF CallsTyped
  <2>3. CallOK(e)
    BY <2>2 DEF CallOK, Calls, Places
  <2> QED
    BY <2>1, <2>3, OneCallMoves
<1>2. ASSUME NEW g \in Goroutines, NEW pc \in Places \ {"sent"}, Go(g, pc) PROVE CallsTyped'
  <2> DEFINE e == [call[g] EXCEPT !.pc = pc]
  <2>1. call' = [call EXCEPT ![g] = e] /\ pc \in Places /\ pc # "sent"
    BY <1>2 DEF Go
  <2>2. CallOK(e)
    BY <2>1 DEF CallsTyped, CallOK, Calls
  <2> QED
    BY <2>1, <2>2, OneCallMoves
<1>3. ASSUME NEW g \in Goroutines, Return(g) PROVE CallsTyped'
  <2>1. PICK pc \in {"done", "idle"} : call' = [call EXCEPT ![g] = [IdleCall EXCEPT !.pc = pc]]
    BY <1>3 DEF Return
  <2>2. CallOK([IdleCall EXCEPT !.pc = pc])
    BY <2>1 DEF CallOK, Calls, Places, IdleCall
  <2> QED
    BY <2>1, <2>2, OneCallMoves
<1>4. ASSUME NEW g \in Goroutines, Send(g) PROVE CallsTyped'
  <2>1. CASE current = 0 \/ (client[current] = 0 /\ procs = MaxProcs)
    BY <1>1, <1>4, <2>1 DEF Send
  <2>2. CASE ~(current = 0 \/ (client[current] = 0 /\ procs = MaxProcs))
    <3>1. PICK p \in Procs : call' = [call EXCEPT ![g].pc = "sent", ![g].p = p]
      BY <1>4, <2>2, CurrentIsThere DEF Send
    <3> DEFINE e == [call[g] EXCEPT !.pc = "sent", !.p = p]
    <3>2. call' = [call EXCEPT ![g] = e]
      BY <3>1
    <3>3. call[g] \in Calls
      BY DEF CallsTyped
    <3>4. CallOK(e)
      BY <3>3 DEF CallOK, Calls, Places
    <3> QED
      BY <3>2, <3>4, OneCallMoves
  <2> QED
    BY <2>1, <2>2
<1>5. ASSUME NEW c \in Starters, StartBegin(c) PROVE CallsTyped'
  <2> DEFINE e == [call[c] EXCEPT !.pc = "call", !.inst = current]
  <2>1. call' = [call EXCEPT ![c] = e]
    BY <1>5 DEF StartBegin
  <2>2. CallOK(e)
    <3>1. CallOK(call[c])
      BY DEF CallsTyped
    <3>2. current \in Instances \cup {0}
      BY CurrentIsThere
    <3> QED
      BY <3>1, <3>2 DEF CallOK, Calls, Places
  <2> QED
    BY <2>1, <2>2, OneCallMoves
<1>6. ASSUME NEW c \in Starters, StartAnswered(c) PROVE CallsTyped'
  <2> DEFINE e == [IdleCall EXCEPT !.again = TRUE]
  <2>1. CallOK(e)
    BY DEF CallOK, Calls, Places, IdleCall
  <2>2. Go(c, "remember") \/ Go(c, "recycle") \/ Return(c) \/ call' = [call EXCEPT ![c] = e]
    BY <1>6 DEF StartAnswered
  <2> QED
    BY <1>2, <1>3, <2>1, <2>2, OneCallMoves DEF Places
<1>7. ASSUME NEW i \in Interrupters, BeginInterrupt(i) PROVE CallsTyped'
  <2> DEFINE e == [IdleCall EXCEPT !.pc = "call", !.turn = maps[current].active]
  <2>1. call' = [call EXCEPT ![i] = e]
    BY <1>7 DEF BeginInterrupt
  <2>2. CallOK(e)
    <3>1. maps[current].active \in Turns
      BY <1>7, CurrentIsThere DEF BeginInterrupt, MapsTyped, Maps
    <3> QED
      BY <3>1 DEF CallOK, Calls, Places, IdleCall
  <2> QED
    BY <2>1, <2>2, OneCallMoves
<1>8. ASSUME NEW g \in Goroutines, RecycleRemove(g) PROVE CallsTyped'
  <2> DEFINE p == IF current = 0 THEN 0 ELSE client[current]
             e == [call[g] EXCEPT !.pc = "recycling", !.p = p]
  <2>1. call' = [call EXCEPT ![g] = e]
    BY <1>8 DEF RecycleRemove
  <2>2. CallOK(e)
    <3>1. CallOK(call[g])
      BY DEF CallsTyped
    <3>2. p \in Procs \cup {0}
      BY CurrentIsThere
    <3> QED
      BY <3>1, <3>2 DEF CallOK, Calls, Places
  <2> QED
    BY <2>1, <2>2, OneCallMoves
<1>9. ASSUME NEW p \in Procs, HandleResponse(p) PROVE CallsTyped'
  <2>1. CASE UNCHANGED call
    BY <2>1 DEF CallsTyped, CallOK
  <2>2. CASE ~UNCHANGED call
    <3>1. Head(proc[p].stdout) \in Said
      BY <1>9, HeadTailProperties DEF HandleResponse, Reads, ProcsTyped, Processes, Outputs
    <3>2. Answered(Head(proc[p].stdout).id, Head(proc[p].stdout).result)
      BY <1>9, <2>2 DEF HandleResponse
    <3> QED
      BY <1>1, <3>1, <3>2 DEF Said, Messages
  <2> QED
    BY <2>1, <2>2
<1>10. ASSUME NEW i \in Interrupters, FinishInterrupt(i) PROVE CallsTyped'
  BY <1>2, <1>3, <1>10 DEF FinishInterrupt, Places
<1>11. ASSUME UNCHANGED call PROVE CallsTyped'
  BY <1>11 DEF CallsTyped, CallOK
<1> QED
  BY <1>1, <1>2, <1>3, <1>4, <1>5, <1>6, <1>7, <1>8, <1>9, <1>10, <1>11
  DEF Next, CallStep, StartStep, InterruptStep, ReaderStep, ServerStep, SeesClosed, ContextEnds,
      RememberActiveTurn, TimesOut, RestoreInterruptedTurn, RecycleConfigure, HandleTurnStarted,
      HandleTurnEnded, HandleClosed, ServeRequest, TurnStarts, TurnEnds, Exits

(* What is read is off the pipe, what is said is on it.                    *)
LEMMA OutputsTyped ==
    ASSUME NEW q \in Outputs
    PROVE  /\ \A m \in Said : Append(q, m) \in Outputs
           /\ q # <<>> => Head(q) \in Said /\ Tail(q) \in Outputs
  BY AppendProperties, HeadTailProperties DEF Outputs

(* The processes and their pipes (bridge.Client, the app-server).          *)
LEMMA ProcsStep ==
    ASSUME Types, Next
    PROVE  ProcsTyped'
<1> USE TurnAssumption DEF Types, Goroutines, Turns
<1>1. ASSUME NEW p \in Procs, Closes(p), proc[p].life = "alive" PROVE ProcsTyped'
  <2> DEFINE q == [proc[p] EXCEPT !.life = "closing", !.stdin = {}, !.turn = None,
                                  !.announced = FALSE]
  <2>1. ProcOK(q) /\ proc' = [proc EXCEPT ![p] = q]
    BY <1>1 DEF Closes, ProcsTyped, ProcOK, Processes
  <2> QED
    BY <2>1, OneProcMoves
<1>2. ASSUME NEW p \in Procs, Read(p), proc[p].stdout # <<>> PROVE ProcsTyped'
  <2>1. PICK rest \in Outputs : rest = Tail(proc[p].stdout)
    BY <1>2, OutputsTyped DEF ProcsTyped, Processes
  <2> DEFINE q == [proc[p] EXCEPT !.stdout = rest]
  <2>2. proc' = [proc EXCEPT ![p] = q]
    BY <1>2, <2>1 DEF Read
  <2>3. ProcOK(q)
    BY <1>2, <2>1 DEF ProcsTyped, ProcOK, Processes
  <2> QED
    BY <2>2, <2>3, OneProcMoves
<1>3. ASSUME NEW p \in Procs, NEW m \in Said, NEW stdin \in SUBSET Requests,
             NEW turn \in Turns \cup {None}, NEW announced \in BOOLEAN,
             announced => turn # None, proc[p].life = "alive",
             proc' = [proc EXCEPT ![p].stdin = stdin, ![p].turn = turn, ![p].announced = announced,
                                  ![p].stdout = Append(@, m)]
      PROVE  ProcsTyped'
  <2>1. PICK longer \in Outputs : longer = Append(proc[p].stdout, m)
    BY <1>3, OutputsTyped DEF ProcsTyped, Processes
  <2> DEFINE q == [proc[p] EXCEPT !.stdin = stdin, !.turn = turn, !.announced = announced,
                                  !.stdout = longer]
  <2>2. proc' = [proc EXCEPT ![p] = q]
    BY <1>3, <2>1
  <2>3. ProcOK(q)
    BY <1>3, <2>1 DEF ProcsTyped, ProcOK, Processes
  <2> QED
    BY <2>2, <2>3, OneProcMoves
<1>4. ASSUME NEW g \in Goroutines, Send(g) PROVE ProcsTyped'
  <2>1. CASE UNCHANGED proc
    BY <2>1 DEF ProcsTyped, ProcOK
  <2>2. CASE ~UNCHANGED proc
    <3>1. Request(g) \in Requests
      BY DEF Request, Requests, CallsTyped, Calls
    <3>2. PICK p \in Procs, i \in Instances :
             \/ proc' = [proc EXCEPT ![p] = [NotStarted EXCEPT
                            !.inst = i, !.life = "alive", !.stdin = {Request(g)}]]
             \/ proc' = [proc EXCEPT ![p].stdin = @ \cup {Request(g)}]
      BY <1>4, <2>2, CurrentIsThere DEF Send
    <3> DEFINE q == [NotStarted EXCEPT !.inst = i, !.life = "alive", !.stdin = {Request(g)}]
               r == [proc[p] EXCEPT !.stdin = @ \cup {Request(g)}]
    <3>3. ProcOK(q)
      <4>1. <<>> \in Outputs
        BY DEF Outputs
      <4> QED
        BY <3>1, <4>1 DEF ProcOK, Processes, NotStarted
    <3>4. ProcOK(r)
      BY <3>1 DEF ProcsTyped, ProcOK, Processes
    <3>5. proc' = [proc EXCEPT ![p] = q] \/ proc' = [proc EXCEPT ![p] = r]
      BY <3>2
    <3> QED
      BY <3>3, <3>4, <3>5, OneProcMoves
  <2> QED
    BY <2>1, <2>2
<1>5. ASSUME NEW g \in Goroutines, RecycleRemove(g) PROVE ProcsTyped'
  <2>1. CASE UNCHANGED proc
    BY <2>1 DEF ProcsTyped, ProcOK
  <2>2. CASE ~UNCHANGED proc
    <3>1. PICK p \in Procs : proc[p].life = "alive" /\ Closes(p)
      BY <1>5, <2>2, CurrentIsThere DEF RecycleRemove
    <3> QED
      BY <1>1, <3>1
  <2> QED
    BY <2>1, <2>2
<1>6. ASSUME NEW p \in Procs, ServeRequest(p) PROVE ProcsTyped'
  <2>1. PICK request \in proc[p].stdin, turn \in Turns \cup {None}, result \in {"ok", "refused"} :
           /\ Serve(p, request, turn, result)
           /\ turn = proc[p].turn \/ turn = request.by
    BY <1>6 DEF ServeRequest, ServeRefused, ServeStart, ServeInterrupt, ProcsTyped, Processes
  <2> DEFINE m == Message("response", request.by, result)
             stdin == proc[p].stdin \ {request}
             announced == proc[p].announced /\ turn = proc[p].turn
  <2>2. m \in Said /\ stdin \in SUBSET Requests
    BY DEF Message, Said, Messages, ProcsTyped, Processes, Requests
  <2>3. announced \in BOOLEAN /\ (announced => turn # None)
    BY DEF ProcsTyped, ProcOK
  <2>4. proc' = [proc EXCEPT ![p].stdin = stdin, ![p].turn = turn, ![p].announced = announced,
                             ![p].stdout = Append(@, m)]
    BY <2>1 DEF Serve
  <2>5. proc[p].life = "alive"
    BY <1>6 DEF ServeRequest
  <2> HIDE DEF m, stdin, announced
  <2> QED
    BY <1>3, <2>2, <2>3, <2>4, <2>5
<1>7. ASSUME NEW p \in Procs, TurnStarts(p) \/ TurnEnds(p) PROVE ProcsTyped'
  <2>1. PICK kind \in {"started", "terminal"}, turn \in Turns \cup {None}, announced \in BOOLEAN :
           Notify(p, kind, turn, announced) /\ (announced => turn # None)
    BY <1>7 DEF TurnStarts, TurnEnds, ProcsTyped, Processes
  <2> DEFINE m == Message(kind, proc[p].turn, "ok")
  <2>2. proc[p].turn \in Turns /\ proc[p].life = "alive"
    BY <1>7 DEF TurnStarts, TurnEnds, ProcsTyped, ProcOK, Processes
  <2>3. m \in Said
    BY <2>2 DEF Message, Said, Messages
  <2>4. PICK longer \in Outputs : longer = Append(proc[p].stdout, m)
    BY <2>3, OutputsTyped DEF ProcsTyped, Processes
  <2> DEFINE q == [proc[p] EXCEPT !.turn = turn, !.announced = announced, !.stdout = longer]
  <2>5. proc' = [proc EXCEPT ![p] = q]
    BY <2>1, <2>4 DEF Notify
  <2>6. ProcOK(q)
    BY <2>1, <2>2, <2>4 DEF ProcsTyped, ProcOK, Processes
  <2> QED
    BY <2>5, <2>6, OneProcMoves
<1>8. ASSUME NEW p \in Procs, HandleClosed(p) PROVE ProcsTyped'
  <2> DEFINE q == [proc[p] EXCEPT !.life = "closed"]
  <2>1. ProcOK(q) /\ proc' = [proc EXCEPT ![p] = q]
    BY <1>8 DEF HandleClosed, ProcsTyped, ProcOK, Processes
  <2> QED
    BY <2>1, OneProcMoves
<1>9. ASSUME NEW p \in Procs, ReaderStep(p) \/ Exits(p) PROVE ProcsTyped'
  BY <1>1, <1>2, <1>9 DEF ReaderStep, HandleResponse, HandleTurnStarted, HandleTurnEnded, Reads, Exits
<1>10. ASSUME UNCHANGED proc PROVE ProcsTyped'
  BY <1>10 DEF ProcsTyped, ProcOK
<1> QED
  BY <1>4, <1>5, <1>6, <1>7, <1>8, <1>9, <1>10
  DEF Next, CallStep, StartStep, InterruptStep, ServerStep, SeesClosed, ContextEnds,
      StartBegin, StartAnswered, BeginInterrupt, FinishInterrupt,
      RememberActiveTurn, TimesOut, RestoreInterruptedTurn, RecycleConfigure

(* The instances' maps (instanceState).                                    *)
LEMMA MapsStep ==
    ASSUME Types, Next
    PROVE  MapsTyped'
<1> USE TurnAssumption DEF Types, Turns
<1>1. ASSUME NEW c \in Starters, StartBegin(c) PROVE MapsTyped'
  <2>1. maps' = InCurrent(Correlating(maps[current], c))
    BY <1>1 DEF StartBegin
  <2>2. current # 0 => MapsOK(Correlating(maps[current], c))
    BY CurrentIsThere, OperationsKeepMaps DEF MapsTyped
  <2> QED
    BY <2>1, <2>2, CurrentMoves
<1>2. ASSUME NEW c \in Starters, StartAnswered(c) PROVE MapsTyped'
  <2>1. CASE call[c].inst = 0
    BY <1>2, <2>1 DEF StartAnswered, MapsTyped, MapsOK
  <2>2. CASE call[c].inst # 0
    <3>1. PICK i \in Instances : i = call[c].inst
      BY <2>2 DEF CallsTyped, Calls, Goroutines
    <3>2. maps' = [maps EXCEPT ![i] = StartCorrelated(c, i)]
      BY <1>2, <2>2, <3>1 DEF StartAnswered
    <3>3. MapsOK(StartCorrelated(c, i))
      BY OperationsKeepMaps DEF StartCorrelated, MapsTyped
    <3> QED
      BY <3>2, <3>3, OneInstanceMoves
  <2> QED
    BY <2>1, <2>2
<1>3. ASSUME NEW c \in Starters, RememberActiveTurn(c) PROVE MapsTyped'
  <2>1. PICK t \in {c, None} : maps' = InCurrent(Remembered(maps[current], t))
    BY <1>3 DEF RememberActiveTurn
  <2>2. current # 0 => MapsOK(Remembered(maps[current], t))
    BY CurrentIsThere, OperationsKeepMaps DEF MapsTyped
  <2> QED
    BY <2>1, <2>2, CurrentMoves
<1>4. ASSUME NEW i \in Interrupters, BeginInterrupt(i) PROVE MapsTyped'
  <2>1. /\ maps' = InCurrent(BeingInterrupted(maps[current])) /\ current # 0
        /\ maps[current].interrupting = None /\ maps[current].active # None
    BY <1>4 DEF BeginInterrupt
  <2>2. MapsOK(BeingInterrupted(maps[current]))
    BY <2>1, CurrentIsThere, InterruptsKeepMaps DEF MapsTyped
  <2> QED
    BY <2>1, <2>2, CurrentMoves
<1>5. ASSUME NEW i \in Interrupters, FinishInterrupt(i) \/ RestoreInterruptedTurn(i)
      PROVE  MapsTyped'
  <2>1. PICK t \in Turns \cup {None} : t = call[i].turn
    BY DEF CallsTyped, Calls, Goroutines
  <2>2. \/ maps' = InCurrent(Finished(maps[current], t))
        \/ maps' = InCurrent(Restored(maps[current], t))
    BY <1>5, <2>1 DEF FinishInterrupt, RestoreInterruptedTurn
  <2>3. current # 0 => MapsOK(Finished(maps[current], t)) /\ MapsOK(Restored(maps[current], t))
    BY CurrentIsThere, InterruptsKeepMaps DEF MapsTyped
  <2> QED
    BY <2>2, <2>3, CurrentMoves
<1>6. ASSUME NEW p \in Procs, proc[p].stdout # <<>>, Head(proc[p].stdout).kind # "response"
      PROVE  proc[p].inst \in Instances /\ Head(proc[p].stdout).id \in Turns
  <2>1. Head(proc[p].stdout) \in Said
    BY <1>6, OutputsTyped DEF ProcsTyped, Processes
  <2>2. proc[p].inst \in Instances
    BY <1>6 DEF ProcsTyped, ProcOK
  <2> QED
    BY <1>6, <2>1, <2>2 DEF Said
<1>7. ASSUME NEW p \in Procs, HandleTurnStarted(p) PROVE MapsTyped'
  <2>1. PICK i \in Instances, t \in Turns :
           maps' = [maps EXCEPT ![i] = Started(Attached(maps[i], t), t)]
    BY <1>6, <1>7 DEF HandleTurnStarted, Reads
  <2>2. MapsOK(Started(Attached(maps[i], t), t))
    BY OperationsKeepMaps DEF MapsTyped
  <2> QED
    BY <2>1, <2>2, OneInstanceMoves
<1>8. ASSUME NEW p \in Procs, HandleTurnEnded(p) PROVE MapsTyped'
  <2>1. PICK i \in Instances, t \in Turns : maps' = [maps EXCEPT ![i] = Ended(maps[i], t)]
    BY <1>6, <1>8 DEF HandleTurnEnded, Reads
  <2>2. MapsOK(Ended(maps[i], t))
    BY OperationsKeepMaps DEF MapsTyped
  <2> QED
    BY <2>1, <2>2, OneInstanceMoves
<1>9. ASSUME NEW p \in Procs, HandleClosed(p) PROVE MapsTyped'
  <2>1. PICK i \in Instances : maps' = [maps EXCEPT ![i] = NoTurns]
    BY <1>9 DEF HandleClosed, ProcsTyped, ProcOK
  <2>2. MapsOK(NoTurns)
    BY DEF MapsOK, Maps, NoTurns
  <2> QED
    BY <2>1, <2>2, OneInstanceMoves
<1>10. ASSUME UNCHANGED maps PROVE MapsTyped'
  BY <1>10 DEF MapsTyped, MapsOK
<1> QED
  BY <1>1, <1>2, <1>3, <1>4, <1>5, <1>7, <1>8, <1>9, <1>10
  DEF Next, CallStep, StartStep, InterruptStep, ReaderStep, ServerStep, SeesClosed, ContextEnds,
      Send, TimesOut, RecycleRemove, RecycleConfigure, HandleResponse, ServeRequest, TurnStarts,
      TurnEnds, Exits, runtimeVars

(* Which instance and which process there is, and what was told of turns.  *)
LEMMA NumbersStep ==
    ASSUME Types, Next
    PROVE  Numbers'
<1> USE TurnAssumption DEF Types
<1>1. \A p \in Procs : proc[p] \in Processes /\ proc[p].inst \in 0 .. made
  BY DEF ProcsTyped, Numbers
<1>2. ASSUME NEW g \in Goroutines, Send(g) PROVE Numbers'
  <2>1. CASE UNCHANGED <<client, procs, proc>>
    BY <1>2, <2>1 DEF Send, Numbers
  <2>2. CASE ~UNCHANGED <<client, procs, proc>>
    <3>1. /\ current \in Instances /\ current \in 0 .. made
          /\ UNCHANGED <<current, made>>
      BY <1>2, <2>2, CurrentIsThere DEF Send, Numbers
    <3>2. CASE client[current] = 0
      <4>1. /\ client' = [client EXCEPT ![current] = procs + 1] /\ procs' = procs + 1
            /\ procs \in Nat /\ procs + 1 \in 0 .. MaxProcs
            /\ proc' = [proc EXCEPT ![procs + 1] = [NotStarted EXCEPT
                          !.inst = current, !.life = "alive", !.stdin = {Request(g)}]]
        BY <1>2, <2>2, <3>2 DEF Send, Numbers
      <4>2. \A p \in Procs : proc'[p].inst \in 0 .. made
        BY <1>1, <3>1, <4>1 DEF ProcsTyped, NotStarted
      <4>3. client' \in [Instances -> 0 .. procs']
        BY <3>1, <4>1 DEF Numbers
      <4> QED
        BY <3>1, <4>1, <4>2, <4>3 DEF Numbers
    <3>3. CASE client[current] # 0
      <4>1. /\ client' = [client EXCEPT ![current] = client[current]] /\ UNCHANGED procs
            /\ proc' = [proc EXCEPT ![client[current]].stdin = @ \cup {Request(g)}]
        BY <1>2, <2>2, <3>3 DEF Send
      <4>2. UNCHANGED client
        BY <3>1, <4>1 DEF Numbers
      <4>3. \A p \in Procs : proc'[p].inst = proc[p].inst
        BY <4>1 DEF ProcsTyped, Processes
      <4> QED
        BY <3>1, <4>1, <4>2, <4>3 DEF Numbers
    <3> QED
      BY <3>2, <3>3
  <2> QED
    BY <2>1, <2>2
<1>3. ASSUME UNCHANGED <<made, procs>>, client' = client \/ \E i \in Instances : client' = [client EXCEPT ![i] = 0],
             current' = current \/ (current' = 0 /\ made < MaxInstances),
             \A p \in Procs : proc'[p].inst = proc[p].inst
      PROVE  Numbers'
  <2>1. procs \in Nat /\ client \in [Instances -> 0 .. procs] /\ 0 \in 0 .. procs
    BY DEF Numbers
  <2>2. client' \in [Instances -> 0 .. procs]
    <3>1. CASE UNCHANGED client
      BY <2>1, <3>1
    <3>2. ASSUME NEW i \in Instances, client' = [client EXCEPT ![i] = 0]
          PROVE  client' \in [Instances -> 0 .. procs]
      BY <2>1, <3>2
    <3> QED
      BY <1>3, <3>1, <3>2
  <2>3. current' \in 0 .. made /\ (current' = 0 => made < MaxInstances)
    BY <1>3 DEF Numbers, Instances
  <2> QED
    BY <1>3, <2>1, <2>2, <2>3 DEF Numbers
<1>4. ASSUME NEW p \in Procs, Closes(p) \/ Read(p) \/ proc' = [proc EXCEPT ![p].life = "closed"]
      PROVE  \A q \in Procs : proc'[q].inst = proc[q].inst
  BY <1>1, <1>4 DEF Closes, Read, ProcsTyped, Processes
<1>5. ASSUME NEW g \in Goroutines, RecycleRemove(g) PROVE Numbers'
  <2>1. \A q \in Procs : proc'[q].inst = proc[q].inst
    <3>1. UNCHANGED proc \/ \E p \in Procs : Closes(p)
      BY <1>5, CurrentIsThere DEF RecycleRemove
    <3> QED
      BY <1>4, <3>1
  <2> QED
    BY <1>3, <1>5, <2>1 DEF RecycleRemove
<1>6. ASSUME NEW g \in Goroutines, RecycleConfigure(g) PROVE Numbers'
  <2>1. UNCHANGED <<client, procs, proc>>
    BY <1>6 DEF RecycleConfigure
  <2>2. CASE current = 0
    <3>1. current' = made + 1 /\ made' = made + 1 /\ made < MaxInstances /\ made \in Nat
      BY <1>6, <2>2 DEF RecycleConfigure, Numbers, Instances
    <3> QED
      BY <2>1, <3>1 DEF Numbers, Instances
  <2>3. CASE current # 0
    BY <1>6, <2>1, <2>3 DEF RecycleConfigure, Numbers
  <2> QED
    BY <2>2, <2>3
<1>7. ASSUME NEW p \in Procs, HandleClosed(p) PROVE Numbers'
  <2>1. proc[p].inst \in Instances
    BY <1>7 DEF HandleClosed, ProcsTyped, ProcOK
  <2> QED
    BY <1>3, <1>4, <1>7, <2>1 DEF HandleClosed
<1>8. ASSUME NEW p \in Procs, ReaderStep(p) \/ Exits(p) PROVE Numbers'
  <2>1. \A q \in Procs : proc'[q].inst = proc[q].inst
    BY <1>4, <1>8 DEF ReaderStep, HandleResponse, HandleTurnStarted, HandleTurnEnded, Exits
  <2> QED
    BY <1>3, <1>8, <2>1 DEF ReaderStep, HandleResponse, HandleTurnStarted, HandleTurnEnded, Exits,
       runtimeVars
<1>9. ASSUME NEW p \in Procs, ServeRequest(p) \/ TurnStarts(p) \/ TurnEnds(p) PROVE Numbers'
  <2>1. \A q \in Procs : proc'[q].inst = proc[q].inst
    <3>1. ASSUME NEW r, NEW t, NEW result, Serve(p, r, t, result) PROVE proc'[p].inst = proc[p].inst
      BY <1>1, <3>1 DEF Serve, ProcsTyped, Processes
    <3>2. ASSUME NEW kind, NEW t, NEW b, Notify(p, kind, t, b) PROVE proc'[p].inst = proc[p].inst
      BY <1>1, <3>2 DEF Notify, ProcsTyped, Processes
    <3>3. proc'[p].inst = proc[p].inst
      BY <1>9, <3>1, <3>2 DEF ServeRequest, ServeRefused, ServeStart, ServeInterrupt, TurnStarts, TurnEnds
    <3>4. \A q \in Procs \ {p} : proc'[q] = proc[q]
      BY <1>9 DEF ServeRequest, ServeRefused, ServeStart, ServeInterrupt, Serve, TurnStarts, TurnEnds,
         Notify, ProcsTyped
    <3> QED
      BY <3>3, <3>4
  <2> QED
    BY <1>3, <1>9, <2>1 DEF ServeRequest, TurnStarts, TurnEnds, runtimeVars
<1>10. ASSUME UNCHANGED <<current, made, client, procs, proc>> PROVE Numbers'
  BY <1>10 DEF Numbers
<1> QED
  BY <1>2, <1>5, <1>6, <1>7, <1>8, <1>9, <1>10
  DEF Next, CallStep, StartStep, InterruptStep, ServerStep, SeesClosed, ContextEnds,
      StartBegin, StartAnswered, BeginInterrupt, FinishInterrupt,
      RememberActiveTurn, TimesOut, RestoreInterruptedTurn, runtimeVars

LEMMA ToldStep ==
    ASSUME Types, Next
    PROVE  Told'
<1> USE TurnAssumption DEF Types, Turns, history
<1>1. ASSUME NEW p \in Procs, HandleTurnStarted(p) PROVE Told'
  <2>1. Head(proc[p].stdout) \in Said
    BY <1>1, OutputsTyped DEF HandleTurnStarted, Reads, ProcsTyped, Processes
  <2>2. PICK t \in Turns : t = Head(proc[p].stdout).id
    BY <1>1, <2>1 DEF HandleTurnStarted, Reads, Said
  <2>3. proc[p].stdout # <<>>
    BY <1>1 DEF HandleTurnStarted, Reads
  <2>4. PICK i \in Instances : i = proc[p].inst
    BY <2>3 DEF ProcsTyped, ProcOK
  <2>5. LabelFor(maps[i], t) \in Starters \cup {None}
    BY DEF LabelFor, MapsTyped, Maps
  <2>6. /\ shown' = [shown EXCEPT ![t] = "running"]
        /\ label' = [label EXCEPT ![t] = LabelFor(maps[i], t)]
        /\ dropped' \subseteq dropped \cup DroppedBy(maps') \cup {t}
        /\ forgotten' \subseteq forgotten \cup over
        /\ UNCHANGED <<home, over, mixed>>
    BY <1>1, <2>2, <2>4 DEF HandleTurnStarted
  <2>7. DroppedBy(maps') \subseteq Turns
    BY DEF DroppedBy, TracksSome
  <2> QED
    BY <2>5, <2>6, <2>7 DEF Told
<1>2. ASSUME NEW p \in Procs, HandleTurnEnded(p) PROVE Told'
  <2>1. Head(proc[p].stdout) \in Said
    BY <1>2, OutputsTyped DEF HandleTurnEnded, Reads, ProcsTyped, Processes
  <2>2. PICK t \in Turns : t = Head(proc[p].stdout).id
    BY <1>2, <2>1 DEF HandleTurnEnded, Reads, Said
  <2>3. /\ shown' = [shown EXCEPT ![t] = "ended"] /\ over' = over \cup {t}
        /\ forgotten' \subseteq forgotten \cup over
        /\ UNCHANGED <<label, home, dropped, mixed>>
    BY <1>2, <2>2 DEF HandleTurnEnded
  <2> QED
    BY <2>3 DEF Told
<1>3. ASSUME NEW p \in Procs, HandleClosed(p) PROVE Told'
  BY <1>3 DEF HandleClosed, Told, TakenBy
<1>4. ASSUME NEW g \in Goroutines, RecycleRemove(g) PROVE Told'
  <2>1. TakenBy(call'[g].p) \subseteq Turns
    BY DEF TakenBy
  <2> QED
    BY <1>4, <2>1 DEF RecycleRemove, Told
<1>5. ASSUME NEW c \in Starters, StartBegin(c) \/ RememberActiveTurn(c) PROVE Told'
  <2>1. DroppedBy(maps') \subseteq Turns
    BY DEF DroppedBy, TracksSome
  <2> QED
    BY <1>5, <2>1 DEF StartBegin, RememberActiveTurn, Told
<1>6. ASSUME NEW i \in Interrupters, FinishInterrupt(i) PROVE Told'
  <2>1. DroppedBy(maps') \subseteq Turns
    BY DEF DroppedBy, TracksSome
  <2> QED
    BY <1>6, <2>1 DEF FinishInterrupt, Told
<1>7. ASSUME NEW p \in Procs, ServeRequest(p) PROVE Told'
  <2>1. PICK t \in Goroutines : UNCHANGED home \/ (t \in Starters /\ home' = [home EXCEPT ![t] = p])
    BY <1>7 DEF ServeRequest, ServeStart, ProcsTyped, Processes, Requests
  <2> QED
    BY <1>7, <2>1 DEF ServeRequest, Told
<1>8. ASSUME UNCHANGED <<shown, label, history>> PROVE Told'
  BY <1>8 DEF Told
<1> QED
  BY <1>1, <1>2, <1>3, <1>4, <1>5, <1>6, <1>7, <1>8
  DEF Next, CallStep, StartStep, InterruptStep, ReaderStep, ServerStep, SeesClosed, ContextEnds, Send,
      StartAnswered, BeginInterrupt, TimesOut, RestoreInterruptedTurn, RecycleConfigure,
      HandleResponse, TurnStarts, TurnEnds, Exits

LEMMA TypesStep ==
    ASSUME Types, Next
    PROVE  Types'
  BY MapsStep, CallsStep, ProcsStep, NumbersStep, ToldStep DEF Types
-----------------------------------------------------------------------------
(* A pipe that has got longer, and one that has been read from.            *)
LEMMA Longer ==
    ASSUME NEW q \in Outputs, NEW m \in Said
    PROVE  /\ Len(q) \in Nat /\ 1 .. Len(Append(q, m)) = 1 .. Len(q) \cup {Len(q) + 1}
           /\ \A k \in 1 .. Len(q) : Append(q, m)[k] = q[k] /\ k < Len(q) + 1
           /\ Append(q, m)[Len(q) + 1] = m
<1>1. /\ Len(q) \in Nat /\ Len(Append(q, m)) = Len(q) + 1
      /\ \A k \in 1 .. Len(q) : Append(q, m)[k] = q[k]
      /\ Append(q, m)[Len(q) + 1] = m
  BY AppendProperties, LenProperties DEF Outputs
<1>2. \A a : a = Len(q) + 1 => 1 .. a = 1 .. Len(q) \cup {Len(q) + 1}
  BY <1>1
<1> QED
  BY <1>1, <1>2

LEMMA Shorter ==
    ASSUME NEW q \in Outputs, q # <<>>
    PROVE  /\ 1 \in 1 .. Len(q) /\ Head(q) = q[1]
           /\ \A k \in 1 .. Len(Tail(q)) : k \in Nat /\ k > 0 /\ k + 1 \in 1 .. Len(q) /\ Tail(q)[k] = q[k + 1]
           /\ \A k \in 1 .. Len(q) : k = 1 \/ (k - 1 \in 1 .. Len(Tail(q)) /\ Tail(q)[k - 1] = q[k])
<1>1. /\ Len(q) \in Nat /\ Len(q) > 0 /\ Head(q) = q[1] /\ Len(Tail(q)) = Len(q) - 1
      /\ \A k \in 1 .. Len(Tail(q)) : Tail(q)[k] = q[k + 1]
  BY HeadTailProperties, LenProperties, EmptySeq DEF Outputs
<1>2. \A k \in 1 .. Len(Tail(q)) : k \in Nat /\ k > 0 /\ k + 1 \in 1 .. Len(q)
  BY <1>1
<1>3. \A k \in 1 .. Len(q) : k = 1 \/ (k - 1 \in 1 .. Len(Tail(q)) /\ (k - 1) + 1 = k)
  BY <1>1
<1>4. 1 \in 1 .. Len(q)
  BY <1>1
<1> QED
  BY <1>1, <1>2, <1>3, <1>4

LEMMA SaysMore ==
    ASSUME NEW q \in Outputs, NEW m \in Said, NEW a, a = Append(q, m)
    PROVE  /\ \A kind, g : Says(a, kind, g) <=> Says(q, kind, g) \/ IsAbout(m, kind, g)
           /\ \A g, r : Answers(a, g, r) <=>
                 Answers(q, g, r) \/ (IsAbout(m, "response", g) /\ m.result = r)
           /\ \A t : InOrder(q, t) /\ (IsAbout(m, "started", t) => ~Says(q, "terminal", t)) => InOrder(a, t)
           /\ \A g : OnlyAnswer(q, g) /\ (IsAbout(m, "response", g) => ~Says(q, "response", g)) => OnlyAnswer(a, g)
<1> DEFINE n == Len(q)
<1>1. /\ n \in Nat /\ 1 .. Len(a) = 1 .. n \cup {n + 1}
      /\ \A k \in 1 .. n : a[k] = q[k] /\ k < n + 1
      /\ a[n + 1] = m
  BY Longer
<1> HIDE DEF n
<1>2. \A kind, g : Says(a, kind, g) <=> Says(q, kind, g) \/ IsAbout(m, kind, g)
  BY <1>1 DEF Says, n
<1>3. \A g, r : Answers(a, g, r) <=> Answers(q, g, r) \/ (IsAbout(m, "response", g) /\ m.result = r)
  BY <1>1 DEF Answers, n
<1>4. ASSUME NEW t, InOrder(q, t), IsAbout(m, "started", t) => ~Says(q, "terminal", t)
      PROVE  InOrder(a, t)
  <2>1. ~(IsAbout(m, "started", t) /\ IsAbout(m, "terminal", t))
    BY DEF IsAbout
  <2> QED
    BY <1>1, <1>4, <2>1 DEF InOrder, Says, n
<1>5. ASSUME NEW g, OnlyAnswer(q, g), IsAbout(m, "response", g) => ~Says(q, "response", g)
      PROVE  OnlyAnswer(a, g)
  BY <1>1, <1>5 DEF OnlyAnswer, Says, n
<1> QED
  BY <1>2, <1>3, <1>4, <1>5

LEMMA SaysLess ==
    ASSUME NEW q \in Outputs, q # <<>>, NEW m, m = Head(q), NEW a, a = Tail(q)
    PROVE  /\ \A kind, g : Says(q, kind, g) <=> Says(a, kind, g) \/ IsAbout(m, kind, g)
           /\ \A g, r : Answers(q, g, r) <=>
                 Answers(a, g, r) \/ (IsAbout(m, "response", g) /\ m.result = r)
           /\ \A t : InOrder(q, t) => /\ InOrder(a, t)
                                      /\ IsAbout(m, "terminal", t) => ~Says(a, "started", t)
           /\ \A g : OnlyAnswer(q, g) => /\ OnlyAnswer(a, g)
                                         /\ IsAbout(m, "response", g) => ~Says(a, "response", g)
<1>1. /\ 1 \in 1 .. Len(q) /\ m = q[1]
      /\ \A k \in 1 .. Len(a) : k \in Nat /\ k > 0 /\ k + 1 \in 1 .. Len(q) /\ a[k] = q[k + 1]
      /\ \A k \in 1 .. Len(q) : k = 1 \/ (k - 1 \in 1 .. Len(a) /\ a[k - 1] = q[k])
  BY Shorter
<1>2. \A kind, g : Says(q, kind, g) <=> Says(a, kind, g) \/ IsAbout(m, kind, g)
  BY <1>1 DEF Says
<1>3. ASSUME NEW g, NEW r
      PROVE  Answers(q, g, r) <=> Answers(a, g, r) \/ (IsAbout(m, "response", g) /\ m.result = r)
  <2>1. ASSUME NEW k \in 1 .. Len(q), IsAbout(q[k], "response", g), q[k].result = r
        PROVE  Answers(a, g, r) \/ (IsAbout(m, "response", g) /\ m.result = r)
    <3>1. CASE k = 1
      BY <1>1, <2>1, <3>1
    <3>2. CASE k # 1
      <4>1. PICK j \in 1 .. Len(a) : a[j] = q[k]
        BY <1>1, <3>2
      <4> QED
        BY <2>1, <4>1 DEF Answers
    <3> QED
      BY <3>1, <3>2
  <2>2. ASSUME NEW j \in 1 .. Len(a), IsAbout(a[j], "response", g), a[j].result = r
        PROVE  Answers(q, g, r)
    <3>1. PICK k \in 1 .. Len(q) : q[k] = a[j]
      BY <1>1
    <3> QED
      BY <2>2, <3>1 DEF Answers
  <2>3. IsAbout(m, "response", g) /\ m.result = r => Answers(q, g, r)
    BY <1>1 DEF Answers
  <2>4. Answers(q, g, r) => Answers(a, g, r) \/ (IsAbout(m, "response", g) /\ m.result = r)
    BY <2>1 DEF Answers
  <2>5. Answers(a, g, r) => Answers(q, g, r)
    BY <2>2 DEF Answers
  <2> QED
    BY <2>3, <2>4, <2>5
<1>4. ASSUME NEW t, InOrder(q, t)
      PROVE  InOrder(a, t) /\ (IsAbout(m, "terminal", t) => ~Says(a, "started", t))
  <2>1. InOrder(a, t)
    <3> SUFFICES ASSUME NEW j \in 1 .. Len(a), NEW k \in 1 .. Len(a),
                        IsAbout(a[j], "started", t), IsAbout(a[k], "terminal", t)
                 PROVE  j < k
      BY DEF InOrder
    <3>1. j + 1 < k + 1 /\ j \in Nat /\ k \in Nat
      BY <1>1, <1>4 DEF InOrder
    <3> QED
      BY <3>1
  <2>2. ASSUME IsAbout(m, "terminal", t), NEW j \in 1 .. Len(a), IsAbout(a[j], "started", t)
        PROVE  FALSE
    <3>1. j + 1 < 1 /\ j \in Nat
      BY <1>1, <1>4, <2>2 DEF InOrder
    <3> QED
      BY <3>1
  <2> QED
    BY <2>1, <2>2 DEF Says
<1>5. ASSUME NEW g, OnlyAnswer(q, g)
      PROVE  OnlyAnswer(a, g) /\ (IsAbout(m, "response", g) => ~Says(a, "response", g))
  <2>1. OnlyAnswer(a, g)
    <3> SUFFICES ASSUME NEW j \in 1 .. Len(a), NEW k \in 1 .. Len(a),
                        IsAbout(a[j], "response", g), IsAbout(a[k], "response", g)
                 PROVE  j = k
      BY DEF OnlyAnswer
    <3>1. j + 1 = k + 1 /\ j \in Nat /\ k \in Nat
      BY <1>1, <1>5 DEF OnlyAnswer
    <3> QED
      BY <3>1
  <2>2. ASSUME IsAbout(m, "response", g), NEW j \in 1 .. Len(a), IsAbout(a[j], "response", g)
        PROVE  FALSE
    <3>1. j + 1 = 1 /\ j \in Nat /\ j > 0
      BY <1>1, <1>5, <2>2 DEF OnlyAnswer
    <3> QED
      BY <3>1
  <2> QED
    BY <2>1, <2>2 DEF Says
<1> QED
  BY <1>2, <1>3, <1>4, <1>5
-----------------------------------------------------------------------------
(* What the steps do to the processes, field by field.                     *)
LEMMA ClosesDoes ==
    ASSUME Types, NEW p \in Procs, Closes(p)
    PROVE  /\ \A q \in Procs \ {p} : proc'[q] = proc[q]
           /\ proc'[p].inst = proc[p].inst /\ proc'[p].life = "closing"
           /\ proc'[p].stdin = {} /\ proc'[p].stdout = proc[p].stdout
           /\ proc'[p].turn = None /\ proc'[p].announced = FALSE
<1>1. proc \in [Procs -> Processes] /\ proc[p] \in Processes
  BY DEF Types, ProcsTyped
<1> QED
  BY <1>1 DEF Closes, Processes

LEMMA ReadDoes ==
    ASSUME Types, NEW p \in Procs, Read(p), proc[p].stdout # <<>>
    PROVE  /\ \A q \in Procs \ {p} : proc'[q] = proc[q]
           /\ proc'[p].inst = proc[p].inst /\ proc'[p].life = proc[p].life
           /\ proc'[p].stdin = proc[p].stdin /\ proc'[p].stdout = Tail(proc[p].stdout)
           /\ proc'[p].turn = proc[p].turn /\ proc'[p].announced = proc[p].announced
<1>1. proc \in [Procs -> Processes] /\ proc[p] \in Processes
  BY DEF Types, ProcsTyped
<1>2. PICK a \in Outputs : a = Tail(proc[p].stdout)
  BY <1>1, OutputsTyped DEF Processes
<1>3. proc' = [proc EXCEPT ![p] = [proc[p] EXCEPT !.stdout = a]]
  BY <1>2 DEF Read
<1> QED
  BY <1>1, <1>2, <1>3 DEF Processes

LEMMA ServeDoes ==
    ASSUME Types, NEW p \in Procs, NEW r \in Requests, NEW turn \in Turns \cup {None},
           NEW result \in {"ok", "refused"}, Serve(p, r, turn, result)
    PROVE  /\ \A q \in Procs \ {p} : proc'[q] = proc[q]
           /\ proc'[p].inst = proc[p].inst /\ proc'[p].life = proc[p].life
           /\ proc'[p].stdin = proc[p].stdin \ {r}
           /\ proc'[p].stdout = Append(proc[p].stdout, Message("response", r.by, result))
           /\ proc'[p].turn = turn
           /\ proc'[p].announced <=> proc[p].announced /\ turn = proc[p].turn
<1>1. proc \in [Procs -> Processes] /\ proc[p] \in Processes
  BY DEF Types, ProcsTyped
<1>2. Message("response", r.by, result) \in Said
  BY DEF Message, Said, Messages, Requests
<1>3. PICK a \in Outputs : a = Append(proc[p].stdout, Message("response", r.by, result))
  BY <1>1, <1>2, OutputsTyped DEF Processes
<1>4. PICK b \in BOOLEAN : b <=> proc[p].announced /\ turn = proc[p].turn
  OBVIOUS
<1>5. PICK stdin : stdin = proc[p].stdin \ {r}
  OBVIOUS
<1>6. proc' = [proc EXCEPT ![p] = [proc[p] EXCEPT !.stdin = stdin, !.turn = turn, !.announced = b,
                                                  !.stdout = a]]
  BY <1>3, <1>4, <1>5 DEF Serve
<1>7. /\ \A q \in Procs \ {p} : proc'[q] = proc[q]
      /\ proc'[p].inst = proc[p].inst /\ proc'[p].life = proc[p].life
      /\ proc'[p].stdin = stdin /\ proc'[p].stdout = a
      /\ proc'[p].turn = turn /\ proc'[p].announced = b
  BY <1>1, <1>6 DEF Processes
<1> QED
  BY <1>3, <1>4, <1>5, <1>7

LEMMA NotifyDoes ==
    ASSUME Types, NEW p \in Procs, NEW kind \in {"started", "terminal"}, proc[p].turn \in Turns,
           NEW turn \in Turns \cup {None}, NEW announced \in BOOLEAN,
           Notify(p, kind, turn, announced)
    PROVE  /\ \A q \in Procs \ {p} : proc'[q] = proc[q]
           /\ proc'[p].inst = proc[p].inst /\ proc'[p].life = proc[p].life
           /\ proc'[p].stdin = proc[p].stdin
           /\ proc'[p].stdout = Append(proc[p].stdout, Message(kind, proc[p].turn, "ok"))
           /\ proc'[p].turn = turn /\ proc'[p].announced = announced
<1>1. proc \in [Procs -> Processes] /\ proc[p] \in Processes
  BY DEF Types, ProcsTyped
<1>2. Message(kind, proc[p].turn, "ok") \in Said
  BY DEF Message, Said, Messages, Turns, Goroutines
<1>3. PICK a \in Outputs : a = Append(proc[p].stdout, Message(kind, proc[p].turn, "ok"))
  BY <1>1, <1>2, OutputsTyped DEF Processes
<1>4. proc' = [proc EXCEPT ![p] = [proc[p] EXCEPT !.turn = turn, !.announced = announced, !.stdout = a]]
  BY <1>3 DEF Notify
<1>5. /\ \A q \in Procs \ {p} : proc'[q] = proc[q]
      /\ proc'[p].inst = proc[p].inst /\ proc'[p].life = proc[p].life
      /\ proc'[p].stdin = proc[p].stdin /\ proc'[p].stdout = a
      /\ proc'[p].turn = turn /\ proc'[p].announced = announced
  BY <1>1, <1>4 DEF Processes
<1> QED
  BY <1>3, <1>5

LEMMA SendDoes ==
    ASSUME Types, NEW g \in Goroutines, Send(g)
    PROVE  /\ UNCHANGED <<current, made, maps, shown, label, history>>
           /\ call[g].pc = "call" /\ \A h \in Goroutines \ {g} : call'[h] = call[h]
           /\ call'[g].inst = call[g].inst /\ call'[g].turn = call[g].turn
           /\ \/ /\ UNCHANGED <<client, procs, proc>>
                 /\ call'[g].pc = "answered" /\ call'[g].result = "error"
              \/ /\ call'[g].pc = "sent"
                 /\ current \in Instances /\ client[current] = 0 /\ procs + 1 \in Procs
                 /\ client' = [client EXCEPT ![current] = procs + 1] /\ procs' = procs + 1
                 /\ \A q \in Procs \ {procs + 1} : proc'[q] = proc[q]
                 /\ proc'[procs + 1] = [inst |-> current, life |-> "alive", stdin |-> {Request(g)},
                                        stdout |-> <<>>, turn |-> None, announced |-> FALSE]
              \/ /\ call'[g].pc = "sent"
                 /\ current \in Instances /\ UNCHANGED <<client, procs>>
                 /\ \E p \in Procs :
                       /\ p = client[current]
                       /\ \A q \in Procs \ {p} : proc'[q] = proc[q]
                       /\ proc'[p].inst = proc[p].inst /\ proc'[p].life = proc[p].life
                       /\ proc'[p].stdin = proc[p].stdin \cup {Request(g)}
                       /\ proc'[p].stdout = proc[p].stdout
                       /\ proc'[p].turn = proc[p].turn /\ proc'[p].announced = proc[p].announced
<1>1. proc \in [Procs -> Processes] /\ call \in [Goroutines -> Calls]
  BY DEF Types, ProcsTyped, CallsTyped
<1>2. /\ call[g].pc = "call" /\ UNCHANGED <<current, made, maps, shown, label, history>>
  BY DEF Send, At
<1>3. CASE current = 0 \/ (client[current] = 0 /\ procs = MaxProcs)
  <2>1. call' = [call EXCEPT ![g].pc = "answered", ![g].result = "error"] /\ UNCHANGED <<client, procs, proc>>
    BY <1>3 DEF Send, Answered
  <2>2. /\ \A h \in Goroutines \ {g} : call'[h] = call[h]
        /\ call'[g].inst = call[g].inst /\ call'[g].turn = call[g].turn
        /\ call'[g].pc = "answered" /\ call'[g].result = "error"
    BY <1>1, <2>1 DEF Calls
  <2> QED
    BY <1>2, <2>1, <2>2
<1>4. CASE ~(current = 0 \/ (client[current] = 0 /\ procs = MaxProcs))
  <2>1. PICK p \in Procs :
           /\ p = IF client[current] = 0 THEN procs + 1 ELSE client[current]
           /\ call' = [call EXCEPT ![g].pc = "sent", ![g].p = p]
           /\ client' = [client EXCEPT ![current] = p]
    BY <1>4, CurrentIsThere DEF Send, Types
  <2>2. /\ \A h \in Goroutines \ {g} : call'[h] = call[h]
        /\ call'[g].inst = call[g].inst /\ call'[g].turn = call[g].turn /\ call'[g].pc = "sent"
    BY <1>1, <2>1 DEF Calls
  <2>3. current \in Instances
    BY <1>4, CurrentIsThere DEF Types
  <2>4. CASE client[current] = 0
    <3>1. /\ procs' = p /\ p = procs + 1
          /\ proc' = [proc EXCEPT ![p] = [NotStarted EXCEPT
                        !.inst = current, !.life = "alive", !.stdin = {Request(g)}]]
      BY <1>4, <2>1, <2>4 DEF Send
    <3>2. \A q \in Procs \ {p} : proc'[q] = proc[q]
      BY <1>1, <3>1
    <3>3. proc'[p] = [inst |-> current, life |-> "alive", stdin |-> {Request(g)},
                      stdout |-> <<>>, turn |-> None, announced |-> FALSE]
      BY <1>1, <3>1 DEF NotStarted
    <3> QED
      BY <1>2, <2>1, <2>2, <2>3, <2>4, <3>1, <3>2, <3>3
  <2>5. CASE client[current] # 0
    <3>1. /\ UNCHANGED procs /\ p = client[current]
          /\ proc' = [proc EXCEPT ![p].stdin = @ \cup {Request(g)}]
      BY <1>4, <2>1, <2>5 DEF Send
    <3>2. UNCHANGED client
      BY <2>1, <2>3, <3>1 DEF Types, Numbers
    <3>3. /\ \A q \in Procs \ {p} : proc'[q] = proc[q]
          /\ proc'[p].inst = proc[p].inst /\ proc'[p].life = proc[p].life
          /\ proc'[p].stdin = proc[p].stdin \cup {Request(g)}
          /\ proc'[p].stdout = proc[p].stdout
          /\ proc'[p].turn = proc[p].turn /\ proc'[p].announced = proc[p].announced
      BY <1>1, <3>1 DEF Processes
    <3> QED
      BY <1>2, <2>1, <2>2, <2>3, <3>1, <3>2, <3>3
  <2> QED
    BY <2>4, <2>5
<1> QED
  BY <1>3, <1>4
-----------------------------------------------------------------------------
(***************************************************************************)
(* A running turn is tracked (RunningTurnIsTracked) and a turn/started     *)
(* carries the label of its own request unless starts have overlapped      *)
(* (LabelIsRight).                                                         *)
(***************************************************************************)

StartRequest(t) == [by |-> t, turn |-> None]

\* Outstanding, without and with its call.
Beginning(t) ==
    \E p \in Procs :
        \/ StartRequest(t) \in proc[p].stdin
        \/ proc[p].turn = t /\ ~proc[p].announced
        \/ Says(proc[p].stdout, "started", t)

Waiting(t) == call[t].pc \in {"call", "sent", "answered"}

(***************************************************************************)
(* Labels                                                                  *)
(***************************************************************************)
StartersNameNoTurn ==
    /\ \A c \in Starters : call[c].turn = None
    /\ \A p \in Procs : \A r \in proc[p].stdin : r.by \in Starters => r.turn = None

OverlapsAreMixed ==
    \A t, u \in Turns : t # u /\ Outstanding(t) /\ Outstanding(u) => {t, u} \subseteq mixed

PendingIsWaiting ==
    \A i \in Instances : LET c == maps[i].pending IN
        c # None => c \in Labelled /\ Waiting(c) /\ call[c].inst = i

OthersLabelIsMixed ==
    \A i \in Instances, t \in Turns :
        maps[i].byTurn[t] \notin {t, None} => {t, maps[i].byTurn[t]} \subseteq mixed

Unstarted == \A p \in Procs : p > procs => proc[p] = NotStarted

(***************************************************************************)
(* What a step can do to a process                                         *)
(***************************************************************************)
\* Fields of a process that a step leaves alone.
SameHome(p) == proc'[p].inst = proc[p].inst /\ proc'[p].life = proc[p].life

SameTurn(p) == proc'[p].turn = proc[p].turn /\ proc'[p].announced = proc[p].announced

SamePipes(p) == proc'[p].stdin = proc[p].stdin /\ proc'[p].stdout = proc[p].stdout

Begins(p) ==
    \E g \in Goroutines :
        /\ Send(g) /\ call[g].pc = "call" /\ current \in Instances /\ client[current] = 0
        /\ p = procs + 1 /\ proc[p] = NotStarted
        /\ proc'[p] = [inst |-> current, life |-> "alive", stdin |-> {Request(g)},
                       stdout |-> <<>>, turn |-> None, announced |-> FALSE]

Receives(p) ==
    \E g \in Goroutines :
        /\ Send(g) /\ call[g].pc = "call" /\ current \in Instances /\ client[current] = p
        /\ SameHome(p) /\ SameTurn(p) /\ proc'[p].stdout = proc[p].stdout
        /\ proc'[p].stdin = proc[p].stdin \cup {Request(g)}

IsClosed(p) ==
    /\ proc[p].life = "alive" /\ proc'[p].life = "closing" /\ proc'[p].inst = proc[p].inst
    /\ proc'[p].stdin = {} /\ proc'[p].stdout = proc[p].stdout
    /\ proc'[p].turn = None /\ proc'[p].announced = FALSE

IsRead(p) ==
    /\ ReaderStep(p) /\ proc[p].stdout # <<>> /\ proc'[p].stdout = Tail(proc[p].stdout)
    /\ SameHome(p) /\ SameTurn(p) /\ proc'[p].stdin = proc[p].stdin

Serves(p) ==
    \E r \in Requests, turn \in Turns \cup {None}, result \in {"ok", "refused"} :
        /\ ServeRequest(p) /\ proc[p].life = "alive" /\ r \in proc[p].stdin
        /\ SameHome(p)
        /\ proc'[p].stdin = proc[p].stdin \ {r}
        /\ proc'[p].stdout = Append(proc[p].stdout, Message("response", r.by, result))
        /\ proc'[p].turn = turn
        /\ proc'[p].announced <=> proc[p].announced /\ turn = proc[p].turn
        /\ \/ /\ r.by \in Starters /\ proc[p].turn = None /\ turn = r.by /\ result = "ok"
              /\ home' = [home EXCEPT ![r.by] = p]
           \/ /\ turn = proc[p].turn /\ UNCHANGED home
              /\ r.by \in Starters => result = "refused"

Notifies(p) ==
    /\ proc[p].turn \in Turns /\ SameHome(p) /\ proc'[p].stdin = proc[p].stdin
    /\ \/ /\ TurnStarts(p) /\ ~proc[p].announced
          /\ proc'[p].turn = proc[p].turn /\ proc'[p].announced
          /\ proc'[p].stdout = Append(proc[p].stdout, Message("started", proc[p].turn, "ok"))
       \/ /\ TurnEnds(p) /\ proc[p].announced
          /\ proc'[p].turn = None /\ ~proc'[p].announced
          /\ proc'[p].stdout = Append(proc[p].stdout, Message("terminal", proc[p].turn, "ok"))

IsGone(p) ==
    /\ HandleClosed(p) /\ proc[p].life = "closing" /\ proc'[p].life = "closed"
    /\ proc'[p].inst = proc[p].inst /\ SamePipes(p) /\ SameTurn(p)

ProcessMoves(p) ==
    \/ proc'[p] = proc[p]
    \/ Begins(p) \/ Receives(p) \/ IsClosed(p) \/ IsRead(p)
    \/ Serves(p) \/ Notifies(p) \/ IsGone(p)

LEMMA ProcessesMove ==
    ASSUME Types, Unstarted, Next, NEW p \in Procs
    PROVE  ProcessMoves(p)
<1> USE TurnAssumption DEF ProcessMoves
<1>1. /\ proc \in [Procs -> Processes] /\ proc[p] \in Processes
      /\ call \in [Goroutines -> Calls] /\ procs \in Nat
  BY DEF Types, ProcsTyped, CallsTyped, Numbers
<1>2. CASE UNCHANGED proc
  BY <1>2
<1>3. ASSUME NEW g \in Goroutines, Send(g) PROVE ProcessMoves(p)
  <2>1. CASE UNCHANGED proc
    BY <2>1
  <2>2. CASE ~UNCHANGED proc
    <3>1. call[g].pc = "call" /\ current \in Instances
      BY <1>3, <2>2, SendDoes
    <3>2. CASE client[current] = 0 /\ procs + 1 \in Procs
      <4>1. /\ \A q \in Procs \ {procs + 1} : proc'[q] = proc[q]
            /\ proc'[procs + 1] = [inst |-> current, life |-> "alive", stdin |-> {Request(g)},
                                   stdout |-> <<>>, turn |-> None, announced |-> FALSE]
        BY <1>3, <2>2, <3>2, SendDoes DEF Procs
      <4>2. procs + 1 > procs
        BY <1>1
      <4>3. proc[procs + 1] = NotStarted
        BY <3>2, <4>2 DEF Unstarted
      <4> QED
        BY <1>3, <3>1, <3>2, <4>1, <4>3 DEF Begins
    <3>3. CASE ~(client[current] = 0 /\ procs + 1 \in Procs)
      <4>1. PICK q \in Procs :
               /\ q = client[current]
               /\ \A r \in Procs \ {q} : proc'[r] = proc[r]
               /\ SameHome(q) /\ SameTurn(q) /\ proc'[q].stdout = proc[q].stdout
               /\ proc'[q].stdin = proc[q].stdin \cup {Request(g)}
        BY <1>3, <2>2, <3>3, SendDoes DEF SameHome, SameTurn
      <4> QED
        BY <1>3, <3>1, <4>1 DEF Receives
    <3> QED
      BY <3>2, <3>3
  <2> QED
    BY <2>1, <2>2
<1>4. ASSUME NEW q \in Procs, proc[q].life = "alive", Closes(q) PROVE ProcessMoves(p)
  BY <1>4, ClosesDoes DEF IsClosed
<1>5. ASSUME NEW g \in Goroutines, RecycleRemove(g) PROVE ProcessMoves(p)
  <2>1. CASE UNCHANGED proc
    BY <2>1
  <2>2. CASE ~UNCHANGED proc
    BY <1>4, <1>5, <2>2, CurrentIsThere DEF RecycleRemove, Types
  <2> QED
    BY <2>1, <2>2
<1>6. ASSUME NEW q \in Procs, ReaderStep(q) PROVE ProcessMoves(p)
  <2>1. proc[q].stdout # <<>> /\ Read(q)
    BY <1>6 DEF ReaderStep, HandleResponse, HandleTurnStarted, HandleTurnEnded, Reads
  <2> QED
    BY <1>6, <2>1, ReadDoes DEF IsRead, SameHome, SameTurn
<1>7. ASSUME NEW q \in Procs, ServeRequest(q) PROVE ProcessMoves(p)
  <2>1. PICK r \in proc[q].stdin, turn \in Turns \cup {None}, result \in {"ok", "refused"} :
           /\ Serve(q, r, turn, result)
           /\ \/ /\ r.by \in Starters /\ proc[q].turn = None /\ turn = r.by /\ result = "ok"
                 /\ home' = [home EXCEPT ![r.by] = q]
              \/ /\ turn = proc[q].turn /\ UNCHANGED home
                 /\ r.by \in Starters => result = "refused"
    <3>1. proc[q].turn \in Turns \cup {None}
      BY <1>1 DEF Processes
    <3>2. PICK r \in proc[q].stdin :
             \/ ServeRefused(q, r) /\ UNCHANGED home
             \/ ServeStart(q, r) /\ home' = [home EXCEPT ![r.by] = q]
             \/ ServeInterrupt(q, r) /\ UNCHANGED home
      BY <1>7 DEF ServeRequest
    <3>3. CASE ServeRefused(q, r) /\ UNCHANGED home
      BY <3>1, <3>3 DEF ServeRefused
    <3>4. CASE ServeStart(q, r) /\ home' = [home EXCEPT ![r.by] = q]
      BY <3>1, <3>4 DEF ServeStart, Turns
    <3>5. CASE ServeInterrupt(q, r) /\ UNCHANGED home
      BY <3>1, <3>5 DEF ServeInterrupt
    <3> QED
      BY <3>2, <3>3, <3>4, <3>5
  <2>2. r \in Requests
    BY <1>1 DEF Processes
  <2>3. proc[q].life = "alive"
    BY <1>7 DEF ServeRequest
  <2>4. CASE p = q
    <3>1. /\ SameHome(p)
          /\ proc'[p].stdin = proc[p].stdin \ {r}
          /\ proc'[p].stdout = Append(proc[p].stdout, Message("response", r.by, result))
          /\ proc'[p].turn = turn
          /\ proc'[p].announced <=> proc[p].announced /\ turn = proc[p].turn
      BY <2>1, <2>2, <2>4, ServeDoes DEF SameHome
    <3>2. Serves(p)
      BY <1>7, <2>1, <2>2, <2>3, <2>4, <3>1 DEF Serves
    <3> QED
      BY <3>2
  <2>5. CASE p # q
    BY <2>1, <2>2, <2>5, ServeDoes
  <2> QED
    BY <2>4, <2>5
<1>8. ASSUME NEW q \in Procs, TurnStarts(q) PROVE ProcessMoves(p)
  <2>1. proc[q].turn \in Turns /\ ~proc[q].announced /\ Notify(q, "started", proc[q].turn, TRUE)
    BY <1>1, <1>8 DEF TurnStarts, Processes
  <2> QED
    BY <1>8, <2>1, NotifyDoes DEF Notifies, SameHome
<1>9. ASSUME NEW q \in Procs, TurnEnds(q) PROVE ProcessMoves(p)
  <2>1. proc[q].turn \in Turns /\ proc[q].announced /\ Notify(q, "terminal", None, FALSE)
    BY <1>9 DEF TurnEnds, Types, ProcsTyped, ProcOK
  <2> QED
    BY <1>9, <2>1, NotifyDoes DEF Notifies, SameHome
<1>10. ASSUME NEW q \in Procs, Exits(q) PROVE ProcessMoves(p)
  BY <1>4, <1>10 DEF Exits
<1>11. ASSUME NEW q \in Procs, HandleClosed(q) PROVE ProcessMoves(p)
  <2>1. proc[q].life = "closing" /\ proc' = [proc EXCEPT ![q].life = "closed"]
    BY <1>11 DEF HandleClosed
  <2> QED
    BY <1>1, <1>11, <2>1 DEF IsGone, SamePipes, SameTurn, Processes
<1> QED
  BY <1>2, <1>3, <1>5, <1>6, <1>7, <1>8, <1>9, <1>10, <1>11
  DEF Next, CallStep, StartStep, InterruptStep, ServerStep, SeesClosed, ContextEnds,
      StartBegin, StartAnswered, BeginInterrupt, FinishInterrupt,
      RememberActiveTurn, TimesOut, RestoreInterruptedTurn, RecycleConfigure

LEMMA UnstartedStep ==
    ASSUME Types, Unstarted, Next
    PROVE  Unstarted'
<1> USE TurnAssumption
<1>1. /\ procs \in Nat /\ client \in [Instances -> 0 .. procs]
      /\ \A p \in Procs : p \in Nat /\ p # 0
      /\ None \notin Turns
  BY DEF Types, Numbers, Procs, Turns
<1>2. procs' = procs \/ procs' = procs + 1
  BY DEF Next, CallStep, StartStep, InterruptStep, ReaderStep, ServerStep, Send, SeesClosed,
      ContextEnds, StartBegin, StartAnswered, RememberActiveTurn, BeginInterrupt, TimesOut,
      FinishInterrupt, RestoreInterruptedTurn, RecycleRemove, RecycleConfigure, HandleResponse,
      HandleTurnStarted, HandleTurnEnded, HandleClosed, ServeRequest, TurnStarts, TurnEnds, Exits
<1> SUFFICES ASSUME NEW p \in Procs, p > procs' PROVE proc'[p] = NotStarted
  BY DEF Unstarted, Procs
<1>3. proc[p] = NotStarted /\ p > procs
  BY <1>1, <1>2 DEF Unstarted
<1>4. /\ proc[p].life = "none" /\ proc[p].stdout = <<>> /\ proc[p].turn = None
  BY <1>3 DEF NotStarted
<1>5. ASSUME Begins(p) PROVE FALSE
  <2>1. PICK g \in Goroutines : Send(g) /\ client[current] = 0 /\ p = procs + 1 /\ proc'[p].life = "alive"
    BY <1>5 DEF Begins
  <2>2. proc' # proc
    BY <1>4, <2>1
  <2>3. procs' = procs + 1
    BY <1>1, <2>1, <2>2, SendDoes
  <2> QED
    BY <1>1, <2>1, <2>3
<1>6. ASSUME Receives(p) PROVE FALSE
  BY <1>1, <1>3, <1>6 DEF Receives
<1>7. ProcessMoves(p)
  BY ProcessesMove
<1> QED
  BY <1>1, <1>3, <1>4, <1>5, <1>6, <1>7 DEF ProcessMoves, IsClosed, IsRead, Serves, Notifies, IsGone

(* What is new to a process: a request, or a turn it takes on.             *)
LEMMA RequestsMove ==
    ASSUME Types, Unstarted, Next, NEW p \in Procs, NEW r \in proc'[p].stdin, r \notin proc[p].stdin
    PROVE  \E g \in Goroutines :
              /\ Send(g) /\ call[g].pc = "call" /\ r = Request(g)
              /\ p = IF client[current] = 0 THEN procs + 1 ELSE client[current]
<1>1. CASE Begins(p)
  BY <1>1 DEF Begins
<1>2. CASE Receives(p)
  BY <1>2, TurnAssumption DEF Receives, Procs
<1>3. CASE Serves(p)
  BY <1>3 DEF Serves
<1>4. CASE IsClosed(p) \/ IsRead(p) \/ Notifies(p) \/ IsGone(p)
  BY <1>4 DEF IsClosed, IsRead, Notifies, IsGone, SamePipes
<1> QED
  BY <1>1, <1>2, <1>3, <1>4, ProcessesMove DEF ProcessMoves

LEMMA TurnsMove ==
    ASSUME Types, Unstarted, Next, NEW p \in Procs
    PROVE  \/ SameTurn(p)
           \/ proc'[p].turn = None
           \/ Serves(p)
           \/ proc'[p].turn = proc[p].turn /\ proc'[p].announced /\ Notifies(p)
<1>1. CASE Begins(p)
  BY <1>1 DEF Begins
<1>2. CASE Notifies(p)
  BY <1>2 DEF Notifies
<1>3. CASE Receives(p) \/ IsClosed(p) \/ IsRead(p) \/ IsGone(p)
  BY <1>3 DEF Receives, IsClosed, IsRead, IsGone, SameTurn
<1> QED
  BY <1>1, <1>2, <1>3, ProcessesMove DEF ProcessMoves, SameTurn

(* News of a turn is written when it starts or ends, and stays until it is handled. *)
LEMMA NewsMoves ==
    ASSUME Types, Unstarted, Next, NEW p \in Procs, NEW t \in Turns
    PROVE  /\ Says(proc'[p].stdout, "started", t) =>
                 \/ Says(proc[p].stdout, "started", t)
                 \/ proc[p].turn = t /\ ~proc[p].announced
           /\ Says(proc'[p].stdout, "terminal", t) =>
                 \/ Says(proc[p].stdout, "terminal", t)
                 \/ proc[p].turn = t /\ proc[p].announced /\ proc'[p].turn = None
           /\ Says(proc[p].stdout, "terminal", t) =>
                 \/ Says(proc'[p].stdout, "terminal", t)
                 \/ HandleTurnEnded(p) /\ Head(proc[p].stdout).id = t
<1>1. proc[p] \in Processes /\ proc[p].stdout \in Outputs
  BY DEF Types, ProcsTyped, Processes
<1>2. CASE proc'[p].stdout = proc[p].stdout
  BY <1>2
<1>3. CASE Begins(p)
  <2>1. proc'[p].stdout = <<>> /\ proc[p].stdout = <<>>
    BY <1>3 DEF Begins, NotStarted
  <2> QED
    BY <2>1
<1>4. CASE IsRead(p)
  <2>0. PICK m : m = Head(proc[p].stdout)
    OBVIOUS
  <2>1. /\ proc'[p].stdout = Tail(proc[p].stdout) /\ proc[p].stdout # <<>>
        /\ HandleTurnEnded(p) \/ m.kind # "terminal"
    BY <1>4, <2>0 DEF IsRead, ReaderStep, HandleResponse, HandleTurnStarted, Reads
  <2>2. \A kind : Says(proc[p].stdout, kind, t) <=> Says(proc'[p].stdout, kind, t) \/ IsAbout(m, kind, t)
    <3>1. PICK q, a : q \in Outputs /\ q = proc[p].stdout /\ a = proc'[p].stdout
      BY <1>1
    <3>2. q # <<>> /\ m = Head(q) /\ a = Tail(q)
      BY <2>0, <2>1, <3>1
    <3>3. \A kind : Says(q, kind, t) <=> Says(a, kind, t) \/ IsAbout(m, kind, t)
      BY <3>1, <3>2, SaysLess
    <3> QED
      BY <3>1, <3>3
  <2> QED
    BY <2>0, <2>1, <2>2 DEF IsAbout
<1>5. CASE Serves(p)
  <2>1. PICK m \in Said : m.kind = "response" /\ proc'[p].stdout = Append(proc[p].stdout, m)
    BY <1>5 DEF Serves, Message, Said, Messages, Requests
  <2>2. \A kind : Says(proc'[p].stdout, kind, t) <=> Says(proc[p].stdout, kind, t) \/ IsAbout(m, kind, t)
    BY <1>1, <2>1, SaysMore
  <2> QED
    BY <2>1, <2>2 DEF IsAbout
<1>6. CASE Notifies(p)
  <2>1. PICK kind, m :
           /\ kind \in {"started", "terminal"}
           /\ m = Message(kind, proc[p].turn, "ok") /\ proc'[p].stdout = Append(proc[p].stdout, m)
           /\ kind = "started" => ~proc[p].announced
           /\ kind = "terminal" => proc[p].announced /\ proc'[p].turn = None
    BY <1>6 DEF Notifies
  <2>2. m \in Said /\ m.kind = kind /\ m.id = proc[p].turn
    BY <1>6, <2>1 DEF Notifies, Message, Said, Messages, Turns, Goroutines
  <2>3. \A k : Says(proc'[p].stdout, k, t) <=> Says(proc[p].stdout, k, t) \/ IsAbout(m, k, t)
    <3>1. PICK q, a : q \in Outputs /\ q = proc[p].stdout /\ a = proc'[p].stdout /\ a = Append(q, m)
      BY <1>1, <2>1
    <3>2. \A k : Says(a, k, t) <=> Says(q, k, t) \/ IsAbout(m, k, t)
      BY <2>2, <3>1, SaysMore
    <3> QED
      BY <3>1, <3>2
  <2> QED
    BY <2>1, <2>2, <2>3 DEF IsAbout
<1> QED
  BY <1>2, <1>3, <1>4, <1>5, <1>6, ProcessesMove
  DEF ProcessMoves, Receives, IsClosed, IsGone, SamePipes
-----------------------------------------------------------------------------
(* A turn leaves the maps by being dropped or reported as ended.           *)
LEMMA TrackingMoves ==
    ASSUME Types, Next, NEW t \in Turns, NEW i \in Instances, Tracks(maps[i], t)
    PROVE  Tracks(maps'[i], t) \/ t \in dropped' \/ shown'[t] = "ended"
<1> USE TurnAssumption
<1>1. /\ maps \in [Instances -> Maps] /\ MapsOK(maps[i]) /\ t # None
      /\ current = 0 \/ current \in Instances
      /\ shown \in [Turns -> {"none", "running", "ended"}]
  BY CurrentIsThere DEF Types, MapsTyped, Turns, Told
<1>2. ASSUME ~Tracks(maps'[i], t) PROVE t \in DroppedBy(maps')
  BY <1>2 DEF DroppedBy, TracksSome
<1>3. ASSUME NEW m, maps' = InCurrent(m), current = i => Tracks(m, t) PROVE Tracks(maps'[i], t)
  <2>1. CASE current = i
    BY <1>1, <1>3, <2>1 DEF InCurrent, Instances
  <2>2. CASE current # i
    BY <1>1, <1>3, <2>2 DEF InCurrent
  <2> QED
    BY <2>1, <2>2
<1>4. ASSUME NEW c \in Starters, StartBegin(c) PROVE Tracks(maps'[i], t)
  <2>1. Tracks(Correlating(maps[i], c), t)
    BY <1>1 DEF Tracks, Correlating, Maps
  <2> QED
    BY <1>3, <1>4, <2>1 DEF StartBegin
<1>5. ASSUME NEW c \in Starters, StartAnswered(c) PROVE Tracks(maps'[i], t)
  <2>1. Tracks(StartCorrelated(c, i), t)
    BY <1>1 DEF Tracks, StartCorrelated, Correlated, Uncorrelated, Maps
  <2>2. \/ UNCHANGED maps
        \/ maps' = [maps EXCEPT ![call[c].inst] = StartCorrelated(c, call[c].inst)]
    BY <1>5 DEF StartAnswered
  <2>3. CASE call[c].inst = i
    BY <1>1, <2>1, <2>2, <2>3
  <2>4. CASE call[c].inst # i
    BY <1>1, <2>2, <2>4
  <2> QED
    BY <2>3, <2>4
<1>6. ASSUME NEW g \in Interrupters, BeginInterrupt(g) PROVE Tracks(maps'[i], t)
  <2>1. current = i => Tracks(BeingInterrupted(maps[i]), t)
    BY <1>1, <1>6 DEF BeginInterrupt, Tracks, BeingInterrupted, Maps
  <2> QED
    BY <1>3, <1>6, <2>1 DEF BeginInterrupt
<1>7. ASSUME NEW g \in Interrupters, RestoreInterruptedTurn(g) PROVE Tracks(maps'[i], t)
  <2>1. Tracks(Restored(maps[i], call[g].turn), t)
    BY <1>1 DEF Tracks, Restored, Maps, MapsOK
  <2> QED
    BY <1>3, <1>7, <2>1 DEF RestoreInterruptedTurn
<1>8. ASSUME NEW p \in Procs, HandleTurnEnded(p) PROVE Tracks(maps'[i], t) \/ shown'[t] = "ended"
  <2> DEFINE u == Head(proc[p].stdout).id
  <2>1. CASE u = t
    BY <1>1, <1>8, <2>1 DEF HandleTurnEnded
  <2>2. CASE u # t
    <3>1. Tracks(Ended(maps[i], u), t)
      BY <1>1, <2>2 DEF Tracks, Ended, Without, Maps
    <3>2. maps' = [maps EXCEPT ![proc[p].inst] = Ended(maps[proc[p].inst], u)]
      BY <1>8 DEF HandleTurnEnded
    <3> QED
      BY <1>1, <3>1, <3>2
  <2> QED
    BY <2>1, <2>2
<1>9. ASSUME NEW p \in Procs, HandleClosed(p) PROVE Tracks(maps'[i], t) \/ shown'[t] = "ended"
  <2>1. CASE proc[p].inst = i
    <3>1. t \in ClosedTurns(maps[i])
      BY <1>1 DEF Tracks, ClosedTurns, MapsOK
    <3> QED
      BY <1>9, <2>1, <3>1 DEF HandleClosed
  <2>2. CASE proc[p].inst # i
    BY <1>1, <1>9, <2>2 DEF HandleClosed
  <2> QED
    BY <2>1, <2>2
<1> QED
  BY <1>2, <1>4, <1>5, <1>6, <1>7, <1>8, <1>9
  DEF Next, CallStep, StartStep, InterruptStep, ReaderStep, ServerStep, SeesClosed, ContextEnds,
      Send, RememberActiveTurn, TimesOut, FinishInterrupt, RecycleRemove, RecycleConfigure,
      HandleResponse, HandleTurnStarted, ServeRequest, TurnStarts, TurnEnds, Exits, runtimeVars

(* A turn is said to be running when it gets active.                       *)
LEMMA TellingMoves ==
    ASSUME Types, Next, NEW t \in Turns, shown'[t] = "running"
    PROVE  \/ shown[t] = "running" /\ ~\E p \in Procs : HandleTurnEnded(p) /\ Head(proc[p].stdout).id = t
           \/ \E i \in Instances : Tracks(maps'[i], t)
<1> USE TurnAssumption
<1>1. /\ shown \in [Turns -> {"none", "running", "ended"}]
      /\ maps \in [Instances -> Maps]
  BY DEF Types, Told, MapsTyped
<1>2. ASSUME NEW p \in Procs, HandleTurnEnded(p), Head(proc[p].stdout).id = t PROVE FALSE
  BY <1>1, <1>2 DEF HandleTurnEnded
<1>3. CASE shown[t] = "running"
  BY <1>2, <1>3
<1>4. CASE shown[t] # "running"
  <2>1. PICK p \in Procs : HandleTurnStarted(p) /\ Head(proc[p].stdout).id = t
    <3>1. ASSUME NEW p \in Procs, HandleTurnStarted(p) PROVE Head(proc[p].stdout).id = t
      BY <1>1, <1>4, <3>1 DEF HandleTurnStarted
    <3>2. ASSUME NEW p \in Procs, HandleTurnEnded(p) \/ HandleClosed(p) PROVE FALSE
      BY <1>1, <1>4, <3>2 DEF HandleTurnEnded, HandleClosed
    <3> QED
      BY <1>4, <3>1, <3>2
      DEF Next, CallStep, StartStep, InterruptStep, ReaderStep, ServerStep, SeesClosed, ContextEnds,
          Send, StartBegin, StartAnswered, RememberActiveTurn, BeginInterrupt, TimesOut,
          FinishInterrupt, RestoreInterruptedTurn, RecycleRemove, RecycleConfigure, HandleResponse,
          ServeRequest, TurnStarts, TurnEnds, Exits
  <2>2. PICK i \in Instances : i = proc[p].inst
    BY <2>1 DEF HandleTurnStarted, Reads, Types, ProcsTyped, ProcOK
  <2>3. maps' = [maps EXCEPT ![i] = Started(Attached(maps[i], t), t)]
    BY <2>1, <2>2 DEF HandleTurnStarted
  <2>4. Started(Attached(maps[i], t), t).active = t
    BY <1>1 DEF Started, Attached, Maps
  <2> QED
    BY <1>1, <2>3, <2>4 DEF Tracks
<1> QED
  BY <1>3, <1>4

LEMMA TrackedStep ==
    ASSUME Types, Unstarted, RunningTurnIsTracked, Next
    PROVE  RunningTurnIsTracked'
<1>1. dropped \subseteq dropped'
  BY DEF Next, CallStep, StartStep, InterruptStep, ReaderStep, ServerStep, Send, SeesClosed,
      ContextEnds, StartBegin, StartAnswered, RememberActiveTurn, BeginInterrupt, TimesOut,
      FinishInterrupt, RestoreInterruptedTurn, RecycleRemove, RecycleConfigure, HandleResponse,
      HandleTurnStarted, HandleTurnEnded, HandleClosed, ServeRequest, TurnStarts, TurnEnds, Exits, history
<1> SUFFICES ASSUME NEW t \in Turns, t \notin dropped', shown'[t] = "running"
             PROVE  EndOnTheWay(t)' \/ \E i \in Instances : Tracks(maps'[i], t)
  BY DEF RunningTurnIsTracked
<1>2. CASE \E i \in Instances : Tracks(maps[i], t)
  BY <1>2, TrackingMoves
<1>3. CASE EndOnTheWay(t)
  <2>1. PICK p \in Procs : Says(proc[p].stdout, "terminal", t)
    BY <1>3 DEF EndOnTheWay, Says, IsAbout
  <2>2. ASSUME Says(proc'[p].stdout, "terminal", t) PROVE EndOnTheWay(t)'
    BY <2>2 DEF EndOnTheWay, Says, IsAbout
  <2> QED
    BY <2>1, <2>2, NewsMoves, TellingMoves
<1> QED
  BY <1>1, <1>2, <1>3, TellingMoves DEF RunningTurnIsTracked
-----------------------------------------------------------------------------
(***************************************************************************)
(* What a step can do to a start                                           *)
(***************************************************************************)
SameCall(t) == call'[t].inst = call[t].inst /\ call'[t].turn = call[t].turn

IsSent(t) ==
    /\ Send(t) /\ call[t].pc = "call" /\ SameCall(t)
    /\ call'[t].pc = "sent" \/ (call'[t].pc = "answered" /\ call'[t].result = "error")

IsAnswered(t) ==
    /\ call[t].pc = "sent" /\ call'[t].pc = "answered" /\ SameCall(t)
    /\ \/ call'[t].result \in {"error", "empty"}
       \/ \E p \in Procs : /\ HandleResponse(p) /\ Head(proc[p].stdout).id = t
                           /\ call'[t].result = Head(proc[p].stdout).result

IsBegun(t) ==
    /\ StartBegin(t) /\ call[t].pc = "idle" /\ call'[t].pc = "call"
    /\ call'[t].inst = current /\ call'[t].turn = call[t].turn

IsSettled(t) ==
    /\ StartAnswered(t) /\ call[t].pc = "answered" /\ call'[t].turn \in {call[t].turn, None}
    /\ \/ /\ call'[t].pc = "remember" /\ call'[t].result = call[t].result
          /\ call[t].result \in {"ok", "empty"}
       \/ call'[t].pc = "recycle"
       \/ call'[t].pc = "idle" /\ call[t].result = "refused"
       \/ call'[t].pc = "done"

IsDone(t) ==
    /\ RememberActiveTurn(t) \/ RecycleConfigure(t)
    /\ call[t].pc \in {"remember", "recycling"} /\ call'[t].pc = "done" /\ call'[t].turn = None

Recycles(t) ==
    RecycleRemove(t) /\ call[t].pc = "recycle" /\ call'[t].pc = "recycling" /\ SameCall(t)

CallMoves(t) ==
    \/ call'[t] = call[t]
    \/ IsBegun(t) \/ IsSent(t) \/ IsAnswered(t) \/ IsSettled(t) \/ IsDone(t) \/ Recycles(t)

LEMMA CallsMove ==
    ASSUME Types, Next, NEW t \in Starters
    PROVE  CallMoves(t)
<1> USE TurnAssumption DEF CallMoves
<1>1. call \in [Goroutines -> Calls] /\ t \in Goroutines /\ t \notin Interrupters
  BY DEF Types, CallsTyped, Goroutines
<1>2. CASE UNCHANGED call
  BY <1>2
<1>3. ASSUME NEW g \in Goroutines, NEW result, Answered(g, result)
      PROVE  \/ call'[t] = call[t]
             \/ t = g /\ call'[t].pc = "answered" /\ call'[t].result = result /\ SameCall(t)
  BY <1>1, <1>3 DEF Answered, SameCall, Calls
<1>4. ASSUME NEW g \in Goroutines, Return(g)
      PROVE  call'[t] = call[t] \/ (t = g /\ call'[t].pc = "done" /\ call'[t].turn = None)
  BY <1>1, <1>4 DEF Return, IdleCall
<1>5. ASSUME NEW g \in Goroutines, NEW pc, Go(g, pc)
      PROVE  \/ call'[t] = call[t]
             \/ t = g /\ call'[t].pc = pc /\ call'[t].result = call[t].result /\ SameCall(t)
  BY <1>1, <1>5 DEF Go, SameCall, Calls
<1>6. ASSUME NEW g \in Goroutines, Send(g) PROVE CallMoves(t)
  <2>1. call[g].pc = "call" /\ \A h \in Goroutines \ {g} : call'[h] = call[h]
    BY <1>6, SendDoes
  <2>2. /\ call'[g].inst = call[g].inst /\ call'[g].turn = call[g].turn
        /\ call'[g].pc = "sent" \/ (call'[g].pc = "answered" /\ call'[g].result = "error")
    BY <1>6, SendDoes
  <2> QED
    BY <1>1, <1>6, <2>1, <2>2 DEF IsSent, SameCall
<1>7. ASSUME NEW g \in Goroutines, SeesClosed(g) \/ ContextEnds(g) PROVE CallMoves(t)
  BY <1>3, <1>7 DEF SeesClosed, ContextEnds, At, IsAnswered
<1>8. ASSUME NEW g \in Goroutines, RecycleRemove(g) PROVE CallMoves(t)
  BY <1>1, <1>8 DEF RecycleRemove, At, Recycles, SameCall, Calls
<1>9. ASSUME NEW g \in Goroutines, RecycleConfigure(g) PROVE CallMoves(t)
  BY <1>4, <1>9 DEF RecycleConfigure, At, IsDone
<1>10. ASSUME NEW c \in Starters, StartBegin(c) PROVE CallMoves(t)
  BY <1>1, <1>10 DEF StartBegin, At, IsBegun, Calls
<1>11. ASSUME NEW c \in Starters, StartAnswered(c) PROVE CallMoves(t)
  <2>1. c \in Goroutines /\ call[c].pc = "answered"
    BY <1>11 DEF Goroutines, StartAnswered, At
  <2>2. CASE Go(c, "remember") /\ call[c].result \in {"ok", "empty"}
    BY <1>5, <1>11, <2>1, <2>2 DEF IsSettled, SameCall
  <2>3. CASE Go(c, "recycle")
    BY <1>5, <1>11, <2>1, <2>3 DEF IsSettled, SameCall
  <2>4. CASE call[c].result = "refused" /\ call' = [call EXCEPT ![c] = [IdleCall EXCEPT !.again = TRUE]]
    <3>1. call'[t] = call[t] \/ (t = c /\ call'[t] = [IdleCall EXCEPT !.again = TRUE])
      BY <1>1, <2>4
    <3>2. [IdleCall EXCEPT !.again = TRUE].pc = "idle" /\ [IdleCall EXCEPT !.again = TRUE].turn = None
      BY DEF IdleCall
    <3> QED
      BY <1>11, <2>1, <2>4, <3>1, <3>2 DEF IsSettled
  <2>5. CASE Return(c)
    BY <1>4, <1>11, <2>1, <2>5 DEF IsSettled
  <2> QED
    BY <1>11, <2>2, <2>3, <2>4, <2>5 DEF StartAnswered
<1>12. ASSUME NEW c \in Starters, RememberActiveTurn(c) PROVE CallMoves(t)
  BY <1>4, <1>12 DEF RememberActiveTurn, At, IsDone, Goroutines
<1>13. ASSUME NEW i \in Interrupters, BeginInterrupt(i) \/ InterruptStep(i) PROVE call'[t] = call[t]
  <2>1. i # t /\ i \in Goroutines
    BY <1>1 DEF Goroutines
  <2>2. CASE BeginInterrupt(i)
    BY <1>1, <2>1, <2>2 DEF BeginInterrupt
  <2>3. CASE InterruptStep(i)
    BY <1>3, <1>4, <1>5, <2>1, <2>3
    DEF InterruptStep, TimesOut, FinishInterrupt, RestoreInterruptedTurn
  <2> QED
    BY <1>13, <2>2, <2>3
<1>14. ASSUME NEW p \in Procs, HandleResponse(p) PROVE CallMoves(t)
  <2> DEFINE m == Head(proc[p].stdout)
  <2>1. CASE ~UNCHANGED call
    <3>1. call[m.id].pc = "sent" /\ Answered(m.id, m.result)
      BY <1>14, <2>1 DEF HandleResponse, At
    <3>2. m.id \in Goroutines
      BY <1>14, OutputsTyped DEF HandleResponse, Reads, Types, ProcsTyped, Processes, Said, Messages
    <3> QED
      BY <1>3, <1>14, <3>1, <3>2 DEF IsAnswered
  <2> QED
    BY <2>1
<1> QED
  BY <1>2, <1>6, <1>7, <1>8, <1>9, <1>10, <1>11, <1>12, <1>13, <1>14
  DEF Next, CallStep, StartStep, ReaderStep, ServerStep, HandleTurnStarted, HandleTurnEnded,
      HandleClosed, ServeRequest, TurnStarts, TurnEnds, Exits

(* A start goes on waiting until its answer is settled.                    *)
LEMMA WaitingMoves ==
    ASSUME Types, Next, NEW t \in Starters
    PROVE  /\ Waiting(t)' => Waiting(t) \/ StartBegin(t)
           /\ Waiting(t) => \/ Waiting(t)' /\ call'[t].inst = call[t].inst
                            \/ StartAnswered(t)
  BY CallsMove DEF CallMoves, IsBegun, IsSent, IsAnswered, IsSettled, IsDone, Recycles, SameCall, Waiting

LEMMA NamesStep ==
    ASSUME Types, Unstarted, StartersNameNoTurn, Next
    PROVE  StartersNameNoTurn'
<1>1. ASSUME NEW c \in Starters PROVE call'[c].turn = None
  BY CallsMove DEF CallMoves, IsBegun, IsSent, IsAnswered, IsSettled, IsDone, Recycles, SameCall,
     StartersNameNoTurn
<1>2. ASSUME NEW p \in Procs, NEW r \in proc'[p].stdin, r.by \in Starters PROVE r.turn = None
  <2>1. \A g \in Goroutines : Request(g).by = g /\ Request(g).turn = call[g].turn
    BY DEF Request
  <2>2. CASE r \in proc[p].stdin
    BY <1>2, <2>2 DEF StartersNameNoTurn
  <2>3. CASE r \notin proc[p].stdin
    <3>1. PICK g \in Goroutines : r = Request(g)
      BY <1>2, <2>3, RequestsMove
    <3> QED
      BY <1>2, <2>1, <3>1 DEF StartersNameNoTurn
  <2> QED
    BY <2>2, <2>3
<1> QED
  BY <1>1, <1>2 DEF StartersNameNoTurn

LEMMA OutstandingIs ==
    ASSUME NEW t \in Turns
    PROVE  Outstanding(t) <=> Waiting(t) \/ Beginning(t)
  BY DEF Outstanding, Waiting, Beginning, Says, IsAbout, StartRequest

LEMMA BeginningMoves ==
    ASSUME Types, Unstarted, StartersNameNoTurn, Next, NEW t \in Turns, Beginning(t)'
    PROVE  call[t].pc = "call" \/ Beginning(t)
<1> USE TurnAssumption DEF Turns
<1>1. ASSUME NEW p \in Procs, StartRequest(t) \in proc'[p].stdin PROVE call[t].pc = "call" \/ Beginning(t)
  <2>1. CASE StartRequest(t) \in proc[p].stdin
    BY <2>1 DEF Beginning
  <2>2. CASE StartRequest(t) \notin proc[p].stdin
    <3>1. PICK g \in Goroutines : StartRequest(t) = Request(g) /\ call[g].pc = "call"
      BY <1>1, <2>2, RequestsMove
    <3>2. StartRequest(t).by = t /\ Request(g).by = g
      BY DEF StartRequest, Request
    <3> QED
      BY <3>1, <3>2
  <2> QED
    BY <2>1, <2>2
<1>2. ASSUME NEW p \in Procs, proc'[p].turn = t, ~proc'[p].announced PROVE Beginning(t)
  <2>1. CASE proc[p].turn = t /\ ~proc[p].announced
    BY <2>1 DEF Beginning
  <2>2. CASE ~(proc[p].turn = t /\ ~proc[p].announced)
    <3>1. t # None
      OBVIOUS
    <3>2. Serves(p)
      BY <1>2, <2>2, <3>1, TurnsMove DEF SameTurn
    <3>3. PICK r \in Requests : r \in proc[p].stdin /\ r.by = t /\ r.by \in Starters
      BY <1>2, <2>2, <3>2 DEF Serves
    <3>4. r = StartRequest(t)
      BY <3>3 DEF StartersNameNoTurn, Requests, StartRequest
    <3> QED
      BY <3>3, <3>4 DEF Beginning
  <2> QED
    BY <2>1, <2>2
<1>3. ASSUME NEW p \in Procs, Says(proc'[p].stdout, "started", t) PROVE Beginning(t)
  BY <1>3, NewsMoves DEF Beginning
<1> QED
  BY <1>1, <1>2, <1>3 DEF Beginning

(* A start is outstanding from its beginning on.                           *)
LEMMA OutstandingMoves ==
    ASSUME Types, Unstarted, StartersNameNoTurn, Next, NEW t \in Turns
    PROVE  Outstanding(t)' => Outstanding(t) \/ StartBegin(t)
<1>1. Beginning(t)' => Waiting(t) \/ Beginning(t)
  BY BeginningMoves DEF Waiting
<1>2. Outstanding(t)' <=> Waiting(t)' \/ Beginning(t)'
  BY DEF Outstanding, Waiting, Beginning, Says, IsAbout, StartRequest
<1> QED
  BY <1>1, <1>2, OutstandingIs, WaitingMoves DEF Turns

LEMMA MixedMoves ==
    ASSUME Types, Next
    PROVE  /\ mixed \subseteq mixed'
           /\ \A c \in Starters, t \in Turns : StartBegin(c) /\ t # c /\ Outstanding(t) => {c, t} \subseteq mixed'
<1>1. mixed \subseteq mixed'
  BY DEF Next, CallStep, StartStep, InterruptStep, ReaderStep, ServerStep, Send, SeesClosed,
      ContextEnds, StartBegin, StartAnswered, RememberActiveTurn, BeginInterrupt, TimesOut,
      FinishInterrupt, RestoreInterruptedTurn, RecycleRemove, RecycleConfigure, HandleResponse,
      HandleTurnStarted, HandleTurnEnded, HandleClosed, ServeRequest, TurnStarts, TurnEnds, Exits, history
<1>2. ASSUME NEW c \in Starters, NEW t \in Turns, StartBegin(c), t # c, Outstanding(t)
      PROVE  {c, t} \subseteq mixed'
  BY <1>2 DEF StartBegin
<1> QED
  BY <1>1, <1>2

LEMMA OverlapsStep ==
    ASSUME Types, Unstarted, StartersNameNoTurn, OverlapsAreMixed, Next
    PROVE  OverlapsAreMixed'
<1> USE TurnAssumption DEF Turns
<1> SUFFICES ASSUME NEW t \in Turns, NEW u \in Turns, t # u, Outstanding(t)', Outstanding(u)'
             PROVE  {t, u} \subseteq mixed'
  BY DEF OverlapsAreMixed
<1>1. ASSUME StartBegin(t), StartBegin(u) PROVE FALSE
  <2>1. call[t].pc = "idle" /\ call'[u].pc = "call" /\ call'[t] = call[t]
    BY <1>1 DEF StartBegin, At, Types, CallsTyped, Goroutines, Calls
  <2>2. call'[t].pc = "call"
    BY <1>1 DEF StartBegin, Types, CallsTyped, Goroutines, Calls
  <2> QED
    BY <2>1, <2>2
<1> QED
  BY <1>1, OutstandingMoves, MixedMoves DEF OverlapsAreMixed
-----------------------------------------------------------------------------
(* The requests an instance knows of: only beginTurnStartCorrelation makes one
   pending, and finishing takes its own away; a turn/started takes the pending
   one over.                                                               *)
LEMMA BegunRequest ==
    ASSUME NEW m \in Maps, NEW c \in Starters
    PROVE  /\ Correlating(m, c).byTurn = m.byTurn
           /\ Correlating(m, c).pending = m.pending \/ (c \in Labelled /\ Correlating(m, c).pending = c)
  BY DEF Correlating, Maps

LEMMA SettledRequest ==
    ASSUME NEW m \in Maps, NEW c \in Starters,
           NEW n \in {Uncorrelated(m, c), Correlated(m, c, c), Correlated(m, c, None)}
    PROVE  /\ n.pending \in {m.pending, None} /\ (c \in Labelled => n.pending # c)
           /\ \A t \in Turns : n.byTurn[t] \in {m.byTurn[t], t}
<1> USE TurnAssumption DEF Maps, Turns
<1>1. CASE n = Uncorrelated(m, c) \/ n = Correlated(m, c, None)
  BY <1>1 DEF Uncorrelated, Correlated
<1>2. CASE n = Correlated(m, c, c)
  BY <1>2 DEF Uncorrelated, Correlated
<1> QED
  BY <1>1, <1>2

LEMMA UntouchedRequests ==
    ASSUME NEW m \in Maps, NEW u \in Turns \cup {None},
           NEW n \in {Remembered(m, u), BeingInterrupted(m), Finished(m, u), Restored(m, u)}
    PROVE  n.pending = m.pending /\ n.byTurn = m.byTurn
  BY DEF Remembered, Started, BeingInterrupted, Finished, Restored, Maps

LEMMA EndedRequests ==
    ASSUME NEW m \in Maps, NEW t \in Turns
    PROVE  /\ Ended(m, t).pending = m.pending
           /\ \A v \in Turns : Ended(m, t).byTurn[v] \in {m.byTurn[v], None}
  BY DEF Ended, Without, Maps

LEMMA StartedRequests ==
    ASSUME NEW m \in Maps, NEW t \in Turns, NEW n, n = Started(Attached(m, t), t)
    PROVE  /\ n.pending \in {m.pending, None}
           /\ \A v \in Turns : n.byTurn[v] = m.byTurn[v] \/ (v = t /\ n.byTurn[v] = m.pending)
  BY DEF Started, Attached, Maps

NewsOf(p, i, t) ==
    /\ HandleTurnStarted(p) /\ proc[p].inst = i /\ Head(proc[p].stdout).id = t
    /\ Says(proc[p].stdout, "started", t)

LEMMA HeadIsNews ==
    ASSUME Types, NEW p \in Procs, HandleTurnStarted(p) \/ HandleTurnEnded(p)
    PROVE  /\ proc[p].inst \in Instances /\ Head(proc[p].stdout).id \in Turns
           /\ HandleTurnStarted(p) => Says(proc[p].stdout, "started", Head(proc[p].stdout).id)
           /\ HandleTurnEnded(p) => Says(proc[p].stdout, "terminal", Head(proc[p].stdout).id)
<1>1. /\ proc[p].stdout # <<>> /\ Head(proc[p].stdout).kind # "response"
      /\ HandleTurnStarted(p) => Head(proc[p].stdout).kind = "started"
      /\ HandleTurnEnded(p) => Head(proc[p].stdout).kind = "terminal"
  BY DEF HandleTurnStarted, HandleTurnEnded, Reads
<1>2. proc[p].stdout \in Outputs /\ proc[p].inst \in Instances
  BY <1>1 DEF Types, ProcsTyped, ProcOK, Processes
<1>3. Head(proc[p].stdout) \in Said
  BY <1>1, <1>2, OutputsTyped
<1>4. 1 \in 1 .. Len(proc[p].stdout) /\ Head(proc[p].stdout) = proc[p].stdout[1]
  BY <1>1, <1>2, Shorter
<1>5. Says(proc[p].stdout, Head(proc[p].stdout).kind, Head(proc[p].stdout).id)
  BY <1>4 DEF Says, IsAbout
<1> QED
  BY <1>1, <1>2, <1>3, <1>5 DEF Said

LEMMA RequestsKnownMove ==
    ASSUME Types, Next, NEW i \in Instances
    PROVE  /\ \/ maps'[i].pending \in {maps[i].pending, None}
              \/ \E c \in Labelled : StartBegin(c) /\ current = i /\ maps'[i].pending = c
           /\ \A c \in Labelled : StartAnswered(c) /\ call[c].inst = i => maps'[i].pending # c
           /\ \A t \in Turns :
                 \/ maps'[i].byTurn[t] \in {maps[i].byTurn[t], None, t}
                 \/ maps'[i].byTurn[t] = maps[i].pending /\ \E p \in Procs : NewsOf(p, i, t)
<1> USE TurnAssumption
<1>1. /\ maps \in [Instances -> Maps] /\ maps[i] \in Maps /\ i # 0
      /\ current = 0 \/ current \in Instances
      /\ call \in [Goroutines -> Calls] /\ \A g \in Goroutines : call[g].turn \in Turns \cup {None}
      /\ Starters \subseteq Goroutines /\ Interrupters \subseteq Goroutines /\ Labelled \subseteq Starters
  BY CurrentIsThere DEF Types, MapsTyped, CallsTyped, Calls, Turns, Goroutines, Instances
<1> DEFINE Same(n) == n.pending = maps[i].pending /\ n.byTurn = maps[i].byTurn
           Hears(n) == n.pending \in {maps[i].pending, None} /\ \A t \in Turns :
                        n.byTurn[t] \in {maps[i].byTurn[t], None, t}
           Learnt(n) == n.pending \in {maps[i].pending, None} /\ \A t \in Turns :
                        \/ n.byTurn[t] \in {maps[i].byTurn[t], None, t}
                        \/ n.byTurn[t] = maps[i].pending /\ \E p \in Procs : NewsOf(p, i, t)
           Begun(n) == /\ n.byTurn = maps[i].byTurn
                       /\ \/ n.pending = maps[i].pending
                          \/ \E c \in Labelled : StartBegin(c) /\ current = i /\ n.pending = c
<1>2. ASSUME NEW m, maps' = InCurrent(m)
      PROVE  maps'[i] = maps[i] \/ (current = i /\ maps'[i] = m)
  BY <1>1, <1>2 DEF InCurrent
<1>3. ASSUME NEW j \in Instances \cup {0}, NEW m, maps' = [maps EXCEPT ![j] = m]
      PROVE  (i # j /\ maps'[i] = maps[i]) \/ (j = i /\ maps'[i] = m)
  BY <1>1, <1>3
<1>4. ASSUME NEW c \in Starters, StartBegin(c) PROVE Begun(maps'[i])
  <2>1. maps'[i] = maps[i] \/ (current = i /\ maps'[i] = Correlating(maps[i], c))
    BY <1>2, <1>4 DEF StartBegin
  <2> QED
    BY <1>1, <1>4, <2>1, BegunRequest
<1>5. ASSUME NEW c \in Starters, StartAnswered(c)
      PROVE  Hears(maps'[i]) /\ (call[c].inst = i /\ c \in Labelled => maps'[i].pending # c)
  <2> DEFINE j == call[c].inst
             n == StartCorrelated(c, i)
  <2>1. j \in Instances \cup {0}
    BY <1>1 DEF Calls
  <2>2. (i # j /\ maps'[i] = maps[i]) \/ (j = i /\ maps'[i] = n)
    BY <1>1, <1>3, <1>5, <2>1 DEF StartAnswered
  <2>3. n \in {Uncorrelated(maps[i], c), Correlated(maps[i], c, c), Correlated(maps[i], c, None)}
    BY DEF StartCorrelated
  <2>4. /\ n.pending \in {maps[i].pending, None} /\ (c \in Labelled => n.pending # c)
        /\ \A t \in Turns : n.byTurn[t] \in {maps[i].byTurn[t], t}
    BY <1>1, <2>3, SettledRequest
  <2> HIDE DEF n
  <2> QED
    BY <2>2, <2>4
<1>6. ASSUME NEW c \in Starters, RememberActiveTurn(c) PROVE Same(maps'[i])
  <2>1. PICK u \in Turns \cup {None} : maps' = InCurrent(Remembered(maps[current], u))
    BY <1>6 DEF RememberActiveTurn, Turns
  <2>2. maps'[i] = maps[i] \/ maps'[i] = Remembered(maps[i], u)
    BY <1>2, <2>1
  <2> QED
    BY <1>1, <2>2, UntouchedRequests
<1>7. ASSUME NEW g \in Interrupters, BeginInterrupt(g) \/ InterruptStep(g) PROVE Same(maps'[i])
  <2>1. PICK u \in Turns \cup {None} : u = call[g].turn
    BY <1>1
  <2>2. maps'[i] \in {maps[i], BeingInterrupted(maps[i]), Finished(maps[i], u), Restored(maps[i], u)}
    BY <1>2, <1>7, <2>1 DEF BeginInterrupt, InterruptStep, TimesOut, FinishInterrupt,
       RestoreInterruptedTurn, runtimeVars
  <2> QED
    BY <1>1, <2>2, UntouchedRequests
<1>8. ASSUME NEW p \in Procs, HandleTurnStarted(p) \/ HandleTurnEnded(p)
      PROVE  /\ proc[p].inst \in Instances /\ Head(proc[p].stdout).id \in Turns
             /\ HandleTurnStarted(p) => Says(proc[p].stdout, "started", Head(proc[p].stdout).id)
  BY <1>8, HeadIsNews
<1>9. ASSUME NEW p \in Procs, HandleTurnStarted(p) PROVE Learnt(maps'[i])
  <2>1. PICK t \in Turns, j \in Instances :
           /\ t = Head(proc[p].stdout).id /\ j = proc[p].inst /\ Says(proc[p].stdout, "started", t)
           /\ maps' = [maps EXCEPT ![j] = Started(Attached(maps[j], t), t)]
    BY <1>8, <1>9 DEF HandleTurnStarted
  <2>2. CASE j = i
    <3> DEFINE n == Started(Attached(maps[i], t), t)
    <3>1. maps'[i] = n /\ NewsOf(p, i, t)
      BY <1>1, <1>9, <2>1, <2>2 DEF NewsOf
    <3>2. /\ n.pending \in {maps[i].pending, None}
          /\ \A v \in Turns : n.byTurn[v] = maps[i].byTurn[v] \/ (v = t /\ n.byTurn[v] = maps[i].pending)
      BY <1>1, StartedRequests
    <3> HIDE DEF n
    <3> QED
      BY <3>1, <3>2
  <2>3. CASE j # i
    BY <1>1, <2>1, <2>3
  <2> QED
    BY <2>2, <2>3
<1>10. ASSUME NEW p \in Procs, HandleTurnEnded(p) PROVE Hears(maps'[i])
  <2>1. PICK t \in Turns, j \in Instances : maps' = [maps EXCEPT ![j] = Ended(maps[j], t)]
    BY <1>8, <1>10 DEF HandleTurnEnded
  <2>2. maps'[i] = maps[i] \/ maps'[i] = Ended(maps[i], t)
    BY <1>3, <2>1
  <2> QED
    BY <1>1, <2>2, EndedRequests
<1>11. ASSUME NEW p \in Procs, HandleClosed(p) PROVE Hears(maps'[i])
  <2>1. maps' = [maps EXCEPT ![proc[p].inst] = NoTurns]
    BY <1>11 DEF HandleClosed
  <2>2. maps'[i] = maps[i] \/ maps'[i] = NoTurns
    BY <1>1, <2>1
  <2> QED
    BY <2>2 DEF NoTurns
<1>12. Same(maps'[i]) => Hears(maps'[i])
  OBVIOUS
<1>13. \A c \in Labelled : StartAnswered(c) /\ call[c].inst = i => maps'[i].pending # c
  BY <1>1, <1>5
<1>14. Begun(maps'[i]) \/ Learnt(maps'[i])
  BY <1>4, <1>5, <1>6, <1>7, <1>9, <1>10, <1>11, <1>12
  DEF Next, CallStep, StartStep, ReaderStep, ServerStep, SeesClosed, ContextEnds,
      Send, RecycleRemove, RecycleConfigure, HandleResponse, ServeRequest, TurnStarts,
      TurnEnds, Exits, runtimeVars
<1> QED
  BY <1>13, <1>14

LEMMA PendingStep ==
    ASSUME Types, PendingIsWaiting, Next
    PROVE  PendingIsWaiting'
<1> USE TurnAssumption
<1> SUFFICES ASSUME NEW i \in Instances, NEW c, c = maps'[i].pending, c # None
             PROVE  c \in Labelled /\ Waiting(c)' /\ call'[c].inst = i
  BY DEF PendingIsWaiting
<1>1. CASE \E d \in Labelled : StartBegin(d) /\ current = i /\ c = d
  <2>1. call' = [call EXCEPT ![c].pc = "call", ![c].inst = i] /\ c \in Goroutines
    BY <1>1 DEF StartBegin, Goroutines
  <2>2. call'[c].pc = "call" /\ call'[c].inst = i
    BY <2>1 DEF Types, CallsTyped, Calls
  <2> QED
    BY <1>1, <2>2 DEF Waiting
<1>2. CASE c = maps[i].pending
  <2>1. c \in Labelled /\ Waiting(c) /\ call[c].inst = i
    BY <1>2 DEF PendingIsWaiting
  <2>2. ~StartAnswered(c)
    BY <2>1, RequestsKnownMove
  <2> QED
    BY <2>1, <2>2, WaitingMoves
<1> QED
  BY <1>1, <1>2, RequestsKnownMove

\* A turn whose news arrives shares the instance with no other start, or with one
\* that overlaps it.
LEMMA PendingIsMixed ==
    ASSUME Types, PendingIsWaiting, OverlapsAreMixed, NEW i \in Instances, NEW t \in Turns,
           NEW p \in Procs, Says(proc[p].stdout, "started", t), maps[i].pending \notin {t, None}
    PROVE  {t, maps[i].pending} \subseteq mixed
<1>1. PICK c \in Turns : c = maps[i].pending /\ Waiting(c)
  BY TurnAssumption DEF PendingIsWaiting, Turns
<1>2. Outstanding(c) /\ Outstanding(t)
  BY <1>1, OutstandingIs DEF Beginning
<1> QED
  BY <1>1, <1>2 DEF OverlapsAreMixed

LEMMA LabelsStep ==
    ASSUME Types, PendingIsWaiting, OverlapsAreMixed, OthersLabelIsMixed, LabelIsRight, Next
    PROVE  OthersLabelIsMixed' /\ LabelIsRight'
<1> USE TurnAssumption
<1>1. ASSUME NEW i \in Instances, NEW t \in Turns, maps'[i].byTurn[t] \notin {t, None}
      PROVE  {t, maps'[i].byTurn[t]} \subseteq mixed'
  <2>1. CASE maps'[i].byTurn[t] = maps[i].byTurn[t]
    BY <1>1, <2>1, MixedMoves DEF OthersLabelIsMixed
  <2>2. CASE maps'[i].byTurn[t] = maps[i].pending /\ \E p \in Procs : NewsOf(p, i, t)
    BY <1>1, <2>2, PendingIsMixed, MixedMoves DEF NewsOf
  <2> QED
    BY <1>1, <2>1, <2>2, RequestsKnownMove
<1>2. ASSUME NEW t \in Turns, label'[t] \notin {t, None}
      PROVE  {t, label'[t]} \subseteq mixed'
  <2>1. CASE label'[t] = label[t]
    BY <1>2, <2>1, MixedMoves DEF LabelIsRight
  <2>2. CASE label'[t] # label[t]
    <3>1. PICK p \in Procs : HandleTurnStarted(p)
      BY <2>2 DEF Next, CallStep, StartStep, InterruptStep, ReaderStep, ServerStep, SeesClosed,
         ContextEnds, Send, StartBegin, StartAnswered, RememberActiveTurn, BeginInterrupt, TimesOut,
         FinishInterrupt, RestoreInterruptedTurn, RecycleRemove, RecycleConfigure, HandleResponse,
         HandleTurnEnded, HandleClosed, ServeRequest, TurnStarts, TurnEnds, Exits
    <3>2. PICK i \in Instances : i = proc[p].inst
      BY <3>1, HeadIsNews
    <3>3. Head(proc[p].stdout).id = t /\ label'[t] = LabelFor(maps[i], t)
      BY <2>2, <3>1, <3>2 DEF HandleTurnStarted, Types, Told
    <3>4. Says(proc[p].stdout, "started", t)
      BY <3>1, <3>3, HeadIsNews
    <3>5. {t, LabelFor(maps[i], t)} \subseteq mixed
      BY <1>2, <3>3, <3>4, PendingIsMixed DEF LabelFor, OthersLabelIsMixed
    <3> QED
      BY <3>3, <3>5, MixedMoves
  <2> QED
    BY <2>1, <2>2
<1> QED
  BY <1>1, <1>2 DEF OthersLabelIsMixed, LabelIsRight
-----------------------------------------------------------------------------
LabelInv == StartersNameNoTurn /\ OverlapsAreMixed /\ PendingIsWaiting /\ OthersLabelIsMixed /\ LabelIsRight

TellInv == Types /\ Unstarted /\ RunningTurnIsTracked /\ LabelInv

LEMMA TypesInit ==
    ASSUME Init
    PROVE  Types /\ Unstarted
<1> USE TurnAssumption DEF Init, Turns, Goroutines
<1>1. MapsTyped
  BY DEF MapsTyped, MapsOK, Maps, NoTurns
<1>2. CallsTyped
  BY DEF CallsTyped, CallOK, Calls, Places, IdleCall
<1>3. ProcsTyped
  <2>1. <<>> \in Outputs
    BY DEF Outputs
  <2> QED
    BY <2>1 DEF ProcsTyped, ProcOK, Processes, NotStarted
<1>4. Numbers
  BY DEF Numbers, Instances, Procs, NotStarted
<1>5. Told
  BY DEF Told
<1>6. Unstarted
  BY DEF Unstarted
<1> QED
  BY <1>1, <1>2, <1>3, <1>4, <1>5, <1>6 DEF Types

LEMMA TellInit ==
    ASSUME Init
    PROVE  TellInv
<1> USE TurnAssumption DEF Init, Turns, Goroutines
<1>1. Types /\ Unstarted
  BY TypesInit
<1>2. RunningTurnIsTracked
  BY DEF RunningTurnIsTracked
<1>3. StartersNameNoTurn
  BY DEF StartersNameNoTurn, IdleCall, NotStarted
<1>4. \A t \in Turns : ~Waiting(t) /\ ~Beginning(t)
  <2>1. Len(<<>>) = 0 /\ 1 .. 0 = {}
    BY EmptySeq
  <2> QED
    BY <2>1 DEF Waiting, Beginning, Says, IdleCall, NotStarted
<1>5. OverlapsAreMixed
  BY <1>4, OutstandingIs DEF OverlapsAreMixed
<1>6. PendingIsWaiting /\ OthersLabelIsMixed /\ LabelIsRight
  BY DEF PendingIsWaiting, OthersLabelIsMixed, LabelIsRight, NoTurns
<1> QED
  BY <1>1, <1>2, <1>3, <1>5, <1>6 DEF TellInv, LabelInv

LEMMA TellStep ==
    ASSUME TellInv, [Next]_vars
    PROVE  TellInv'
<1>1. CASE Next
  BY <1>1, TypesStep, UnstartedStep, TrackedStep, NamesStep, OverlapsStep, PendingStep, LabelsStep
  DEF TellInv, LabelInv
<1>2. CASE UNCHANGED vars
  <2>1. Types' /\ Unstarted'
    BY <1>2 DEF vars, runtimeVars, history, TellInv, Types, MapsTyped, MapsOK, CallsTyped, CallOK,
       ProcsTyped, ProcOK, Numbers, Told, Unstarted
  <2>2. RunningTurnIsTracked' /\ StartersNameNoTurn' /\ PendingIsWaiting' /\ OthersLabelIsMixed' /\ LabelIsRight'
    BY <1>2 DEF vars, runtimeVars, history, TellInv, LabelInv, RunningTurnIsTracked, EndOnTheWay,
       StartersNameNoTurn, PendingIsWaiting, Waiting, OthersLabelIsMixed, LabelIsRight
  <2>3. OverlapsAreMixed'
    BY <1>2 DEF vars, runtimeVars, history, TellInv, LabelInv, OverlapsAreMixed, Outstanding
  <2> QED
    BY <2>1, <2>2, <2>3 DEF TellInv, LabelInv
<1> QED
  BY <1>1, <1>2

LEMMA TellAlways == Spec => []TellInv
  BY TellInit, TellStep, PTL DEF Spec

(***************************************************************************)
(* The instances' maps never say two states of one turn and the instance   *)
(* of the workspace is one that was made (instanceState, Manager).         *)
(***************************************************************************)
THEOREM TurnsTyped == Spec => []TypeOK
<1>1. ASSUME Types PROVE TypeOK
  <2>1. /\ current \in 0 .. made /\ made \in Instances
        /\ client \in [Instances -> 0 .. procs] /\ procs \in 0 .. MaxProcs
    BY <1>1 DEF Types, Numbers
  <2>2. maps \in [Instances -> Maps] /\ \A i \in Instances : maps[i].active = None \/ maps[i].interrupting = None
    BY <1>1 DEF Types, MapsTyped, MapsOK
  <2>3. ASSUME NEW p \in Procs
        PROVE  /\ proc[p].inst \in 0 .. made
               /\ proc[p].life \in {"none", "alive", "closing", "closed"}
               /\ proc[p].stdin \subseteq [by : Goroutines, turn : Turns \cup {None}]
               /\ proc[p].stdout \in Seq(Messages)
               /\ proc[p].turn \in Turns \cup {None} /\ proc[p].announced \in BOOLEAN
    <3>1. proc[p] \in Processes /\ proc[p].inst \in 0 .. made
      BY <1>1 DEF Types, ProcsTyped, Numbers
    <3>2. proc[p].stdout \in Seq(Said)
      BY <3>1 DEF Processes, Outputs
    <3>3. Seq(Said) \subseteq Seq(Messages)
      BY DEF Said
    <3> QED
      BY <3>1, <3>2, <3>3 DEF Processes, Requests
  <2>4. \A g \in Goroutines :
          /\ call[g].pc \in {"idle", "call", "sent", "answered",
                             "remember", "recycle", "recycling", "done"}
          /\ call[g].result \in {"ok", "refused", "error", "empty", "timeout"}
    BY <1>1 DEF Types, CallsTyped, Calls, Places
  <2>5. /\ shown \in [Turns -> {"none", "running", "ended"}]
        /\ label \in [Turns -> Starters \cup {None}]
        /\ home \in [Turns -> 0 .. MaxProcs]
        /\ over \cup forgotten \cup dropped \cup mixed \subseteq Turns
    <3>1. Procs \cup {0} = 0 .. MaxProcs
      BY TurnAssumption DEF Procs
    <3> QED
      BY <1>1, <3>1 DEF Types, Told
  <2> QED
    BY <2>1, <2>2, <2>3, <2>4, <2>5 DEF TypeOK
<1>2. TellInv => TypeOK
  BY <1>1 DEF TellInv
<1> QED
  BY <1>2, TellAlways, PTL

(***************************************************************************)
(* A turn that is shown as running is known to the instance of a process,  *)
(* which will report its end, or that news is on the way (trackTurn,       *)
(* publishSyntheticTerminalEventsOnUnexpectedClose).                       *)
(***************************************************************************)
THEOREM RunningIsTracked == Spec => []RunningTurnIsTracked
<1>1. TellInv => RunningTurnIsTracked
  BY DEF TellInv
<1> QED
  BY <1>1, TellAlways, PTL

(***************************************************************************)
(* A turn/started carries the clientTurnRequestId of its own request, or   *)
(* of one that overlapped it (attachClientTurnRequestID).                  *)
(***************************************************************************)
THEOREM LabelsAreRight == Spec => []LabelIsRight
<1>1. TellInv => LabelIsRight
  BY DEF TellInv, LabelInv
<1> QED
  BY <1>1, TellAlways, PTL
-----------------------------------------------------------------------------
(***************************************************************************)
(* A turn that is over does not come back (EndedTurnStaysOut).  The        *)
(* argument follows a turn from its turn/start, which is served once, by   *)
(* one process (AskedOnce, TurnsAtHome), whose instance is the workspace's *)
(* until the Start is done (HomeIsCurrent), to its end, which the instance *)
(* marks (OverIsMarked).                                                   *)
(***************************************************************************)

\* The workspace's instance has the one process that lives; a closed one is gone
\* from its instance.
ProcsPlaced ==
    /\ \A p \in Procs :
          /\ proc[p].life \in {"alive", "closing"} => client[proc[p].inst] = p
          /\ proc[p].life = "alive" => proc[p].inst = current
    /\ \A t \in Turns : home[t] \in 0 .. procs

TurnsAtHome ==
    \A p \in Procs, t \in Turns :
        /\ \/ proc[p].turn = t
           \/ Says(proc[p].stdout, "started", t) \/ Says(proc[p].stdout, "terminal", t)
           => home[t] = p
        /\ InOrder(proc[p].stdout, t)
        /\ Says(proc[p].stdout, "terminal", t) => proc[p].turn # t

(***************************************************************************)
(* A turn/start is on its way once at a time, and not again once it has    *)
(* been taken on.                                                          *)
(***************************************************************************)
MayAsk(t) ==
    \/ call[t].pc \in {"idle", "call"}
    \/ call[t].pc = "answered" /\ call[t].result = "refused"

NotAsked(t) ==
    \A p \in Procs : StartRequest(t) \notin proc[p].stdin /\ ~Says(proc[p].stdout, "response", t)

AsksOnce(t) ==
    \A p \in Procs : StartRequest(t) \in proc[p].stdin =>
        /\ home[t] = 0
        /\ \A q \in Procs : ~Says(proc[q].stdout, "response", t)
        /\ \A q \in Procs : StartRequest(t) \in proc[q].stdin => p = q

OneAnswer(t) ==
    \A p \in Procs :
        /\ OnlyAnswer(proc[p].stdout, t)
        /\ Says(proc[p].stdout, "response", t) =>
              \A q \in Procs : Says(proc[q].stdout, "response", t) => p = q
        /\ Answers(proc[p].stdout, t, "refused") => home[t] = 0
        /\ Answers(proc[p].stdout, t, "ok") => home[t] # 0

TakenOn(t) == call[t].pc \in {"answered", "remember"} /\ call[t].result = "ok" => home[t] # 0

AskedOnce ==
    \A t \in Turns :
        /\ MayAsk(t) => home[t] = 0 /\ NotAsked(t)
        /\ TakenOn(t) /\ AsksOnce(t) /\ OneAnswer(t)

(***************************************************************************)
(* While the Start of a turn is under way, its process is the workspace's; *)
(* a turn that is over by then has the instance's mark.                    *)
(***************************************************************************)
Undone(t) == t \notin forgotten /\ call[t].pc # "done"

HomeIsCurrent ==
    \A t \in Turns : home[t] # 0 /\ Undone(t) =>
        current # 0 /\ client[current] = home[t] /\ proc[home[t]].inst = current

TrackedAtHome ==
    \A i \in Instances, t \in Turns : Tracks(maps[i], t) /\ t \notin forgotten =>
        home[t] # 0 /\ proc[home[t]].inst = i

OverIsMarked ==
    \A t \in over :
        /\ home[t] # 0
        /\ t \notin forgotten => ~Beginning(t)
        /\ Undone(t) => current # 0 /\ maps[current].last = t

Base == Types /\ Unstarted /\ StartersNameNoTurn

OutInv ==
    /\ Base
    /\ ProcsPlaced /\ TurnsAtHome /\ AskedOnce
    /\ HomeIsCurrent /\ TrackedAtHome /\ OverIsMarked /\ EndedTurnStaysOut
-----------------------------------------------------------------------------
(* What becomes of a turn/start on a process: nothing new, or it is answered. *)
Quiet(p, t) ==
    /\ Says(proc'[p].stdout, "response", t) => Says(proc[p].stdout, "response", t)
    /\ \A r : Answers(proc'[p].stdout, t, r) => Answers(proc[p].stdout, t, r)
    /\ OnlyAnswer(proc[p].stdout, t) => OnlyAnswer(proc'[p].stdout, t)

AnswersStart(p, t, result) ==
    /\ proc[p].life = "alive" /\ ServeRequest(p)
    /\ StartRequest(t) \in proc[p].stdin /\ StartRequest(t) \notin proc'[p].stdin
    /\ \A r : Answers(proc'[p].stdout, t, r) <=> Answers(proc[p].stdout, t, r) \/ r = result
    /\ ~Says(proc[p].stdout, "response", t) => OnlyAnswer(proc'[p].stdout, t)
    /\ \/ result = "ok" /\ home' = [home EXCEPT ![t] = p] /\ proc'[p].turn = t
       \/ result = "refused" /\ UNCHANGED home

LEMMA AnswersSay ==
    ASSUME NEW q, NEW g, NEW r, Answers(q, g, r)
    PROVE  Says(q, "response", g)
  BY DEF Answers, Says

LEMMA StartAnswers ==
    ASSUME Base, NEW p \in Procs, NEW t \in Starters, NEW result \in {"ok", "refused"},
           ServeRequest(p), proc[p].life = "alive", StartRequest(t) \in proc[p].stdin,
           proc'[p].stdin = proc[p].stdin \ {StartRequest(t)},
           proc'[p].stdout = Append(proc[p].stdout, Message("response", t, result)),
           \/ result = "ok" /\ home' = [home EXCEPT ![t] = p] /\ proc'[p].turn = t
           \/ result = "refused" /\ UNCHANGED home
    PROVE  AnswersStart(p, t, result)
<1>1. PICK m \in Said : m = Message("response", t, result)
  BY DEF Message, Said, Messages, Goroutines
<1>2. m.kind = "response" /\ m.id = t /\ m.result = result /\ IsAbout(m, "response", t)
  BY <1>1 DEF Message, IsAbout
<1>3. PICK q, a : q \in Outputs /\ q = proc[p].stdout /\ a = proc'[p].stdout /\ a = Append(q, m)
  BY <1>1 DEF Base, Types, ProcsTyped, Processes
<1>4. /\ \A s : Answers(a, t, s) <=> Answers(q, t, s) \/ (IsAbout(m, "response", t) /\ m.result = s)
      /\ OnlyAnswer(q, t) /\ (IsAbout(m, "response", t) => ~Says(q, "response", t)) => OnlyAnswer(a, t)
  <2>1. \A g, s : Answers(a, g, s) <=> Answers(q, g, s) \/ (IsAbout(m, "response", g) /\ m.result = s)
    BY <1>3, SaysMore
  <2>2. \A g : OnlyAnswer(q, g) /\ (IsAbout(m, "response", g) => ~Says(q, "response", g)) => OnlyAnswer(a, g)
    BY <1>3, SaysMore
  <2> QED
    BY <2>1, <2>2
<1>5. ~Says(q, "response", t) => OnlyAnswer(q, t)
  BY DEF Says, OnlyAnswer
<1>6. \A s : Answers(a, t, s) <=> Answers(q, t, s) \/ s = result
  BY <1>2, <1>4
<1>7. ~Says(q, "response", t) => OnlyAnswer(a, t)
  BY <1>4, <1>5
<1> QED
  BY <1>3, <1>6, <1>7 DEF AnswersStart

LEMMA AnswersMove ==
    ASSUME Base, Next, NEW p \in Procs, NEW t \in Starters
    PROVE  Quiet(p, t) \/ \E result \in {"ok", "refused"} : AnswersStart(p, t, result)
<1> USE DEF Base
<1>1. proc[p] \in Processes /\ proc[p].stdout \in Outputs
  BY DEF Types, ProcsTyped, Processes
<1>2. CASE proc'[p].stdout = proc[p].stdout
  BY <1>2 DEF Quiet
<1>3. CASE Begins(p)
  <2>1. proc'[p].stdout = <<>> /\ proc[p].stdout = <<>>
    BY <1>3 DEF Begins, NotStarted
  <2> QED
    BY <2>1 DEF Quiet
<1>4. CASE IsRead(p)
  <2>1. PICK q, a : q \in Outputs /\ q = proc[p].stdout /\ a = proc'[p].stdout
    BY <1>1
  <2>2. q # <<>> /\ a = Tail(q)
    BY <1>4, <2>1 DEF IsRead
  <2>3. /\ Says(a, "response", t) => Says(q, "response", t)
        /\ \A r : Answers(a, t, r) => Answers(q, t, r)
        /\ OnlyAnswer(q, t) => OnlyAnswer(a, t)
    BY <2>1, <2>2, SaysLess
  <2> QED
    BY <2>1, <2>3 DEF Quiet
<1>5. CASE Notifies(p)
  <2>1. PICK kind, m :
           kind \in {"started", "terminal"} /\ m = Message(kind, proc[p].turn, "ok") /\ proc'[p].stdout = Append(proc[p].stdout, m)
    BY <1>5 DEF Notifies
  <2>2. m \in Said /\ m.kind = kind
    BY <1>5, <2>1 DEF Notifies, Message, Said, Messages, Turns, Goroutines
  <2>3. PICK q, a : q \in Outputs /\ q = proc[p].stdout /\ a = proc'[p].stdout /\ a = Append(q, m)
    BY <1>1, <2>1
  <2>4. ~IsAbout(m, "response", t)
    BY <2>1, <2>2 DEF IsAbout
  <2>5. /\ Says(a, "response", t) => Says(q, "response", t)
        /\ \A r : Answers(a, t, r) => Answers(q, t, r)
        /\ OnlyAnswer(q, t) => OnlyAnswer(a, t)
    BY <2>2, <2>3, <2>4, SaysMore
  <2> QED
    BY <2>3, <2>5 DEF Quiet
<1>6. CASE Serves(p)
  <2>1. PICK r \in Requests, turn \in Turns \cup {None}, result \in {"ok", "refused"} :
           /\ ServeRequest(p) /\ proc[p].life = "alive" /\ r \in proc[p].stdin
           /\ proc'[p].stdin = proc[p].stdin \ {r} /\ proc'[p].turn = turn
           /\ proc'[p].stdout = Append(proc[p].stdout, Message("response", r.by, result))
           /\ \/ /\ r.by \in Starters /\ turn = r.by /\ result = "ok"
                 /\ home' = [home EXCEPT ![r.by] = p]
              \/ UNCHANGED home /\ (r.by \in Starters => result = "refused")
    BY <1>6 DEF Serves
  <2>2. PICK m \in Said :
           /\ m = Message("response", r.by, result)
           /\ m.kind = "response" /\ m.id = r.by /\ m.result = result
    BY <2>1 DEF Message, Said, Messages, Requests
  <2>3. PICK q, a : q \in Outputs /\ q = proc[p].stdout /\ a = proc'[p].stdout /\ a = Append(q, m)
    BY <1>1, <2>1, <2>2
  <2>4. /\ Says(a, "response", t) <=> Says(q, "response", t) \/ IsAbout(m, "response", t)
        /\ \A s : Answers(a, t, s) <=> Answers(q, t, s) \/ (IsAbout(m, "response", t) /\ m.result = s)
        /\ OnlyAnswer(q, t) /\ (IsAbout(m, "response", t) => ~Says(q, "response", t)) => OnlyAnswer(a, t)
    <3>1. \A g : Says(a, "response", g) <=> Says(q, "response", g) \/ IsAbout(m, "response", g)
      BY <2>3, SaysMore
    <3>2. \A g, s : Answers(a, g, s) <=> Answers(q, g, s) \/ (IsAbout(m, "response", g) /\ m.result = s)
      BY <2>3, SaysMore
    <3>3. \A g : OnlyAnswer(q, g) /\ (IsAbout(m, "response", g) => ~Says(q, "response", g)) => OnlyAnswer(a, g)
      BY <2>3, SaysMore
    <3> QED
      BY <3>1, <3>2, <3>3
  <2>5. CASE r.by # t
    <3>1. ~IsAbout(m, "response", t)
      BY <2>2, <2>5 DEF IsAbout
    <3> QED
      BY <2>3, <2>4, <3>1 DEF Quiet
  <2>6. CASE r.by = t
    <3>1. r = StartRequest(t)
      BY <2>1, <2>6 DEF StartersNameNoTurn, Requests, StartRequest
    <3>2. AnswersStart(p, t, result)
      BY <2>1, <2>6, <3>1, StartAnswers
    <3> QED
      BY <3>2
  <2> QED
    BY <2>5, <2>6
<1> QED
  BY <1>2, <1>3, <1>4, <1>5, <1>6, ProcessesMove
  DEF ProcessMoves, Receives, IsClosed, IsGone, SamePipes

LEMMA HomesMove ==
    ASSUME Base, Next, NEW t \in Turns
    PROVE  \/ home'[t] = home[t]
           \/ \E p \in Procs : AnswersStart(p, t, "ok") /\ home'[t] = p
<1> USE TurnAssumption DEF Base, Turns
<1>1. CASE UNCHANGED home
  BY <1>1
<1>2. CASE ~UNCHANGED home
  <2>1. PICK p \in Procs : ServeRequest(p)
    BY <1>2 DEF Next, CallStep, StartStep, InterruptStep, ReaderStep, ServerStep, Send, SeesClosed,
       ContextEnds, StartBegin, StartAnswered, RememberActiveTurn, BeginInterrupt, TimesOut,
       FinishInterrupt, RestoreInterruptedTurn, RecycleRemove, RecycleConfigure, HandleResponse,
       HandleTurnStarted, HandleTurnEnded, HandleClosed, TurnStarts, TurnEnds, Exits, history
  <2>2. PICK request \in proc[p].stdin :
           ServeStart(p, request) /\ home' = [home EXCEPT ![request.by] = p]
    BY <1>2, <2>1 DEF ServeRequest
  <2>3. home \in [Turns -> Procs \cup {0}]
    BY DEF Types, Told
  <2>4. CASE request.by # t
    BY <2>2, <2>3, <2>4
  <2>5. CASE request.by = t
    <3>1. home'[t] = p /\ request \in Requests
      BY <2>2, <2>3, <2>5 DEF Types, ProcsTyped, Processes
    <3>2. request = StartRequest(t)
      BY <2>2, <2>5, <3>1 DEF StartersNameNoTurn, Requests, StartRequest
    <3>3. Serve(p, StartRequest(t), t, "ok") /\ StartRequest(t) \in Requests /\ StartRequest(t).by = t
      BY <2>2, <3>1, <3>2, <2>5 DEF ServeStart
    <3>4. /\ proc'[p].stdin = proc[p].stdin \ {StartRequest(t)} /\ proc'[p].turn = t
          /\ proc'[p].stdout = Append(proc[p].stdout, Message("response", t, "ok"))
      BY <3>3, ServeDoes
    <3>5. proc[p].life = "alive"
      BY <2>1 DEF ServeRequest
    <3> QED
      BY <2>1, <2>2, <2>5, <3>1, <3>2, <3>4, <3>5, StartAnswers DEF Base
  <2> QED
    BY <2>4, <2>5
<1> QED
  BY <1>1, <1>2
-----------------------------------------------------------------------------
(* Which process is the workspace's.                                       *)
LEMMA BeginsDoes ==
    ASSUME Base, NEW p \in Procs, Begins(p)
    PROVE  /\ UNCHANGED <<current, maps, home, over, forgotten>> /\ current \in Instances
           /\ client[current] = 0 /\ client'[current] = p /\ p \in 0 .. procs'
           /\ proc[p] = NotStarted /\ proc'[p].inst = current /\ proc'[p].life = "alive"
           /\ proc'[p].stdout = <<>> /\ proc'[p].turn = None
<1>1. procs \in Nat /\ client \in [Instances -> 0 .. procs]
  BY DEF Base, Types, Numbers
<1>2. PICK g \in Goroutines :
         /\ Send(g) /\ current \in Instances /\ client[current] = 0 /\ p = procs + 1
         /\ proc[p] = NotStarted
         /\ proc'[p].inst = current /\ proc'[p].life = "alive"
         /\ proc'[p].stdout = <<>> /\ proc'[p].turn = None
  BY DEF Begins
<1>3. proc' # proc
  BY <1>2 DEF NotStarted
<1>4. client' = [client EXCEPT ![current] = p] /\ procs' = p
  <2>1. 0 \notin Procs
    BY TurnAssumption DEF Procs
  <2> QED
    BY <1>2, <1>3, <2>1, SendDoes DEF Base
<1>5. UNCHANGED <<current, maps, home, over, forgotten>>
  BY <1>2, SendDoes DEF Base, history
<1> QED
  BY <1>1, <1>2, <1>4, <1>5

LEMMA PlacesMove ==
    ASSUME Base, Next
    PROVE  /\ \A i \in Instances :
                 \/ client'[i] = client[i]
                 \/ client[i] = 0
                 \/ \E q \in Procs : HandleClosed(q) /\ proc[q].inst = i
           /\ current' = current \/ current = 0 \/ \E g \in Goroutines : RecycleRemove(g)
<1> USE DEF Base
<1>1. client \in [Instances -> 0 .. procs] /\ (current = 0 \/ current \in Instances)
  BY CurrentIsThere DEF Types, Numbers
<1>2. ASSUME NEW g \in Goroutines, Send(g), NEW i \in Instances
      PROVE  client'[i] = client[i] \/ client[i] = 0
  BY <1>1, <1>2, SendDoes
<1>3. ASSUME NEW q \in Procs, HandleClosed(q), NEW i \in Instances, proc[q].inst # i
      PROVE  client'[i] = client[i]
  BY <1>1, <1>3 DEF HandleClosed
<1>4. ASSUME NEW g \in Goroutines, Send(g) PROVE current' = current
  BY <1>4, SendDoes
<1>5. ASSUME NEW g \in Goroutines, RecycleConfigure(g)
      PROVE  UNCHANGED client /\ (current' = current \/ current = 0)
  BY <1>5 DEF RecycleConfigure
<1> QED
  BY <1>2, <1>3, <1>4, <1>5
  DEF Next, CallStep, StartStep, InterruptStep, ReaderStep, ServerStep, SeesClosed,
      ContextEnds, StartBegin, StartAnswered, RememberActiveTurn, BeginInterrupt, TimesOut,
      FinishInterrupt, RestoreInterruptedTurn, RecycleRemove, HandleResponse, HandleClosed,
      HandleTurnStarted, HandleTurnEnded, ServeRequest, TurnStarts, TurnEnds, Exits, runtimeVars

LEMMA LivesMove ==
    ASSUME Base, Next, NEW p \in Procs
    PROVE  \/ Begins(p)
           \/ /\ proc'[p].inst = proc[p].inst
              /\ proc'[p].life \in {"alive", "closing"} => proc[p].life \in {"alive", "closing"}
              /\ proc'[p].life = "alive" => proc[p].life = "alive"
              /\ HandleClosed(p) => proc'[p].life = "closed"
<1> USE DEF Base
<1>1. HandleClosed(p) => proc'[p].life = "closed"
  <2>1. proc[p] \in Processes /\ proc \in [Procs -> Processes]
    BY DEF Types, ProcsTyped
  <2> QED
    BY <2>1 DEF HandleClosed, Processes
<1>2. CASE Receives(p) \/ IsRead(p) \/ Serves(p) \/ Notifies(p)
  BY <1>1, <1>2 DEF Receives, IsRead, Serves, Notifies, SameHome
<1>3. CASE IsClosed(p) \/ IsGone(p)
  BY <1>1, <1>3 DEF IsClosed, IsGone
<1> QED
  BY <1>1, <1>2, <1>3, ProcessesMove DEF ProcessMoves

LEMMA PlacedStep ==
    ASSUME Base, ProcsPlaced, Next
    PROVE  ProcsPlaced'
<1> USE TurnAssumption DEF Base
<1>1. ASSUME NEW p \in Procs, proc'[p].life \in {"alive", "closing"} PROVE client'[proc'[p].inst] = p
  <2>1. CASE Begins(p)
    BY <2>1, BeginsDoes
  <2>2. CASE ~Begins(p)
    <3>1. /\ proc'[p].inst = proc[p].inst /\ proc[p].life \in {"alive", "closing"} /\ ~HandleClosed(p)
      BY <1>1, <2>2, LivesMove
    <3>2. client[proc[p].inst] = p /\ proc[p].inst \in Instances /\ p # 0
      BY <3>1 DEF ProcsPlaced, Types, ProcsTyped, ProcOK, Procs
    <3>3. ASSUME NEW q \in Procs, HandleClosed(q) PROVE proc[q].inst # proc[p].inst
      BY <3>1, <3>2, <3>3 DEF HandleClosed, ProcsPlaced
    <3> QED
      BY <3>1, <3>2, <3>3, PlacesMove
  <2> QED
    BY <2>1, <2>2
<1>2. ASSUME NEW p \in Procs, proc'[p].life = "alive" PROVE proc'[p].inst = current'
  <2>1. CASE Begins(p)
    BY <2>1, BeginsDoes
  <2>2. CASE ~Begins(p)
    <3>1. /\ proc'[p].inst = proc[p].inst /\ proc[p].life = "alive"
      BY <1>2, <2>2, LivesMove
    <3>2. client[current] = p /\ proc[p].inst = current /\ current \in Instances /\ current # 0 /\ p # 0
      BY <3>1 DEF ProcsPlaced, Types, ProcsTyped, ProcOK, Procs, Instances
    <3>3. ASSUME NEW g \in Goroutines, RecycleRemove(g) PROVE FALSE
      <4>1. Closes(p)
        BY <3>1, <3>2, <3>3 DEF RecycleRemove
      <4> QED
        BY <1>2, <4>1, ClosesDoes
    <3> QED
      BY <3>1, <3>2, <3>3, PlacesMove
  <2> QED
    BY <2>1, <2>2
<1>3. procs' = procs \/ procs' = procs + 1
  BY DEF Next, CallStep, StartStep, InterruptStep, ReaderStep, ServerStep, Send, SeesClosed,
      ContextEnds, StartBegin, StartAnswered, RememberActiveTurn, BeginInterrupt, TimesOut,
      FinishInterrupt, RestoreInterruptedTurn, RecycleRemove, RecycleConfigure, HandleResponse,
      HandleTurnStarted, HandleTurnEnded, HandleClosed, ServeRequest, TurnStarts, TurnEnds, Exits
<1> procs \in Nat
  BY DEF Types, Numbers
<1>4. ASSUME NEW t \in Turns PROVE home'[t] \in 0 .. procs'
  <2>1. CASE home'[t] = home[t]
    BY <1>3, <2>1 DEF ProcsPlaced
  <2>2. ASSUME NEW p \in Procs, AnswersStart(p, t, "ok"), home'[t] = p PROVE home'[t] \in 0 .. procs'
    <3>1. ~(p > procs) /\ p \in Nat
      BY <2>2 DEF AnswersStart, Unstarted, NotStarted, Procs
    <3> QED
      BY <1>3, <2>2, <3>1
  <2> QED
    BY <2>1, <2>2, HomesMove
<1> QED
  BY <1>1, <1>2, <1>4 DEF ProcsPlaced
-----------------------------------------------------------------------------
(* A turn is spoken of by the process that took it on, and in order.       *)
LEMMA OrderMoves ==
    ASSUME Base, TurnsAtHome, Next, NEW p \in Procs, NEW t \in Turns
    PROVE  InOrder(proc'[p].stdout, t)
<1> USE DEF Base
<1>1. proc[p].stdout \in Outputs /\ InOrder(proc[p].stdout, t)
  BY DEF Types, ProcsTyped, Processes, TurnsAtHome
<1>2. CASE proc'[p].stdout = proc[p].stdout
  BY <1>1, <1>2
<1>3. CASE Begins(p)
  <2>1. proc'[p].stdout = <<>> /\ Len(<<>>) = 0 /\ 1 .. 0 = {}
    BY <1>3, BeginsDoes
  <2> QED
    BY <2>1 DEF InOrder
<1>4. CASE IsRead(p)
  <2>1. PICK q, a : q \in Outputs /\ q = proc[p].stdout /\ a = proc'[p].stdout
    BY <1>1
  <2>2. q # <<>> /\ a = Tail(q)
    BY <1>4, <2>1 DEF IsRead
  <2>3. \A u : InOrder(q, u) => InOrder(a, u)
    BY <2>1, <2>2, SaysLess
  <2> QED
    BY <1>1, <2>1, <2>3
<1>5. CASE Serves(p) \/ Notifies(p)
  <2>1. PICK m \in Said :
           /\ proc'[p].stdout = Append(proc[p].stdout, m)
           /\ IsAbout(m, "started", t) => proc[p].turn = t
    <3>1. CASE Serves(p)
      <4>1. PICK m \in Said : proc'[p].stdout = Append(proc[p].stdout, m) /\ m.kind = "response"
        BY <3>1 DEF Serves, Message, Said, Messages, Requests
      <4> QED
        BY <4>1 DEF IsAbout
    <3>2. CASE Notifies(p)
      <4>1. PICK m \in Said : proc'[p].stdout = Append(proc[p].stdout, m) /\ m.id = proc[p].turn
        BY <3>2 DEF Notifies, Message, Said, Messages, Turns, Goroutines
      <4> QED
        BY <4>1 DEF IsAbout
    <3> QED
      BY <1>5, <3>1, <3>2
  <2>2. IsAbout(m, "started", t) => ~Says(proc[p].stdout, "terminal", t)
    BY <2>1 DEF TurnsAtHome
  <2>3. PICK q, a : q \in Outputs /\ q = proc[p].stdout /\ a = proc'[p].stdout /\ a = Append(q, m)
    BY <1>1, <2>1
  <2>4. \A u : InOrder(q, u) /\ (IsAbout(m, "started", u) => ~Says(q, "terminal", u)) => InOrder(a, u)
    BY <2>3, SaysMore
  <2> QED
    BY <1>1, <2>2, <2>3, <2>4
<1> QED
  BY <1>2, <1>3, <1>4, <1>5, ProcessesMove
  DEF ProcessMoves, Receives, IsClosed, IsGone, SamePipes

\* A turn is taken on by serving its request.
LEMMA TakesOn ==
    ASSUME Base, Next, NEW p \in Procs, NEW t \in Turns, proc'[p].turn = t, proc[p].turn # t
    PROVE  StartRequest(t) \in proc[p].stdin /\ home'[t] = p
<1> USE TurnAssumption DEF Base, Turns
<1>1. Serves(p)
  BY TurnsMove DEF SameTurn
<1>2. PICK r \in Requests : /\ r \in proc[p].stdin /\ r.by = t /\ r.by \in Starters
                            /\ home' = [home EXCEPT ![r.by] = p]
  BY <1>1 DEF Serves
<1>3. r = StartRequest(t)
  BY <1>2 DEF StartersNameNoTurn, Requests, StartRequest
<1> QED
  BY <1>2, <1>3 DEF Types, Told

LEMMA HomeStays ==
    ASSUME Base, AskedOnce, Next, NEW t \in Turns, home[t] # 0
    PROVE  home'[t] = home[t] /\ \A p \in Procs : StartRequest(t) \notin proc[p].stdin
<1>1. \A p \in Procs : StartRequest(t) \notin proc[p].stdin
  BY DEF AskedOnce, AsksOnce
<1> QED
  BY <1>1, HomesMove DEF AnswersStart

LEMMA AtHomeStep ==
    ASSUME Base, TurnsAtHome, AskedOnce, Next
    PROVE  TurnsAtHome'
<1> USE TurnAssumption DEF Base
<1> SUFFICES ASSUME NEW p \in Procs, NEW t \in Turns
             PROVE  /\ \/ proc'[p].turn = t
                       \/ Says(proc'[p].stdout, "started", t) \/ Says(proc'[p].stdout, "terminal", t)
                       => home'[t] = p
                    /\ InOrder(proc'[p].stdout, t)
                    /\ Says(proc'[p].stdout, "terminal", t) => proc'[p].turn # t
  BY DEF TurnsAtHome
<1>1. p # 0 /\ t # None
  BY DEF Procs, Turns
<1>2. ASSUME home[t] = p PROVE home'[t] = p
  BY <1>1, <1>2, HomeStays
<1>3. proc[p].turn = t => home[t] = p
  BY DEF TurnsAtHome
<1>4. Says(proc'[p].stdout, "started", t) \/ Says(proc'[p].stdout, "terminal", t) => home[t] = p
  BY NewsMoves DEF TurnsAtHome
<1>5. proc'[p].turn = t => home'[t] = p
  BY <1>2, <1>3, TakesOn
<1>6. ASSUME Says(proc'[p].stdout, "terminal", t), proc'[p].turn = t PROVE FALSE
  <2>1. home[t] = p
    BY <1>4, <1>6
  <2>2. proc[p].turn = t
    BY <1>1, <1>6, <2>1, TakesOn, HomeStays
  <2> QED
    BY <1>1, <1>6, <2>2, NewsMoves DEF TurnsAtHome
<1> QED
  BY <1>2, <1>4, <1>5, <1>6, OrderMoves
-----------------------------------------------------------------------------
(* A turn/start is served once.                                            *)
LEMMA Sends ==
    ASSUME Base, Next, NEW p \in Procs, NEW t \in Turns,
           StartRequest(t) \in proc'[p].stdin, StartRequest(t) \notin proc[p].stdin
    PROVE  /\ Send(t) /\ call[t].pc = "call"
           /\ p = IF client[current] = 0 THEN procs + 1 ELSE client[current]
<1>1. PICK g \in Goroutines :
         /\ Send(g) /\ call[g].pc = "call" /\ StartRequest(t) = Request(g)
         /\ p = IF client[current] = 0 THEN procs + 1 ELSE client[current]
  BY RequestsMove DEF Base
<1>2. StartRequest(t).by = t /\ Request(g).by = g
  BY DEF StartRequest, Request
<1> QED
  BY <1>1, <1>2

\* A response that is read was the answer, and there is no other.
LEMMA AnswerIsRead ==
    ASSUME Base, AskedOnce, NEW p \in Procs, NEW t \in Turns,
           HandleResponse(p), Head(proc[p].stdout).id = t
    PROVE  /\ Answers(proc[p].stdout, t, Head(proc[p].stdout).result)
           /\ Says(proc[p].stdout, "response", t) /\ ~Says(proc'[p].stdout, "response", t)
           /\ home' = home
<1>1. PICK q, m, a : q \in Outputs /\ q = proc[p].stdout /\ m = Head(q) /\ a = Tail(q) /\ q # <<>>
  BY DEF HandleResponse, Reads, Base, Types, ProcsTyped, Processes
<1>2. IsAbout(m, "response", t) /\ home' = home
  BY <1>1 DEF HandleResponse, Reads, IsAbout, history
<1>3. proc'[p].stdout = a
  BY <1>1, ReadDoes DEF HandleResponse, Base
<1>4. \A g, r : Answers(q, g, r) <=> Answers(a, g, r) \/ (IsAbout(m, "response", g) /\ m.result = r)
  BY <1>1, SaysLess
<1>5. \A g : OnlyAnswer(q, g) => OnlyAnswer(a, g) /\ (IsAbout(m, "response", g) => ~Says(a, "response", g))
  BY <1>1, SaysLess
<1>6. OnlyAnswer(q, t)
  BY <1>1 DEF AskedOnce, OneAnswer
<1>7. Answers(q, t, m.result) /\ ~Says(a, "response", t)
  BY <1>2, <1>4, <1>5, <1>6
<1> QED
  BY <1>1, <1>2, <1>3, <1>7, AnswersSay

LEMMA AsksOnceStep ==
    ASSUME Base, AskedOnce, Next, NEW t \in Turns
    PROVE  AsksOnce(t)'
<1> USE TurnAssumption DEF Turns
<1> SUFFICES ASSUME NEW p \in Procs, StartRequest(t) \in proc'[p].stdin
             PROVE  /\ home'[t] = 0
                    /\ \A q \in Procs : ~Says(proc'[q].stdout, "response", t)
                    /\ \A q \in Procs : StartRequest(t) \in proc'[q].stdin => p = q
  BY DEF AsksOnce
<1>1. CASE StartRequest(t) \in proc[p].stdin
  <2>1. /\ home[t] = 0 /\ \A q \in Procs : ~Says(proc[q].stdout, "response", t)
        /\ \A q \in Procs : StartRequest(t) \in proc[q].stdin => p = q
        /\ call[t].pc # "call"
    BY <1>1 DEF AskedOnce, AsksOnce, MayAsk, NotAsked
  <2>2. ASSUME NEW q \in Procs, NEW result, AnswersStart(q, t, result) PROVE FALSE
    BY <2>1, <2>2 DEF AnswersStart
  <2> QED
    BY <2>1, <2>2, HomesMove, AnswersMove, Sends DEF Quiet
<1>2. CASE StartRequest(t) \notin proc[p].stdin
  <2>1. /\ call[t].pc = "call"
        /\ p = IF client[current] = 0 THEN procs + 1 ELSE client[current]
    BY <1>2, Sends
  <2>2. home[t] = 0 /\ NotAsked(t)
    BY <2>1 DEF AskedOnce, MayAsk
  <2>3. ASSUME NEW q \in Procs, NEW result, AnswersStart(q, t, result) PROVE FALSE
    BY <2>2, <2>3 DEF AnswersStart, NotAsked
  <2> QED
    BY <2>1, <2>2, <2>3, HomesMove, AnswersMove, Sends DEF Quiet, NotAsked
<1> QED
  BY <1>1, <1>2

LEMMA OneAnswerStep ==
    ASSUME Base, AskedOnce, Next, NEW t \in Turns
    PROVE  OneAnswer(t)'
<1> USE TurnAssumption DEF Turns
<1>1. AsksOnce(t) /\ OneAnswer(t)
  BY DEF AskedOnce
<1>2. ASSUME NEW p \in Procs, NEW result, AnswersStart(p, t, result)
      PROVE  /\ \A q \in Procs : ~Says(proc[q].stdout, "response", t)
             /\ \A q \in Procs : StartRequest(t) \in proc[q].stdin => p = q
             /\ home[t] = 0
  BY <1>1, <1>2 DEF AnswersStart, AsksOnce
<1> SUFFICES ASSUME NEW p \in Procs
             PROVE  /\ OnlyAnswer(proc'[p].stdout, t)
                    /\ Says(proc'[p].stdout, "response", t) =>
                          \A q \in Procs : Says(proc'[q].stdout, "response", t) => p = q
                    /\ Answers(proc'[p].stdout, t, "refused") => home'[t] = 0
                    /\ Answers(proc'[p].stdout, t, "ok") => home'[t] # 0
  BY DEF OneAnswer
<1>3. OnlyAnswer(proc'[p].stdout, t)
  BY <1>1, <1>2, AnswersMove DEF OneAnswer, Quiet, AnswersStart
<1>4. ASSUME NEW q \in Procs, Says(proc'[p].stdout, "response", t), Says(proc'[q].stdout, "response", t)
      PROVE  p = q
  <2>1. CASE \E result : AnswersStart(p, t, result)
    BY <1>2, <1>4, <2>1, AnswersMove DEF Quiet, AnswersStart
  <2>2. CASE \E result : AnswersStart(q, t, result)
    BY <1>2, <1>4, <2>2, AnswersMove DEF Quiet, AnswersStart
  <2>3. CASE Quiet(p, t) /\ Quiet(q, t)
    BY <1>1, <1>4, <2>3 DEF OneAnswer, Quiet
  <2> QED
    BY <2>1, <2>2, <2>3, AnswersMove
<1>5. ASSUME Answers(proc'[p].stdout, t, "refused") PROVE home'[t] = 0
  <2>1. CASE Quiet(p, t)
    <3>1. Answers(proc[p].stdout, t, "refused")
      BY <1>5, <2>1 DEF Quiet
    <3>2. home[t] = 0 /\ Says(proc[p].stdout, "response", t)
      BY <1>1, <3>1, AnswersSay DEF OneAnswer
    <3> QED
      BY <1>2, <3>2, HomesMove
  <2>2. ASSUME NEW result, AnswersStart(p, t, result) PROVE home'[t] = 0
    <3>1. ~Answers(proc[p].stdout, t, "refused")
      BY <1>2, <2>2, AnswersSay
    <3>2. result = "refused"
      BY <1>5, <2>2, <3>1 DEF AnswersStart
    <3> QED
      BY <1>2, <2>2, <3>2 DEF AnswersStart
  <2> QED
    BY <2>1, <2>2, AnswersMove
<1>6. ASSUME Answers(proc'[p].stdout, t, "ok") PROVE home'[t] # 0
  <2>1. CASE Quiet(p, t)
    <3>1. Answers(proc[p].stdout, t, "ok")
      BY <1>6, <2>1 DEF Quiet
    <3> QED
      BY <1>1, <3>1, HomeStays DEF OneAnswer
  <2>2. ASSUME NEW result, AnswersStart(p, t, result) PROVE home'[t] # 0
    <3>1. ~Answers(proc[p].stdout, t, "ok")
      BY <1>2, <2>2, AnswersSay
    <3>2. result = "ok"
      BY <1>6, <2>2, <3>1 DEF AnswersStart
    <3>3. home'[t] = p
      BY <2>2, <3>2 DEF AnswersStart, Base, Types, Told
    <3> QED
      BY <3>3 DEF Procs
  <2> QED
    BY <2>1, <2>2, AnswersMove
<1> QED
  BY <1>3, <1>4, <1>5, <1>6

LEMMA MayAskStep ==
    ASSUME Base, AskedOnce, Next, NEW t \in Turns, MayAsk(t)'
    PROVE  home'[t] = 0 /\ NotAsked(t)'
<1> USE TurnAssumption DEF Turns
<1>1. \/ MayAsk(t) /\ ~Send(t)
      \/ \E p \in Procs : HandleResponse(p) /\ Head(proc[p].stdout).id = t
                          /\ Head(proc[p].stdout).result = "refused" /\ call[t].pc = "sent"
  <2>1. Send(t) => call[t].pc = "call" /\ call'[t].pc # "call"
    BY SendDoes DEF Base, Goroutines
  <2>2. call'[t].pc \in {"idle", "call"} \/ (call'[t].pc = "answered" /\ call'[t].result = "refused")
    BY DEF MayAsk
  <2>3. CASE call'[t] = call[t]
    BY <2>1, <2>2, <2>3 DEF MayAsk
  <2> QED
    BY <2>1, <2>2, <2>3, CallsMove
    DEF CallMoves, IsBegun, IsSent, IsAnswered, IsSettled, IsDone, Recycles, MayAsk, Base
<1>2. CASE MayAsk(t) /\ ~Send(t)
  <2>1. home[t] = 0 /\ NotAsked(t)
    BY <1>2 DEF AskedOnce
  <2>2. ASSUME NEW q \in Procs, NEW result, AnswersStart(q, t, result) PROVE FALSE
    BY <2>1, <2>2 DEF AnswersStart, NotAsked
  <2> QED
    BY <1>2, <2>1, <2>2, HomesMove, AnswersMove, Sends DEF Quiet, NotAsked
<1>3. ASSUME NEW p \in Procs, HandleResponse(p), Head(proc[p].stdout).id = t,
             Head(proc[p].stdout).result = "refused", call[t].pc = "sent"
      PROVE  home'[t] = 0 /\ NotAsked(t)'
  <2>1. /\ Answers(proc[p].stdout, t, "refused") /\ home' = home
        /\ Says(proc[p].stdout, "response", t) /\ ~Says(proc'[p].stdout, "response", t)
    BY <1>3, AnswerIsRead
  <2>2. /\ home[t] = 0 /\ \A q \in Procs : Says(proc[q].stdout, "response", t) => p = q
        /\ \A q \in Procs : StartRequest(t) \notin proc[q].stdin
    BY <2>1 DEF AskedOnce, OneAnswer, AsksOnce
  <2>3. ASSUME NEW q \in Procs, NEW result, AnswersStart(q, t, result) PROVE FALSE
    BY <2>2, <2>3 DEF AnswersStart
  <2>4. \A q \in Procs : ~Says(proc'[q].stdout, "response", t)
    BY <2>1, <2>2, <2>3, AnswersMove DEF Quiet
  <2>5. \A q \in Procs : StartRequest(t) \notin proc'[q].stdin
    BY <1>3, <2>2, Sends
  <2> QED
    BY <2>1, <2>2, <2>4, <2>5 DEF NotAsked
<1> QED
  BY <1>1, <1>2, <1>3

LEMMA TakenOnStep ==
    ASSUME Base, AskedOnce, Next, NEW t \in Turns
    PROVE  TakenOn(t)'
<1> USE TurnAssumption DEF Turns
<1> SUFFICES ASSUME call'[t].pc \in {"answered", "remember"}, call'[t].result = "ok"
             PROVE  home'[t] # 0
  BY DEF TakenOn
<1>1. \/ call[t].pc \in {"answered", "remember"} /\ call[t].result = "ok"
      \/ \E p \in Procs : HandleResponse(p) /\ Head(proc[p].stdout).id = t
                          /\ Head(proc[p].stdout).result = "ok"
  BY CallsMove DEF CallMoves, IsBegun, IsSent, IsAnswered, IsSettled, IsDone, Recycles, Base
<1>2. home[t] # 0
  BY <1>1, AnswerIsRead DEF AskedOnce, TakenOn, OneAnswer
<1> QED
  BY <1>2, HomeStays

LEMMA AskedStep ==
    ASSUME Base, AskedOnce, Next
    PROVE  AskedOnce'
<1> SUFFICES ASSUME NEW t \in Turns
             PROVE  /\ MayAsk(t)' => home'[t] = 0 /\ NotAsked(t)'
                    /\ TakenOn(t)' /\ AsksOnce(t)' /\ OneAnswer(t)'
  BY DEF AskedOnce
<1> QED
  BY MayAskStep, TakenOnStep, AsksOnceStep, OneAnswerStep
-----------------------------------------------------------------------------
(* A turn gets into the maps with its turn/started or the answer of its Start,
   unless the mark says that it has ended.                                 *)
LEMMA TracksMove ==
    ASSUME Base, Next, NEW i \in Instances, NEW t \in Turns, Tracks(maps'[i], t)
    PROVE  /\ \/ Tracks(maps[i], t)
              \/ /\ RememberActiveTurn(t) /\ call[t].pc = "remember" /\ call[t].result = "ok"
                 /\ current = i /\ maps[i].last # t
              \/ \E p \in Procs : HandleTurnStarted(p) /\ proc[p].inst = i /\ Head(proc[p].stdout).id = t
           /\ \A p \in Procs :
                 /\ HandleTurnEnded(p) =>
                       Tracks(maps[i], t) /\ (Head(proc[p].stdout).id = t => proc[p].inst # i)
                 /\ HandleClosed(p) => Tracks(maps[i], t) /\ proc[p].inst # i
<1> USE TurnAssumption DEF Base
<1>1. /\ maps \in [Instances -> Maps] /\ MapsOK(maps[i]) /\ maps[i] \in Maps /\ t # None /\ i # 0
      /\ current = 0 \/ current \in Instances
  BY CurrentIsThere DEF Types, MapsTyped, Turns, Instances
<1> DEFINE Kept == Tracks(maps[i], t)
<1>2. ASSUME NEW m, maps' = InCurrent(m)
      PROVE  maps'[i] = maps[i] \/ (current = i /\ maps'[i] = m)
  BY <1>1, <1>2 DEF InCurrent
<1>3. ASSUME NEW c \in Starters, StartBegin(c) PROVE Kept
  <2>1. Tracks(Correlating(maps[i], c), t) => Kept
    BY <1>1 DEF Tracks, Correlating, Maps
  <2> QED
    BY <1>2, <1>3, <2>1 DEF StartBegin
<1>4. ASSUME NEW c \in Starters, StartAnswered(c) PROVE Kept
  <2>1. Tracks(StartCorrelated(c, i), t) => Kept
    BY <1>1 DEF Tracks, StartCorrelated, Correlated, Uncorrelated, Maps
  <2>2. maps' = maps \/ maps' = [maps EXCEPT ![call[c].inst] = StartCorrelated(c, call[c].inst)]
    BY <1>4 DEF StartAnswered
  <2>3. CASE call[c].inst = i
    BY <1>1, <2>1, <2>2, <2>3
  <2>4. CASE call[c].inst # i
    BY <1>1, <2>2, <2>4
  <2> QED
    BY <2>3, <2>4
<1>5. ASSUME NEW c \in Starters, RememberActiveTurn(c), ~Kept
      PROVE  /\ RememberActiveTurn(t) /\ call[t].pc = "remember" /\ call[t].result = "ok"
             /\ current = i /\ maps[i].last # t
  <2>1. PICK u \in {c, None} : maps' = InCurrent(Remembered(maps[current], u)) /\ (u = c => call[c].result = "ok")
    BY <1>5 DEF RememberActiveTurn
  <2>2. current = i /\ Tracks(Remembered(maps[i], u), t)
    BY <1>2, <1>5, <2>1
  <2>3. u = t /\ maps[i].last # t
    BY <1>1, <1>5, <2>2 DEF Tracks, Remembered, Started, Maps
  <2> QED
    BY <1>1, <1>5, <2>1, <2>2, <2>3 DEF RememberActiveTurn, At
<1>6. ASSUME NEW g \in Interrupters, BeginInterrupt(g) \/ InterruptStep(g) PROVE Kept
  <2>1. Tracks(BeingInterrupted(maps[i]), t) => Kept
    BY <1>1 DEF Tracks, BeingInterrupted, Maps
  <2>2. Tracks(Finished(maps[i], call[g].turn), t) => Kept
    BY <1>1 DEF Tracks, Finished, Maps
  <2>3. Tracks(Restored(maps[i], call[g].turn), t) => Kept
    BY <1>1 DEF Tracks, Restored, Maps
  <2> QED
    BY <1>2, <1>6, <2>1, <2>2, <2>3 DEF BeginInterrupt, InterruptStep, TimesOut, FinishInterrupt,
       RestoreInterruptedTurn, runtimeVars
<1>7. ASSUME NEW p \in Procs, HandleTurnStarted(p), ~Kept
      PROVE  proc[p].inst = i /\ Head(proc[p].stdout).id = t
  <2>1. PICK u \in Turns, j \in Instances :
           /\ u = Head(proc[p].stdout).id /\ j = proc[p].inst
           /\ maps' = [maps EXCEPT ![j] = Started(Attached(maps[j], u), u)]
    BY <1>7, HeadIsNews DEF HandleTurnStarted
  <2>2. j = i /\ maps'[i] = Started(Attached(maps[i], u), u)
    BY <1>1, <1>7, <2>1
  <2>3. u = t
    BY <1>1, <2>2 DEF Tracks, Started, Attached, Maps
  <2> QED
    BY <2>1, <2>2, <2>3
<1>8. ASSUME NEW p \in Procs, HandleTurnEnded(p)
      PROVE  Kept /\ (Head(proc[p].stdout).id = t => proc[p].inst # i)
  <2>1. PICK u \in Turns, j \in Instances :
           /\ u = Head(proc[p].stdout).id /\ j = proc[p].inst
           /\ maps' = [maps EXCEPT ![j] = Ended(maps[j], u)]
    BY <1>8, HeadIsNews DEF HandleTurnEnded
  <2>2. CASE j = i
    <3>1. maps'[i] = Ended(maps[i], u)
      BY <1>1, <2>1, <2>2
    <3>2. Kept /\ u # t
      BY <1>1, <3>1 DEF Tracks, Ended, Without, Maps
    <3> QED
      BY <2>1, <3>2
  <2>3. CASE j # i
    BY <1>1, <2>1, <2>3
  <2> QED
    BY <2>2, <2>3
<1>9. ASSUME NEW p \in Procs, HandleClosed(p) PROVE Kept /\ proc[p].inst # i
  <2>1. maps' = [maps EXCEPT ![proc[p].inst] = NoTurns] /\ ~Tracks(NoTurns, t)
    BY <1>1, <1>9 DEF HandleClosed, NoTurns, Tracks
  <2> QED
    BY <1>1, <2>1
<1> QED
  BY <1>3, <1>4, <1>5, <1>6, <1>7, <1>8, <1>9
  DEF Next, CallStep, StartStep, ReaderStep, ServerStep, SeesClosed, ContextEnds,
      Send, RecycleRemove, RecycleConfigure, HandleResponse, ServeRequest, TurnStarts,
      TurnEnds, Exits, runtimeVars

(* Who moves the mark of the last turn to have ended.                      *)
LEMMA MarksMove ==
    ASSUME Base, Next, NEW i \in Instances
    PROVE  \/ maps'[i].last = maps[i].last
           \/ \E c \in Starters : RememberActiveTurn(c) /\ maps[i].last # c
           \/ \E p \in Procs : HandleTurnStarted(p)
           \/ \E p \in Procs : HandleTurnEnded(p) /\ maps'[i].last = Head(proc[p].stdout).id
           \/ \E p \in Procs : HandleClosed(p)
<1> USE TurnAssumption DEF Base
<1>1. /\ maps \in [Instances -> Maps] /\ maps[i] \in Maps /\ i # 0
      /\ current = 0 \/ current \in Instances
  BY CurrentIsThere DEF Types, MapsTyped, Instances
<1>2. ASSUME NEW m, maps' = InCurrent(m)
      PROVE  maps'[i] = maps[i] \/ (current = i /\ maps'[i] = m)
  BY <1>1, <1>2 DEF InCurrent
<1>3. ASSUME NEW c \in Starters, StartBegin(c) PROVE maps'[i].last = maps[i].last
  <2>1. Correlating(maps[i], c).last = maps[i].last
    BY <1>1 DEF Correlating, Maps
  <2> QED
    BY <1>2, <1>3, <2>1 DEF StartBegin
<1>4. ASSUME NEW c \in Starters, StartAnswered(c) PROVE maps'[i].last = maps[i].last
  <2>1. StartCorrelated(c, i).last = maps[i].last
    BY <1>1 DEF StartCorrelated, Correlated, Uncorrelated, Maps
  <2>2. maps' = maps \/ maps' = [maps EXCEPT ![call[c].inst] = StartCorrelated(c, call[c].inst)]
    BY <1>4 DEF StartAnswered
  <2>3. CASE call[c].inst = i
    BY <1>1, <2>1, <2>2, <2>3
  <2>4. CASE call[c].inst # i
    BY <1>1, <2>2, <2>4
  <2> QED
    BY <2>3, <2>4
<1>5. ASSUME NEW c \in Starters, RememberActiveTurn(c), maps[i].last = c
      PROVE  maps'[i].last = maps[i].last
  <2>1. PICK u \in {c, None} : maps' = InCurrent(Remembered(maps[current], u))
    BY <1>5 DEF RememberActiveTurn
  <2>2. Remembered(maps[i], u).last = maps[i].last
    BY <1>1, <1>5, <2>1 DEF Remembered, Maps
  <2> QED
    BY <1>2, <2>1, <2>2
<1>6. ASSUME NEW g \in Interrupters, BeginInterrupt(g) \/ InterruptStep(g)
      PROVE  maps'[i].last = maps[i].last
  <2>1. /\ BeingInterrupted(maps[i]).last = maps[i].last
        /\ Finished(maps[i], call[g].turn).last = maps[i].last
        /\ Restored(maps[i], call[g].turn).last = maps[i].last
    BY <1>1 DEF BeingInterrupted, Finished, Restored, Maps
  <2> QED
    BY <1>2, <1>6, <2>1 DEF BeginInterrupt, InterruptStep, TimesOut, FinishInterrupt,
       RestoreInterruptedTurn, runtimeVars
<1>7. ASSUME NEW p \in Procs, HandleTurnEnded(p)
      PROVE  maps'[i].last \in {maps[i].last, Head(proc[p].stdout).id}
  <2>1. PICK u \in Turns, j \in Instances :
           u = Head(proc[p].stdout).id /\ maps' = [maps EXCEPT ![j] = Ended(maps[j], u)]
    BY <1>7, HeadIsNews DEF HandleTurnEnded
  <2>2. maps'[i] = maps[i] \/ maps'[i] = Ended(maps[i], u)
    BY <1>1, <2>1
  <2>3. Ended(maps[i], u).last = u
    BY <1>1 DEF Ended, Without, Maps
  <2> QED
    BY <2>1, <2>2, <2>3
<1> QED
  BY <1>3, <1>4, <1>5, <1>6, <1>7
  DEF Next, CallStep, StartStep, ReaderStep, ServerStep, SeesClosed, ContextEnds,
      Send, RecycleRemove, RecycleConfigure, HandleResponse, ServeRequest, TurnStarts,
      TurnEnds, Exits, runtimeVars
-----------------------------------------------------------------------------
(* What the history keeps.                                                 *)
LEMMA HistoryGrows ==
    ASSUME Base, Next
    PROVE  /\ over \subseteq over' /\ forgotten \subseteq forgotten'
           /\ \A t \in Turns : Undone(t)' => Undone(t)
           /\ \A t \in over' : \/ t \in over
                               \/ \E p \in Procs : HandleTurnEnded(p) /\ Head(proc[p].stdout).id = t
                               \/ \E p \in Procs : HandleClosed(p) /\ home[t] = p /\ home[t] # 0
<1> USE DEF Base
<1>1. over \subseteq over' /\ forgotten \subseteq forgotten'
  BY DEF Next, CallStep, StartStep, InterruptStep, ReaderStep, ServerStep, Send, SeesClosed,
      ContextEnds, StartBegin, StartAnswered, RememberActiveTurn, BeginInterrupt, TimesOut,
      FinishInterrupt, RestoreInterruptedTurn, RecycleRemove, RecycleConfigure, HandleResponse,
      HandleTurnStarted, HandleTurnEnded, HandleClosed, ServeRequest, TurnStarts, TurnEnds, Exits, history
<1>2. ASSUME NEW t \in Turns, call[t].pc = "done" PROVE call'[t].pc = "done"
  BY <1>2, CallsMove DEF Turns, CallMoves, IsBegun, IsSent, IsAnswered, IsSettled, IsDone, Recycles
<1>3. ASSUME NEW t \in over', t \notin over
      PROVE  \/ \E p \in Procs : HandleTurnEnded(p) /\ Head(proc[p].stdout).id = t
             \/ \E p \in Procs : HandleClosed(p) /\ home[t] = p /\ home[t] # 0
  <2>1. ASSUME NEW p \in Procs, HandleTurnEnded(p) PROVE Head(proc[p].stdout).id = t
    BY <1>3, <2>1 DEF HandleTurnEnded
  <2>2. ASSUME NEW p \in Procs, HandleClosed(p) PROVE home[t] = p /\ home[t] # 0
    BY <1>3, <2>2 DEF HandleClosed, TakenBy
  <2> QED
    BY <1>3, <2>1, <2>2
    DEF Next, CallStep, StartStep, InterruptStep, ReaderStep, ServerStep, Send, SeesClosed,
        ContextEnds, StartBegin, StartAnswered, RememberActiveTurn, BeginInterrupt, TimesOut,
        FinishInterrupt, RestoreInterruptedTurn, RecycleRemove, RecycleConfigure, HandleResponse,
        HandleTurnStarted, ServeRequest, TurnStarts, TurnEnds, Exits, history
<1> QED
  BY <1>1, <1>2, <1>3 DEF Undone

\* The steps after which a turn whose Start is under way is not followed any more.
LEMMA Forgets ==
    ASSUME Base, Next, NEW t \in Turns, Undone(t), t \notin forgotten'
    PROVE  /\ t \in over =>
                 /\ \A c \in Starters : RememberActiveTurn(c) => c = t
                 /\ \A p \in Procs : HandleTurnStarted(p) \/ HandleTurnEnded(p) => Head(proc[p].stdout).id = t
                 /\ \A g \in Goroutines : ~RecycleRemove(g)
           /\ \A p \in Procs : HandleClosed(p) => t \notin over' /\ home[t] # p
           /\ \A g \in Goroutines : RecycleRemove(g) => home[t] = 0 \/ current = 0 \/ client[current] # home[t]
<1>1. t \in StartToCome
  BY DEF Undone, StartToCome, At
<1>2. ASSUME t \in over
      PROVE  /\ \A c \in Starters : RememberActiveTurn(c) => c = t
             /\ \A p \in Procs : HandleTurnStarted(p) \/ HandleTurnEnded(p) => Head(proc[p].stdout).id = t
             /\ \A g \in Goroutines : ~RecycleRemove(g)
  BY <1>1, <1>2 DEF RememberActiveTurn, HandleTurnStarted, HandleTurnEnded, RecycleRemove
<1>3. ASSUME NEW p \in Procs, HandleClosed(p) PROVE t \notin over' /\ home[t] # p
  <2>1. p # 0
    BY DEF Procs
  <2> QED
    BY <1>1, <1>3, <2>1 DEF HandleClosed, TakenBy
<1>4. ASSUME NEW g \in Goroutines, RecycleRemove(g), home[t] # 0, current # 0, client[current] = home[t]
      PROVE  FALSE
  <2>1. call' = [call EXCEPT ![g].pc = "recycling", ![g].p = home[t]]
    BY <1>4 DEF RecycleRemove
  <2>2. call'[g].p = home[t]
    BY <2>1 DEF Base, Types, CallsTyped, Calls
  <2> QED
    BY <1>1, <1>4, <2>2 DEF RecycleRemove, TakenBy
<1> QED
  BY <1>2, <1>3, <1>4

(* The instance of a process does not change.                              *)
LEMMA HomesInstance ==
    ASSUME Base, ProcsPlaced, AskedOnce, Next, NEW t \in Turns, home[t] # 0,
           proc[home[t]].inst # 0
    PROVE  proc'[home'[t]].inst = proc[home[t]].inst
<1>1. home'[t] = home[t] /\ home[t] \in Procs
  BY HomeStays DEF Base, Types, Told
<1>2. ~Begins(home[t])
  BY <1>1, BeginsDoes DEF NotStarted
<1> QED
  BY <1>1, <1>2, LivesMove

LEMMA HomeIsCurrentStep ==
    ASSUME Base, ProcsPlaced, AskedOnce, HomeIsCurrent, Next
    PROVE  HomeIsCurrent'
<1> USE TurnAssumption
<1> SUFFICES ASSUME NEW t \in Turns, home'[t] # 0, Undone(t)'
             PROVE  current' # 0 /\ client'[current'] = home'[t] /\ proc'[home'[t]].inst = current'
  BY DEF HomeIsCurrent
<1>1. Undone(t) /\ t \notin forgotten'
  BY HistoryGrows DEF Undone
<1>2. CASE home[t] # 0
  <2>1. /\ current # 0 /\ client[current] = home[t] /\ proc[home[t]].inst = current
        /\ current \in Instances /\ home[t] \in Procs
    BY <1>1, <1>2, CurrentIsThere DEF HomeIsCurrent, Base, Types, Told
  <2>2. home'[t] = home[t] /\ proc'[home'[t]].inst = current
    BY <1>2, <2>1, HomeStays, HomesInstance
  <2>3. current' = current
    BY <1>1, <1>2, <2>1, Forgets, PlacesMove
  <2>4. ASSUME NEW q \in Procs, HandleClosed(q), proc[q].inst = current PROVE FALSE
    <3>1. client[current] = q
      BY <2>4 DEF HandleClosed, ProcsPlaced
    <3> QED
      BY <1>1, <2>1, <2>4, <3>1, Forgets
  <2>5. client'[current] = client[current]
    BY <1>2, <2>1, <2>4, PlacesMove
  <2> QED
    BY <2>1, <2>2, <2>3, <2>5
<1>3. CASE home[t] = 0
  <2>1. PICK p \in Procs : AnswersStart(p, t, "ok") /\ home'[t] = p
    BY <1>3, HomesMove
  <2>2. proc[p].life = "alive" /\ UNCHANGED <<current, client>>
    BY <2>1 DEF AnswersStart, ServeRequest, runtimeVars
  <2>3. proc[p].inst = current /\ client[current] = p /\ current \in Instances
    BY <2>2 DEF ProcsPlaced, Base, Types, ProcsTyped, ProcOK
  <2>4. ~Begins(p)
    BY <2>2, BeginsDoes DEF NotStarted
  <2>5. proc'[p].inst = current /\ current # 0
    BY <2>3, <2>4, LivesMove DEF Instances
  <2> QED
    BY <2>1, <2>2, <2>3, <2>5
<1> QED
  BY <1>2, <1>3

LEMMA TrackedAtHomeStep ==
    ASSUME Base, ProcsPlaced, TurnsAtHome, AskedOnce, HomeIsCurrent, TrackedAtHome, Next
    PROVE  TrackedAtHome'
<1> USE TurnAssumption
<1> SUFFICES ASSUME NEW i \in Instances, NEW t \in Turns, Tracks(maps'[i], t), t \notin forgotten'
             PROVE  home'[t] # 0 /\ proc'[home'[t]].inst = i
  BY DEF TrackedAtHome
<1>1. t \notin forgotten /\ i # 0 /\ t \in Starters
  BY HistoryGrows DEF Instances, Turns
<1>2. home[t] # 0 /\ proc[home[t]].inst = i
  <2>1. CASE Tracks(maps[i], t)
    BY <1>1, <2>1 DEF TrackedAtHome
  <2>2. CASE call[t].pc = "remember" /\ call[t].result = "ok" /\ current = i
    <3>1. home[t] # 0
      BY <2>2 DEF AskedOnce, TakenOn
    <3> QED
      BY <1>1, <2>2, <3>1 DEF HomeIsCurrent, Undone
  <2>3. ASSUME NEW p \in Procs, HandleTurnStarted(p), proc[p].inst = i, Head(proc[p].stdout).id = t
        PROVE  home[t] # 0 /\ proc[home[t]].inst = i
    <3>1. Says(proc[p].stdout, "started", t) /\ p # 0
      BY <2>3, HeadIsNews DEF Base, Procs
    <3> QED
      BY <2>3, <3>1 DEF TurnsAtHome
  <2> QED
    BY <2>1, <2>2, <2>3, TracksMove
<1> QED
  BY <1>1, <1>2, HomeStays, HomesInstance

(* The end of a turn comes after everything else of it.                    *)
LEMMA EndIsLast ==
    ASSUME Base, TurnsAtHome, AskedOnce, Next, NEW p \in Procs, NEW t \in Turns,
           HandleTurnEnded(p), Head(proc[p].stdout).id = t
    PROVE  home[t] = p /\ ~Beginning(t)'
<1>1. Says(proc[p].stdout, "terminal", t) /\ p # 0
  BY HeadIsNews, TurnAssumption DEF Base, Procs
<1>2. home[t] = p /\ proc[p].turn # t
  BY <1>1 DEF TurnsAtHome
<1>3. \A q \in Procs : StartRequest(t) \notin proc[q].stdin
  BY <1>1, <1>2, HomeStays
<1>4. PICK q, m, a : q \in Outputs /\ q = proc[p].stdout /\ m = Head(q) /\ a = Tail(q) /\ q # <<>>
  BY DEF HandleTurnEnded, Reads, Base, Types, ProcsTyped, Processes
<1>5. /\ proc'[p].stdout = a /\ proc'[p].turn = proc[p].turn /\ proc'[p].stdin = proc[p].stdin
      /\ \A r \in Procs \ {p} : proc'[r] = proc[r]
  BY <1>4, ReadDoes DEF HandleTurnEnded, Base
<1>6. IsAbout(m, "terminal", t) /\ InOrder(q, t)
  BY <1>4 DEF HandleTurnEnded, Reads, IsAbout, TurnsAtHome
<1>7. \A u : InOrder(q, u) => (IsAbout(m, "terminal", u) => ~Says(a, "started", u))
  BY <1>4, SaysLess
<1>8. ~Says(a, "started", t)
  BY <1>6, <1>7
<1>9. \A r \in Procs \ {p} : ~Says(proc[r].stdout, "started", t) /\ proc[r].turn # t
  BY <1>2 DEF TurnsAtHome
<1> QED
  BY <1>2, <1>3, <1>5, <1>8, <1>9 DEF Beginning

LEMMA OverIsMarkedStep ==
    ASSUME OutInv, Next
    PROVE  OverIsMarked'
<1> USE TurnAssumption DEF OutInv
<1> SUFFICES ASSUME NEW t \in over'
             PROVE  /\ home'[t] # 0
                    /\ t \notin forgotten' => ~Beginning(t)'
                    /\ Undone(t)' => current' # 0 /\ maps'[current'].last = t
  BY DEF OverIsMarked
<1>1. t \in Turns
  <2>1. Types'
    BY TypesStep DEF Base
  <2> QED
    BY <2>1 DEF Types, Told
<1>2. ASSUME t \notin forgotten', Beginning(t)'
      PROVE  t \notin over /\ ~\E p \in Procs : HandleClosed(p) /\ home[t] = p /\ home[t] # 0
  <2>1. ASSUME home[t] # 0 PROVE Beginning(t)
    <3>1. call[t].pc # "call"
      BY <1>1, <2>1 DEF AskedOnce, MayAsk
    <3> QED
      BY <1>1, <1>2, <3>1, BeginningMoves DEF Base
  <2>2. t \notin over
    BY <1>1, <1>2, <2>1, HistoryGrows DEF OverIsMarked
  <2>3. ASSUME NEW p \in Procs, HandleClosed(p), home[t] = p, home[t] # 0 PROVE FALSE
    <3>1. Outstanding(t)
      BY <1>1, <2>1, <2>3, OutstandingIs
    <3> QED
      BY <1>1, <1>2, <2>3, <3>1 DEF HandleClosed, StartToCome
  <2> QED
    BY <2>2, <2>3
<1>3. CASE t \in over
  <2>1. home'[t] # 0
    BY <1>1, <1>3, HomeStays DEF OverIsMarked
  <2>2. ASSUME Undone(t)' PROVE current' # 0 /\ maps'[current'].last = t
    <3>1. Undone(t) /\ t \notin forgotten' /\ ~Beginning(t) /\ current # 0 /\ maps[current].last = t
      BY <1>1, <1>3, <2>2, HistoryGrows DEF OverIsMarked, Undone
    <3>2. current' = current /\ current \in Instances
      BY <1>1, <1>3, <3>1, Forgets, PlacesMove, CurrentIsThere DEF Base, Types
    <3>3. ASSUME NEW p \in Procs, HandleTurnStarted(p) PROVE FALSE
      <4>1. Says(proc[p].stdout, "started", t)
        BY <1>1, <1>3, <3>1, <3>3, Forgets, HeadIsNews DEF Base
      <4> QED
        BY <3>1, <4>1 DEF Beginning
    <3>4. maps'[current].last = t
      BY <1>1, <1>3, <3>1, <3>2, <3>3, Forgets, MarksMove
    <3> QED
      BY <3>1, <3>2, <3>4
  <2> QED
    BY <1>2, <1>3, <2>1, <2>2
<1>4. ASSUME NEW p \in Procs, HandleTurnEnded(p), Head(proc[p].stdout).id = t
      PROVE  /\ home'[t] # 0 /\ ~Beginning(t)'
             /\ Undone(t)' => current' # 0 /\ maps'[current'].last = t
  <2>1. home[t] = p /\ ~Beginning(t)' /\ p # 0
    BY <1>1, <1>4, EndIsLast DEF Procs
  <2>2. ASSUME Undone(t)' PROVE current' # 0 /\ maps'[current'].last = t
    <3>1. Undone(t)
      BY <1>1, <2>2, HistoryGrows
    <3>2. current # 0 /\ proc[p].inst = current /\ current \in Instances
      BY <1>1, <2>1, <3>1, CurrentIsThere DEF HomeIsCurrent, Base, Types
    <3>3. current' = current /\ maps' = [maps EXCEPT ![current] = Ended(maps[current], t)]
      BY <1>4, <3>2 DEF HandleTurnEnded
    <3>4. Ended(maps[current], t).last = t /\ maps'[current] = Ended(maps[current], t)
      BY <1>1, <3>2, <3>3 DEF Base, Types, MapsTyped, Maps, Ended, Without
    <3> QED
      BY <3>2, <3>3, <3>4
  <2> QED
    BY <1>1, <2>1, <2>2, HomeStays
<1>5. ASSUME NEW p \in Procs, HandleClosed(p), home[t] = p, home[t] # 0
      PROVE  home'[t] # 0 /\ ~Undone(t)'
  <2>1. ASSUME Undone(t)' PROVE FALSE
    <3>1. Undone(t) /\ t \notin forgotten'
      BY <1>1, <2>1, HistoryGrows DEF Undone
    <3> QED
      BY <1>1, <1>5, <3>1, Forgets
  <2> QED
    BY <1>1, <1>5, <2>1, HomeStays
<1> QED
  BY <1>2, <1>3, <1>4, <1>5, HistoryGrows

LEMMA StaysOutStep ==
    ASSUME OutInv, Next
    PROVE  EndedTurnStaysOut'
<1> USE TurnAssumption DEF OutInv
<1> SUFFICES ASSUME NEW i \in Instances, NEW t \in over', Tracks(maps'[i], t), t \notin forgotten'
             PROVE  FALSE
  BY DEF EndedTurnStaysOut
<1>1. t \in Turns /\ t \notin forgotten
  <2>1. Types'
    BY TypesStep DEF Base
  <2> QED
    BY <2>1, HistoryGrows DEF Types, Told
<1>2. CASE t \in over
  <2>1. ~Tracks(maps[i], t) /\ ~Beginning(t)
    BY <1>1, <1>2 DEF EndedTurnStaysOut, OverIsMarked
  <2>2. ASSUME NEW p \in Procs, HandleTurnStarted(p), Head(proc[p].stdout).id = t PROVE FALSE
    BY <2>1, <2>2, HeadIsNews DEF Beginning, Base
  <2>3. call[t].pc = "remember" => current # 0 /\ maps[current].last = t
    BY <1>1, <1>2 DEF OverIsMarked, Undone
  <2> QED
    BY <1>1, <2>1, <2>2, <2>3, TracksMove
<1>3. ASSUME NEW p \in Procs, HandleTurnEnded(p), Head(proc[p].stdout).id = t PROVE FALSE
  <2>1. home[t] = p
    BY <1>1, <1>3, EndIsLast
  <2>2. Tracks(maps[i], t) /\ proc[p].inst # i
    BY <1>1, <1>3, TracksMove
  <2> QED
    BY <1>1, <2>1, <2>2 DEF TrackedAtHome
<1>4. ASSUME NEW p \in Procs, HandleClosed(p), home[t] = p PROVE FALSE
  <2>1. Tracks(maps[i], t) /\ proc[p].inst # i
    BY <1>1, <1>4, TracksMove
  <2> QED
    BY <1>1, <1>4, <2>1 DEF TrackedAtHome
<1> QED
  BY <1>2, <1>3, <1>4, HistoryGrows

LEMMA OutInit ==
    ASSUME Init
    PROVE  OutInv
<1> USE TurnAssumption DEF Init
<1>1. Base
  BY TellInit DEF TellInv, LabelInv, Base
<1>2. /\ \A p \in Procs : /\ proc[p].life = "none" /\ proc[p].turn = None /\ proc[p].stdin = {}
                          /\ proc[p].stdout = <<>>
      /\ \A t \in Turns : home[t] = 0 /\ t # None /\ call[t].pc = "idle"
  BY DEF NotStarted, Turns, Goroutines, IdleCall
<1>3. /\ \A kind, g : ~Says(<<>>, kind, g)
      /\ \A g, r : ~Answers(<<>>, g, r)
      /\ \A g : OnlyAnswer(<<>>, g) /\ InOrder(<<>>, g)
  <2>1. Len(<<>>) = 0 /\ 1 .. 0 = {}
    BY EmptySeq
  <2> QED
    BY <2>1 DEF Says, Answers, OnlyAnswer, InOrder
<1>4. ProcsPlaced /\ TurnsAtHome
  BY <1>2, <1>3 DEF ProcsPlaced, TurnsAtHome
<1>5. AskedOnce
  BY <1>2, <1>3 DEF AskedOnce, NotAsked, TakenOn, AsksOnce, OneAnswer
<1>6. \A i \in Instances, t \in Turns : ~Tracks(maps[i], t)
  BY <1>2 DEF Tracks, NoTurns
<1>7. HomeIsCurrent /\ TrackedAtHome /\ OverIsMarked /\ EndedTurnStaysOut
  BY <1>2, <1>6 DEF HomeIsCurrent, TrackedAtHome, OverIsMarked, EndedTurnStaysOut
<1> QED
  BY <1>1, <1>4, <1>5, <1>7 DEF OutInv

LEMMA OutStep ==
    ASSUME OutInv, [Next]_vars
    PROVE  OutInv'
<1>1. CASE Next
  <2>1. Base'
    BY <1>1, TypesStep, UnstartedStep, NamesStep DEF OutInv, Base
  <2>2. ProcsPlaced' /\ TurnsAtHome' /\ AskedOnce'
    BY <1>1, PlacedStep, AtHomeStep, AskedStep DEF OutInv
  <2>3. HomeIsCurrent' /\ TrackedAtHome' /\ OverIsMarked' /\ EndedTurnStaysOut'
    BY <1>1, HomeIsCurrentStep, TrackedAtHomeStep, OverIsMarkedStep, StaysOutStep DEF OutInv
  <2> QED
    BY <2>1, <2>2, <2>3 DEF OutInv
<1>2. CASE UNCHANGED vars
  <2>1. Base'
    BY <1>2 DEF vars, runtimeVars, history, OutInv, Base, Types, MapsTyped, MapsOK, CallsTyped, CallOK,
       ProcsTyped, ProcOK, Numbers, Told, Unstarted, StartersNameNoTurn
  <2>2. ProcsPlaced' /\ TurnsAtHome'
    BY <1>2 DEF vars, runtimeVars, history, OutInv, ProcsPlaced, TurnsAtHome
  <2>3. AskedOnce'
    BY <1>2 DEF vars, runtimeVars, history, OutInv, AskedOnce, MayAsk, NotAsked, TakenOn, AsksOnce, OneAnswer
  <2>4. HomeIsCurrent' /\ TrackedAtHome' /\ OverIsMarked' /\ EndedTurnStaysOut'
    BY <1>2 DEF vars, runtimeVars, history, OutInv, HomeIsCurrent, TrackedAtHome, OverIsMarked,
       EndedTurnStaysOut, Undone, Beginning
  <2> QED
    BY <2>1, <2>2, <2>3, <2>4 DEF OutInv
<1> QED
  BY <1>1, <1>2

(***************************************************************************)
(* A turn that is over is not active again nor being interrupted, unless   *)
(* the mark of the last terminal turn went while its Start was under way   *)
(* (lastTerminalTurnID, RememberActiveTurn, RestoreInterruptedTurn).       *)
(***************************************************************************)
THEOREM EndedForGood == Spec => []EndedTurnStaysOut
<1>1. Spec => []OutInv
  BY OutInit, OutStep, PTL DEF Spec
<1>2. OutInv => EndedTurnStaysOut
  BY DEF OutInv
<1> QED
  BY <1>1, <1>2, PTL
=============================================================================
