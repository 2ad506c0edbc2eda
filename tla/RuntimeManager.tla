--------------------------- MODULE RuntimeManager ---------------------------
(***************************************************************************)
(* The app-server processes of one workspace (backend/internal/runtime/    *)
(* manager.go): callers that start one when there is none, operators that  *)
(* remove or recycle it or change the launch configuration, processes that *)
(* end on their own, and the requests a process makes of the user          *)
(* (server_request_registry.go).                                           *)
(*                                                                         *)
(* A step is a section under Manager.mu, instance.mu or the registry's     *)
(* mutex, or one end of a call to the bridge.  Of the bridge only what     *)
(* BridgeClient shows is used: closeWithError runs once, kills the process *)
(* and then calls HandleClosed; whoever calls Close returns after that.    *)
(* Instances and processes are numbered in the order they are made; 0 is   *)
(* nil.                                                                    *)
(***************************************************************************)
EXTENDS Integers, FiniteSets, TLC

CONSTANTS Callers,      \* goroutines in Call and Respond
          Operators,    \* goroutines in Remove, Recycle and ApplyLaunchConfig
          MaxInstances, MaxProcs, MaxConfigs   \* bounds

ASSUME RuntimeAssumption ==
    /\ MaxInstances \in Nat \ {0}
    /\ MaxProcs \in Nat
    /\ MaxConfigs \in Nat

VARIABLES
    current,    \* runtimes[workspaceID]
    made,       \* how many instances there have been
    inst,       \* per instance: client, status, expectClose
    config,     \* launchConfig, as the number of its changes
    procs,      \* how many processes there have been
    proc,       \* per process: its instance, its life, its bridge's closing
    request,    \* per process: the request it makes of the user
    reports,    \* history, per process: resolved and expired events for it
    caller,     \* per caller: where it is, its instance, process and request
    operator    \* per operator: where it is and its instance or process

vars == <<current, made, inst, config, procs, proc, request, reports, caller, operator>>

Instances == 1 .. MaxInstances
Procs == 1 .. MaxProcs

\* Where a goroutine inside ensureStarted is.
StartSteps == {"spawn", "init", "started", "abandon"}
CallerSteps == {"idle", "lookup", "looked", "ready", "write", "resolve"} \cup StartSteps
OperatorSteps == {"idle", "expire", "read", "close", "wait", "configure"}

IdleCaller == [pc |-> "idle", inst |-> 0, p |-> 0, req |-> 0]
IdleOperator == [pc |-> "idle", inst |-> 0, p |-> 0, applying |-> FALSE]

Stopped == [client |-> 0, status |-> "stopped", expectClose |-> FALSE]

\* The workspace is configured when the server starts.
Init ==
    /\ current = 1 /\ made = 1
    /\ inst = [i \in Instances |-> Stopped]
    /\ config = 0
    /\ procs = 0
    /\ proc = [p \in Procs |-> [inst |-> 0, alive |-> FALSE, close |-> "open"]]
    /\ request = [p \in Procs |-> "none"]
    /\ reports = [p \in Procs |-> 0]
    /\ caller = [g \in Callers |-> IdleCaller]
    /\ operator = [o \in Operators |-> IdleOperator]
-----------------------------------------------------------------------------
(***************************************************************************)
(* The process and its bridge                                              *)
(***************************************************************************)
\* Wrong variant: nothing is done for a process that is gone already.
CloseIfAlive(p) ==
    proc' = IF proc[p].close = "open" /\ proc[p].alive
            THEN [proc EXCEPT ![p].close = "closing", ![p].alive = FALSE] ELSE proc

\* closeWithError up to the kill, by whoever comes first.
CloseOnce(p) ==
    proc' = IF proc[p].close = "open"
            THEN [proc EXCEPT ![p].close = "closing", ![p].alive = FALSE] ELSE proc

Dies(p) ==
    /\ proc[p].alive
    /\ proc' = [proc EXCEPT ![p].alive = FALSE]
    /\ UNCHANGED <<current, made, inst, config, procs, request, reports, caller, operator>>

\* waitProcess, or readStdout at the end of the output.
SeesExit(p) ==
    /\ p <= procs
    /\ ~proc[p].alive
    /\ proc[p].close = "open"
    /\ CloseOnce(p)
    /\ UNCHANGED <<current, made, inst, config, procs, request, reports, caller, operator>>

\* expireRequestsForWorkspace; every request of the workspace is in the registry.
ExpireAll ==
    /\ request' = [p \in Procs |-> IF request[p] = "pending" THEN "expired" ELSE request[p]]
    /\ reports' = [p \in Procs |-> IF request[p] = "pending" THEN reports[p] + 1
                                                         ELSE reports[p]]

\* HandleClosed, first part.
CloseExpires(p) ==
    /\ proc[p].close = "closing"
    /\ proc' = [proc EXCEPT ![p].close = "expired"]
    /\ ExpireAll
    /\ UNCHANGED <<current, made, inst, config, procs, caller, operator>>

ClosedInstance(i) ==
    LET wasRunning == inst[i].client # 0 \/ inst[i].status \in {"ready", "starting"} IN
    [client |-> 0,
     status |-> IF ~inst[i].expectClose /\ wasRunning THEN "error" ELSE "stopped",
     expectClose |-> FALSE]

\* HandleClosed, the section on the instance: whichever process it has now.
HandleClosed(p) ==
    /\ proc[p].close = "expired"
    /\ proc' = [proc EXCEPT ![p].close = "handled"]
    /\ inst' = [inst EXCEPT ![proc[p].inst] = ClosedInstance(proc[p].inst)]
    /\ UNCHANGED <<current, made, config, procs, request, reports, caller, operator>>

\* HandleRequest (without an interceptor): readStdout may come to it long after
\* it has read the process's request, and after the bridge has closed.
HandleRequest(p) ==
    /\ p <= procs
    /\ request[p] = "none"
    /\ request' = [request EXCEPT ![p] = "pending"]
    /\ UNCHANGED <<current, made, inst, config, procs, proc, reports, caller, operator>>
-----------------------------------------------------------------------------
(***************************************************************************)
(* ensureStarted, and Call and Respond around it                           *)
(***************************************************************************)
GetRequest(g, p) ==
    /\ caller[g].pc = "idle"
    /\ request[p] = "pending"
    /\ caller' = [caller EXCEPT ![g] = [IdleCaller EXCEPT !.pc = "lookup", !.req = p]]
    /\ UNCHANGED <<current, made, inst, config, procs, proc, request, reports, operator>>

Lookup(g) ==
    /\ caller[g].pc \in {"idle", "lookup"}
    /\ caller' = [caller EXCEPT ![g] = IF current = 0 THEN IdleCaller
                                       ELSE [@ EXCEPT !.pc = "looked", !.inst = current]]
    /\ UNCHANGED <<current, made, inst, config, procs, proc, request, reports, operator>>

\* There is a client: a call goes on to the bridge, an answer reads it again.
HasClient(g) ==
    caller' = [caller EXCEPT ![g] = IF @.req = 0 THEN IdleCaller
                                    ELSE [@ EXCEPT !.pc = "ready", !.p = 0]]

FindsClient(g) ==
    /\ caller[g].pc = "looked"
    /\ inst[caller[g].inst].client # 0
    /\ HasClient(g)
    /\ UNCHANGED <<current, made, inst, config, procs, proc, request, reports, operator>>

\* The lock is given up for the start.
BeginsStart(g) ==
    /\ caller[g].pc = "looked"
    /\ inst[caller[g].inst].client = 0
    /\ inst' = [inst EXCEPT ![caller[g].inst].status = "starting"]
    /\ caller' = [caller EXCEPT ![g].pc = "spawn"]
    /\ UNCHANGED <<current, made, config, procs, proc, request, reports, operator>>

\* bridge.Start up to the initialize call.
Spawns(g) ==
    /\ caller[g].pc = "spawn"
    /\ procs < MaxProcs
    /\ procs' = procs + 1
    /\ proc' = [proc EXCEPT ![procs'] = [inst |-> caller[g].inst, alive |-> TRUE,
                                         close |-> "open"]]
    /\ caller' = [caller EXCEPT ![g].pc = "init", ![g].p = procs']
    /\ UNCHANGED <<current, made, inst, config, request, reports, operator>>

\* The answer was there and the bridge is not closed when it is notified.
Initialized(g) ==
    /\ caller[g].pc = "init"
    /\ proc[caller[g].p].close = "open"
    /\ caller' = [caller EXCEPT ![g].pc = "started"]
    /\ UNCHANGED <<current, made, inst, config, procs, proc, request, reports, operator>>

\* Wrong variant: bridge.Start returns its error without client.Close().
AbandonsAlive(g) ==
    /\ caller[g].pc = "init"
    /\ caller' = [caller EXCEPT ![g].pc = "abandon", ![g].p = 0]
    /\ UNCHANGED <<current, made, inst, config, procs, proc, request, reports, operator>>

\* No answer, or the bridge is closed: bridge.Start closes it.
Abandons(g) ==
    /\ caller[g].pc = "init"
    /\ CloseOnce(caller[g].p)
    /\ caller' = [caller EXCEPT ![g].pc = "abandon"]
    /\ UNCHANGED <<current, made, inst, config, procs, request, reports, operator>>

\* bridge.Start returns its error.
StartFails(g) ==
    /\ \/ caller[g].pc = "spawn"
       \/ /\ caller[g].pc = "abandon"
          /\ caller[g].p # 0 => proc[caller[g].p].close = "handled"
    /\ inst' = [inst EXCEPT ![caller[g].inst].status = "error"]
    /\ caller' = [caller EXCEPT ![g] = IdleCaller]
    /\ UNCHANGED <<current, made, config, procs, proc, request, reports, operator>>

\* ensureStarted's last section.
Installs(g) ==
    /\ caller[g].pc = "started"
    /\ inst' = [inst EXCEPT ![caller[g].inst].client = caller[g].p,
                            ![caller[g].inst].status = "ready"]
    /\ HasClient(g)
    /\ UNCHANGED <<current, made, config, procs, proc, request, reports, operator>>

\* Respond, after ensureStarted; without a client there is an error.
ReadsClient(g) ==
    LET c == inst[caller[g].inst].client IN
    /\ caller[g].pc = "ready"
    /\ caller' = [caller EXCEPT ![g] = IF c = 0 THEN IdleCaller
                                       ELSE [@ EXCEPT !.pc = "write", !.inst = 0, !.p = c]]
    /\ UNCHANGED <<current, made, inst, config, procs, proc, request, reports, operator>>

\* client.Respond
Responds(g) ==
    /\ caller[g].pc = "write"
    /\ caller' = [caller EXCEPT ![g] = IF proc[@.p].close = "open"
                                       THEN [@ EXCEPT !.pc = "resolve", !.p = 0] ELSE IdleCaller]
    /\ UNCHANGED <<current, made, inst, config, procs, proc, request, reports, operator>>

\* Wrong variant: the registry's answer is not looked at.
IsResolved(p) == TRUE

IsPending(p) == request[p] = "pending"

Resolves(g) ==
    LET r == caller[g].req IN
    /\ caller[g].pc = "resolve"
    /\ caller' = [caller EXCEPT ![g] = IdleCaller]
    /\ IF IsPending(r)
       THEN /\ request' = [request EXCEPT ![r] = "resolved"]
            /\ reports' = [reports EXCEPT ![r] = @ + 1]
       ELSE UNCHANGED <<request, reports>>
    /\ UNCHANGED <<current, made, inst, config, procs, proc, operator>>
-----------------------------------------------------------------------------
(***************************************************************************)
(* Remove, Recycle and ApplyLaunchConfig                                   *)
(***************************************************************************)
Removes(o) ==
    /\ operator[o].pc = "idle"
    /\ operator' = [operator EXCEPT ![o] = [IdleOperator EXCEPT !.pc = "expire", !.inst = current]]
    /\ current' = 0
    /\ UNCHANGED <<made, inst, config, procs, proc, request, reports, caller>>

RemoveExpires(o) ==
    /\ operator[o].pc = "expire"
    /\ ExpireAll
    /\ operator' = [operator EXCEPT ![o].pc = IF operator[o].inst = 0 THEN "configure"
                                                   ELSE "read"]
    /\ UNCHANGED <<current, made, inst, config, procs, proc, caller>>

RemoveReads(o) ==
    LET c == inst[operator[o].inst].client IN
    /\ operator[o].pc = "read"
    /\ operator' = [operator EXCEPT ![o] =
                     [@ EXCEPT !.pc = IF c = 0 THEN "configure" ELSE "close", !.inst = 0, !.p = c]]
    /\ UNCHANGED <<current, made, inst, config, procs, proc, request, reports, caller>>

Closes(o) ==
    /\ operator[o].pc = "close"
    /\ CloseOnce(operator[o].p)
    /\ operator' = [operator EXCEPT ![o].pc = "wait"]
    /\ UNCHANGED <<current, made, inst, config, procs, request, reports, caller>>

\* Close has returned, and WaitTimeout at the latest after five seconds.
Waited(o) ==
    /\ operator[o].pc = "wait"
    /\ proc[operator[o].p].close = "handled"
    /\ operator' = [operator EXCEPT ![o] = IF @.applying THEN IdleOperator
                                           ELSE [@ EXCEPT !.pc = "configure", !.p = 0]]
    /\ UNCHANGED <<current, made, inst, config, procs, proc, request, reports, caller>>

\* Recycle and RestartRuntime configure the workspace again, Delete does not.
Configures(o) ==
    /\ operator[o].pc = "configure"
    /\ \/ UNCHANGED <<current, made>>
       \/ /\ current = 0
          /\ made < MaxInstances
          /\ made' = made + 1
          /\ current' = made'
    /\ operator' = [operator EXCEPT ![o] = IdleOperator]
    /\ UNCHANGED <<inst, config, procs, proc, request, reports, caller>>

\* Wrong variant: the state is reset only when the process has ended.
AppliedKeepsStatus(i) ==
    [inst[i] EXCEPT !.client = 0, !.expectClose = @ \/ inst[i].client # 0]

AppliedInstance(i) ==
    [client |-> 0, status |-> "stopped",
     expectClose |-> inst[i].expectClose \/ inst[i].client # 0]

AppliesLaunchConfig(o) ==
    /\ operator[o].pc = "idle"
    /\ config < MaxConfigs
    /\ config' = config + 1
    /\ IF current = 0
       THEN UNCHANGED <<inst, operator>>
       ELSE LET c == inst[current].client IN
            /\ inst' = [inst EXCEPT ![current] = AppliedInstance(current)]
            /\ operator' = IF c = 0 THEN operator
                           ELSE [operator EXCEPT ![o] = [pc |-> "close", inst |-> 0,
                                                         p |-> c, applying |-> TRUE]]
    /\ UNCHANGED <<current, made, procs, proc, request, reports, caller>>
-----------------------------------------------------------------------------
Closing(p) == SeesExit(p) \/ CloseExpires(p) \/ HandleClosed(p)

ProcStep(p) == Dies(p) \/ Closing(p) \/ HandleRequest(p)

StartStep(g) ==
    FindsClient(g) \/ BeginsStart(g) \/ Spawns(g) \/ Initialized(g) \/ Abandons(g)
        \/ StartFails(g) \/ Installs(g)

CallerStep(g) ==
    \/ \E p \in Procs : GetRequest(g, p)
    \/ Lookup(g) \/ StartStep(g) \/ ReadsClient(g) \/ Responds(g) \/ Resolves(g)

RemoveStep(o) == RemoveExpires(o) \/ RemoveReads(o) \/ Closes(o) \/ Waited(o) \/ Configures(o)

OperatorStep(o) == Removes(o) \/ RemoveStep(o) \/ AppliesLaunchConfig(o)

Next ==
    \/ \E p \in Procs : ProcStep(p)
    \/ \E g \in Callers : CallerStep(g)
    \/ \E o \in Operators : OperatorStep(o)

Spec == Init /\ [][Next]_vars

\* Goroutines go on; nobody has to begin a call or an operation, processes
\* need neither end nor answer, but a call that waits for one gives up.
FairSpec ==
    /\ Spec
    /\ \A p \in Procs : WF_vars(Closing(p))
    /\ \A g \in Callers : WF_vars(caller[g].pc # "idle" /\ CallerStep(g))
    /\ \A o \in Operators : WF_vars(RemoveStep(o))
-----------------------------------------------------------------------------
InstanceStates ==
    [client : 0 .. procs, status : {"stopped", "starting", "ready", "error"},
     expectClose : BOOLEAN]

ProcessStates ==
    [inst : 0 .. made, alive : BOOLEAN, close : {"open", "closing", "expired", "handled"}]

CallerStates == [pc : CallerSteps, inst : 0 .. made, p : 0 .. procs, req : 0 .. MaxProcs]

OperatorStates == [pc : OperatorSteps, inst : 0 .. made, p : 0 .. procs, applying : BOOLEAN]

TypeOK ==
    /\ made \in Instances /\ current \in 0 .. made
    /\ config \in 0 .. MaxConfigs
    /\ procs \in 0 .. MaxProcs
    /\ inst \in [Instances -> InstanceStates]
    /\ proc \in [Procs -> ProcessStates]
    /\ request \in [Procs -> {"none", "pending", "resolved", "expired"}]
    /\ reports \in [Procs -> Nat]
    /\ caller \in [Callers -> CallerStates]
    /\ operator \in [Operators -> OperatorStates]

Running(p) == proc[p].alive /\ proc[p].close = "open"

(***************************************************************************)
(* An instance that says "ready" has a client, whatever starts, closings   *)
(* and configuration changes overlap.                                      *)
(***************************************************************************)
ReadyHasClient == \A i \in Instances : inst[i].status = "ready" => inst[i].client # 0

(***************************************************************************)
(* An instance that says "starting" is being started by somebody: no path  *)
(* out of ensureStarted leaves the state behind.                           *)
(***************************************************************************)
StartingIsUnderWay ==
    \A i \in Instances : inst[i].status = "starting" =>
        \E g \in Callers : caller[g].inst = i /\ caller[g].pc \in StartSteps

(***************************************************************************)
(* The browser hears of each request's end once: answered by two users,    *)
(* expired by a closing and by a removal, it leaves the registry in one    *)
(* step only.                                                              *)
(***************************************************************************)
SettledOnce ==
    \A p \in Procs : reports[p] = IF request[p] \in {"resolved", "expired"} THEN 1 ELSE 0

(***************************************************************************)
(* A process that runs is somebody's: an instance has it as its client, a  *)
(* caller is starting it, or an operator is about to close it.  The only   *)
(* ones nobody knows of any more are those whose instance has been given a *)
(* second process by an overlapping start, where the client was replaced   *)
(* (Installs) or cleared by the end of the other one (HandleClosed).       *)
(***************************************************************************)
ProcessHasOwner ==
    \A p \in Procs : Running(p) =>
        \/ \E i \in Instances : inst[i].client = p
        \/ \E g \in Callers : caller[g].pc \in {"init", "started"} /\ caller[g].p = p
        \/ \E o \in Operators : operator[o].pc = "close" /\ operator[o].p = p
        \/ \E q \in Procs \ {p} : proc[q].inst = proc[p].inst

(***************************************************************************)
(* A client whose end has been handled is nobody's client any more         *)
(* (manager_test TestManagerTransitionsToErrorWhenRuntimeExitsUnexpectedly *)
(* waits for the state to leave "ready").                                  *)
(***************************************************************************)
NoDeadClient ==
    \A i \in Instances : inst[i].client # 0 => proc[inst[i].client].close # "handled"

(***************************************************************************)
(* Calls, answers and removals come back, with the starts, the closings    *)
(* and each other's Once in between.                                       *)
(***************************************************************************)
OperationsReturn ==
    /\ \A g \in Callers : (caller[g].pc # "idle") ~> (caller[g].pc = "idle")
    /\ \A o \in Operators : (operator[o].pc # "idle") ~> (operator[o].pc = "idle")
=============================================================================
