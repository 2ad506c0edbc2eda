------------------------ MODULE RuntimeManagerProofs ------------------------
(***************************************************************************)
(* Proofs about RuntimeManager for any number of callers, operators,       *)
(* instances, processes and configuration changes.  The strengthening says *)
(* who must know what: a step that uses an instance or a process has one   *)
(* (Located), and a client, or a process being started, is of the instance *)
(* it is for (Belongs); so a process that is replaced or cleared as client *)
(* leaves behind another process of the same instance.                     *)
(***************************************************************************)
EXTENDS RuntimeManager, TLAPS

\* Whoever is past the lookup knows its instance, whoever waits for a process,
\* writes to one or closes one knows it.
Located ==
    /\ \A g \in Callers :
          /\ caller[g].pc \in StartSteps \cup {"looked", "ready"} => caller[g].inst # 0
          /\ caller[g].pc \in {"init", "started", "write"} => caller[g].p # 0
    /\ \A o \in Operators :
          /\ operator[o].pc = "read" => operator[o].inst # 0
          /\ operator[o].pc \in {"close", "wait"} => operator[o].p # 0

\* A process is in its instance's hands, or in those of a caller that starts it
\* for that instance.
Belongs ==
    /\ \A i \in Instances : inst[i].client # 0 => proc[inst[i].client].inst = i
    /\ \A g \in Callers : caller[g].pc \in {"init", "started"} =>
          proc[caller[g].p].inst = caller[g].inst
    /\ \A p \in Procs :
          IF p <= procs THEN proc[p].inst # 0 ELSE proc[p].inst = 0 /\ ~proc[p].alive

RuntimeInv ==
    /\ TypeOK
    /\ Located
    /\ Belongs
    /\ ReadyHasClient
    /\ StartingIsUnderWay
    /\ SettledOnce
    /\ ProcessHasOwner
-----------------------------------------------------------------------------
(* A value put into a function whose set of values may grow.               *)
LEMMA PutAt ==
    ASSUME NEW S, NEW T, NEW U, T \subseteq U, NEW f \in [S -> T], NEW x, NEW v \in U
    PROVE  [f EXCEPT ![x] = v] \in [S -> U]
  OBVIOUS

(* A function's set of values may grow.                                    *)
LEMMA Widened ==
    ASSUME NEW S, NEW T, NEW U, T \subseteq U, NEW f \in [S -> T]
    PROVE  f \in [S -> U]
  OBVIOUS

(* Instances and processes only become more.                               *)
LEMMA Growth ==
    ASSUME TypeOK, made' \in Nat, procs' \in Nat, made <= made', procs <= procs'
    PROVE  /\ InstanceStates \subseteq InstanceStates'
           /\ ProcessStates \subseteq ProcessStates'
           /\ CallerStates \subseteq CallerStates'
           /\ OperatorStates \subseteq OperatorStates'
  <1> USE RuntimeAssumption
  <1>1. 0 .. made \subseteq 0 .. made' /\ 0 .. procs \subseteq 0 .. procs'
    BY DEF TypeOK, Instances
  <1> QED
    BY <1>1 DEF InstanceStates, ProcessStates, CallerStates, OperatorStates

(* Most steps make neither an instance nor a process.                      *)
LEMMA SameBounds ==
    ASSUME made' = made, procs' = procs
    PROVE  /\ InstanceStates = InstanceStates'
           /\ ProcessStates = ProcessStates'
           /\ CallerStates = CallerStates'
           /\ OperatorStates = OperatorStates'
  BY DEF InstanceStates, ProcessStates, CallerStates, OperatorStates

(* What HandleClosed and ApplyLaunchConfig leave behind, and the records   *)
(* of those who have returned.                                             *)
LEMMA Records ==
    ASSUME TypeOK
    PROVE  /\ \A i : ClosedInstance(i) \in InstanceStates
           /\ \A i \in Instances : AppliedInstance(i) \in InstanceStates
           /\ IdleCaller \in CallerStates
           /\ IdleOperator \in OperatorStates
  <1> USE RuntimeAssumption DEF TypeOK, Instances
  <1>1. 0 \in 0 .. procs /\ 0 \in 0 .. made
    OBVIOUS
  <1>2. \A i : ClosedInstance(i) \in InstanceStates
    BY <1>1 DEF ClosedInstance, InstanceStates
  <1>3. ASSUME NEW i \in Instances PROVE AppliedInstance(i) \in InstanceStates
    <2>1. inst[i].expectClose \in BOOLEAN
      BY <1>3 DEF InstanceStates
    <2>2. (inst[i].expectClose \/ inst[i].client # 0) \in BOOLEAN
      BY <2>1
    <2> QED
      BY <1>1, <2>2 DEF AppliedInstance, InstanceStates
  <1>4. IdleCaller \in CallerStates
    BY <1>1 DEF IdleCaller, CallerStates, CallerSteps
  <1>5. IdleOperator \in OperatorStates
    BY <1>1 DEF IdleOperator, OperatorStates, OperatorSteps
  <1> QED
    BY <1>2, <1>3, <1>4, <1>5

(* The changes that the steps of ensureStarted, Call and Respond make to   *)
(* where a caller is.                                                      *)
LEMMA CallerRecords ==
    ASSUME NEW r \in CallerStates, NEW s \in CallerSteps, NEW i \in 0 .. made,
           NEW p \in 0 .. procs
    PROVE  /\ [r EXCEPT !.pc = s] \in CallerStates
           /\ [r EXCEPT !.pc = s, !.inst = i] \in CallerStates
           /\ [r EXCEPT !.pc = s, !.p = p] \in CallerStates
           /\ [r EXCEPT !.pc = s, !.inst = i, !.p = p] \in CallerStates
           /\ \A q \in 0 .. MaxProcs : [r EXCEPT !.pc = s, !.req = q] \in CallerStates
  BY DEF CallerStates

(* The changes that the steps of Remove, Recycle and ApplyLaunchConfig     *)
(* make to where an operator is.                                           *)
LEMMA OperatorRecords ==
    ASSUME NEW r \in OperatorStates, NEW s \in OperatorSteps, NEW i \in 0 .. made,
           NEW p \in 0 .. procs
    PROVE  /\ [r EXCEPT !.pc = s] \in OperatorStates
           /\ [r EXCEPT !.pc = s, !.inst = i] \in OperatorStates
           /\ [r EXCEPT !.pc = s, !.p = p] \in OperatorStates
           /\ [r EXCEPT !.pc = s, !.inst = i, !.p = p] \in OperatorStates
           /\ [pc |-> s, inst |-> i, p |-> p, applying |-> TRUE] \in OperatorStates
  BY RuntimeAssumption DEF OperatorStates

(* ensureStarted sets the state, with the client or without it.            *)
LEMMA InstStatus ==
    ASSUME NEW f \in [Instances -> InstanceStates], NEW i, NEW c \in 0 .. procs,
           NEW t \in {"stopped", "starting", "ready", "error"}
    PROVE  /\ [f EXCEPT ![i].status = t] \in [Instances -> InstanceStates]
           /\ [f EXCEPT ![i].client = c, ![i].status = t] \in [Instances -> InstanceStates]
  <1>1. CASE i \in Instances
    BY <1>1 DEF InstanceStates
  <1>2. CASE i \notin Instances
    BY <1>2
  <1> QED
    BY <1>1, <1>2

(* A bridge goes on with its closing (closeWithError).                     *)
LEMMA ProcState ==
    ASSUME NEW f \in [Procs -> ProcessStates], NEW q,
           NEW t \in {"open", "closing", "expired", "handled"}
    PROVE  /\ [f EXCEPT ![q].close = t] \in [Procs -> ProcessStates]
           /\ [f EXCEPT ![q].close = t, ![q].alive = FALSE] \in [Procs -> ProcessStates]
  <1>1. CASE q \in Procs
    BY <1>1 DEF ProcessStates
  <1>2. CASE q \notin Procs
    BY <1>2
  <1> QED
    BY <1>1, <1>2

(* One instance, nothing started (NewManagerWithLaunchConfig, Configure).  *)
LEMMA InitRuntimeInv == Init => RuntimeInv
  <1> SUFFICES ASSUME Init PROVE RuntimeInv
    OBVIOUS
  <1> USE RuntimeAssumption DEF Init
  <1>1. TypeOK
    <2>1. /\ made \in Instances /\ current \in 0 .. made /\ config \in 0 .. MaxConfigs
          /\ procs \in 0 .. MaxProcs /\ 0 \in 0 .. made /\ 0 \in 0 .. procs
      BY DEF Instances
    <2>2. Stopped \in InstanceStates
      BY <2>1 DEF Stopped, InstanceStates
    <2>3. [inst |-> 0, alive |-> FALSE, close |-> "open"] \in ProcessStates
      BY <2>1 DEF ProcessStates
    <2>4. IdleCaller \in CallerStates
      BY <2>1 DEF IdleCaller, CallerStates, CallerSteps
    <2>5. IdleOperator \in OperatorStates
      BY <2>1 DEF IdleOperator, OperatorStates, OperatorSteps
    <2> QED
      BY <2>1, <2>2, <2>3, <2>4, <2>5 DEF TypeOK
  <1>2. Located
    BY DEF Located, IdleCaller, IdleOperator, StartSteps
  <1>3. ReadyHasClient /\ StartingIsUnderWay /\ SettledOnce
    BY DEF ReadyHasClient, StartingIsUnderWay, SettledOnce, Stopped
  <1>4. Belongs /\ ProcessHasOwner
    BY DEF Belongs, ProcessHasOwner, Running, Stopped, IdleCaller, Procs
  <1> QED
    BY <1>1, <1>2, <1>3, <1>4 DEF RuntimeInv
-----------------------------------------------------------------------------
(* Every step of a process, its bridge and readStdout keeps the types.     *)
LEMMA ProcTypes ==
    ASSUME TypeOK, NEW p \in Procs, ProcStep(p)
    PROVE  TypeOK'
  <1> USE RuntimeAssumption
  <1>a. made' = made /\ procs' = procs
    BY DEF ProcStep, Closing, Dies, SeesExit, CloseExpires, HandleClosed, HandleRequest
  <1>b. /\ InstanceStates' = InstanceStates /\ ProcessStates' = ProcessStates
        /\ CallerStates' = CallerStates /\ OperatorStates' = OperatorStates
    BY <1>a, SameBounds
  <1>1. CASE Dies(p)
    <2>1. [proc[p] EXCEPT !.alive = FALSE] \in ProcessStates
      BY DEF TypeOK, ProcessStates
    <2>2. proc' \in [Procs -> ProcessStates]
      BY <1>1, <2>1, PutAt DEF Dies, TypeOK
    <2> QED
      BY <1>1, <1>b, <2>2 DEF Dies, TypeOK
  <1>2. CASE SeesExit(p)
    <2>1. [proc[p] EXCEPT !.close = "closing", !.alive = FALSE] \in ProcessStates
      BY DEF TypeOK, ProcessStates
    <2>2. proc' \in [Procs -> ProcessStates]
      BY <1>2, <2>1, PutAt DEF SeesExit, CloseOnce, TypeOK
    <2> QED
      BY <1>2, <1>b, <2>2 DEF SeesExit, TypeOK
  <1>3. CASE CloseExpires(p)
    <2>1. [proc[p] EXCEPT !.close = "expired"] \in ProcessStates
      BY DEF TypeOK, ProcessStates
    <2>2. proc' \in [Procs -> ProcessStates]
      BY <1>3, <2>1, PutAt DEF CloseExpires, TypeOK
    <2>3. /\ request' \in [Procs -> {"none", "pending", "resolved", "expired"}]
          /\ reports' \in [Procs -> Nat]
      BY <1>3 DEF CloseExpires, ExpireAll, TypeOK
    <2> QED
      BY <1>3, <1>b, <2>2, <2>3 DEF CloseExpires, TypeOK
  <1>4. CASE HandleClosed(p)
    <2>1. [proc[p] EXCEPT !.close = "handled"] \in ProcessStates
      BY DEF TypeOK, ProcessStates
    <2>2. proc' \in [Procs -> ProcessStates]
      BY <1>4, <2>1, PutAt DEF HandleClosed, TypeOK
    <2>3. inst' \in [Instances -> InstanceStates]
      BY <1>4, Records, PutAt DEF HandleClosed, TypeOK
    <2> QED
      BY <1>4, <1>b, <2>2, <2>3 DEF HandleClosed, TypeOK
  <1>5. CASE HandleRequest(p)
    <2>1. request' \in [Procs -> {"none", "pending", "resolved", "expired"}]
      BY <1>5 DEF HandleRequest, TypeOK
    <2> QED
      BY <1>5, <1>b, <2>1 DEF HandleRequest, TypeOK
  <1> QED
    BY <1>1, <1>2, <1>3, <1>4, <1>5 DEF ProcStep, Closing

(* So does every step of a caller,                                         *)
LEMMA CallerTypes ==
    ASSUME TypeOK, Located, NEW g \in Callers, CallerStep(g)
    PROVE  TypeOK'
  <1> USE RuntimeAssumption
  <1>0. IdleCaller \in CallerStates /\ caller[g] \in CallerStates
    BY Records DEF TypeOK
  <1>s. /\ {"lookup", "looked", "spawn", "init", "started", "abandon", "ready", "write", "resolve"}
             \subseteq CallerSteps
        /\ 0 \in 0 .. made /\ 0 \in 0 .. procs /\ current \in 0 .. made
    BY DEF TypeOK, Instances, CallerSteps, StartSteps
  <1>c. caller[g].p \in 0 .. procs
    BY <1>0 DEF CallerStates
  <1>1. CASE \E p \in Procs : GetRequest(g, p)
    <2>p. PICK p \in Procs : GetRequest(g, p)
      BY <1>1
    <2>1. p \in 0 .. MaxProcs
      BY DEF Procs
    <2>2. [IdleCaller EXCEPT !.pc = "lookup", !.req = p] \in CallerStates
      BY <1>0, <1>s, <2>1, CallerRecords
    <2>3. caller' \in [Callers -> CallerStates]
      BY <2>p, <2>2, PutAt DEF GetRequest, TypeOK
    <2>b. /\ InstanceStates' = InstanceStates /\ ProcessStates' = ProcessStates
          /\ CallerStates' = CallerStates /\ OperatorStates' = OperatorStates
      BY <1>1, SameBounds DEF GetRequest
    <2> QED
      BY <1>1, <2>b, <2>1, <2>2, <2>3 DEF GetRequest, TypeOK
  <1>2. CASE Lookup(g)
    <2>1. [caller[g] EXCEPT !.pc = "looked", !.inst = current] \in CallerStates
      BY <1>0, <1>s, CallerRecords
    <2>2. caller' \in [Callers -> CallerStates]
      BY <1>0, <1>2, <2>1, PutAt DEF Lookup, TypeOK
    <2>b. /\ InstanceStates' = InstanceStates /\ ProcessStates' = ProcessStates
          /\ CallerStates' = CallerStates /\ OperatorStates' = OperatorStates
      BY <1>2, SameBounds DEF Lookup
    <2> QED
      BY <1>2, <2>b, <2>1, <2>2 DEF Lookup, TypeOK
  <1>3. CASE FindsClient(g)
    <2>1. [caller[g] EXCEPT !.pc = "ready", !.p = 0] \in CallerStates
      BY <1>0, <1>s, CallerRecords
    <2>2. caller' \in [Callers -> CallerStates]
      BY <1>0, <1>3, <2>1, PutAt DEF FindsClient, HasClient, TypeOK
    <2>b. /\ InstanceStates' = InstanceStates /\ ProcessStates' = ProcessStates
          /\ CallerStates' = CallerStates /\ OperatorStates' = OperatorStates
      BY <1>3, SameBounds DEF FindsClient
    <2> QED
      BY <1>3, <2>b, <2>1, <2>2 DEF FindsClient, TypeOK
  <1>4. CASE BeginsStart(g)
    <2>1. [caller[g] EXCEPT !.pc = "spawn"] \in CallerStates
      BY <1>0, <1>s, CallerRecords
    <2>2. caller' \in [Callers -> CallerStates]
      BY <1>0, <1>4, <2>1, PutAt DEF BeginsStart, TypeOK
    <2>3. inst' \in [Instances -> InstanceStates]
      BY <1>4, <1>s, InstStatus DEF BeginsStart, TypeOK
    <2>b. /\ InstanceStates' = InstanceStates /\ ProcessStates' = ProcessStates
          /\ CallerStates' = CallerStates /\ OperatorStates' = OperatorStates
      BY <1>4, SameBounds DEF BeginsStart
    <2> QED
      BY <1>4, <2>b, <2>1, <2>2, <2>3 DEF BeginsStart, TypeOK
  <1>5. CASE Spawns(g)
    <2>1. /\ made' \in Nat /\ procs' \in Nat /\ made <= made' /\ procs <= procs'
          /\ procs' \in 0 .. MaxProcs /\ procs' \in 0 .. procs'
      BY <1>5 DEF Spawns, TypeOK, Instances
    <2>2. /\ InstanceStates \subseteq InstanceStates' /\ ProcessStates \subseteq ProcessStates'
          /\ CallerStates \subseteq CallerStates' /\ OperatorStates \subseteq OperatorStates'
      BY <2>1, Growth
    <2>3. [inst |-> caller[g].inst, alive |-> TRUE, close |-> "open"] \in ProcessStates'
      BY <1>0, <1>5 DEF Spawns, ProcessStates, CallerStates
    <2>4. [caller[g] EXCEPT !.pc = "init", !.p = procs'] \in CallerStates'
      <3>1. caller[g] \in CallerStates' /\ "init" \in CallerSteps /\ procs' \in 0 .. procs'
        BY <1>0, <1>s, <2>1, <2>2
      <3> QED
        BY <3>1 DEF CallerStates
    <2>5. proc' \in [Procs -> ProcessStates']
      BY <1>5, <2>2, <2>3, PutAt DEF Spawns, TypeOK
    <2>6. caller' \in [Callers -> CallerStates']
      BY <1>5, <2>2, <2>4, PutAt DEF Spawns, TypeOK
    <2>7. inst' \in [Instances -> InstanceStates'] /\ operator' \in [Operators -> OperatorStates']
      BY <1>5, <2>2, Widened DEF Spawns, TypeOK
    <2> QED
      BY <1>5, <2>1, <2>5, <2>6, <2>7 DEF Spawns, TypeOK
  <1>6. CASE Initialized(g)
    <2>1. [caller[g] EXCEPT !.pc = "started"] \in CallerStates
      BY <1>0, <1>s, CallerRecords
    <2>2. caller' \in [Callers -> CallerStates]
      BY <1>0, <1>6, <2>1, PutAt DEF Initialized, TypeOK
    <2>b. /\ InstanceStates' = InstanceStates /\ ProcessStates' = ProcessStates
          /\ CallerStates' = CallerStates /\ OperatorStates' = OperatorStates
      BY <1>6, SameBounds DEF Initialized
    <2> QED
      BY <1>6, <2>b, <2>1, <2>2 DEF Initialized, TypeOK
  <1>7. CASE Abandons(g)
    <2>1. [caller[g] EXCEPT !.pc = "abandon"] \in CallerStates
      BY <1>0, <1>s, CallerRecords
    <2>2. caller' \in [Callers -> CallerStates]
      BY <1>0, <1>7, <2>1, PutAt DEF Abandons, TypeOK
    <2>3. proc' \in [Procs -> ProcessStates]
      BY <1>7, ProcState DEF Abandons, CloseOnce, TypeOK
    <2>b. /\ InstanceStates' = InstanceStates /\ ProcessStates' = ProcessStates
          /\ CallerStates' = CallerStates /\ OperatorStates' = OperatorStates
      BY <1>7, SameBounds DEF Abandons
    <2> QED
      BY <1>7, <2>b, <2>1, <2>2, <2>3 DEF Abandons, TypeOK
  <1>8. CASE StartFails(g)
    <2>1. caller' \in [Callers -> CallerStates]
      BY <1>0, <1>8, PutAt DEF StartFails, TypeOK
    <2>2. inst' \in [Instances -> InstanceStates]
      BY <1>8, <1>s, InstStatus DEF StartFails, TypeOK
    <2>b. /\ InstanceStates' = InstanceStates /\ ProcessStates' = ProcessStates
          /\ CallerStates' = CallerStates /\ OperatorStates' = OperatorStates
      BY <1>8, SameBounds DEF StartFails
    <2> QED
      BY <1>8, <2>b, <2>1, <2>2 DEF StartFails, TypeOK
  <1>9. CASE Installs(g)
    <2>1. [caller[g] EXCEPT !.pc = "ready", !.p = 0] \in CallerStates
      BY <1>0, <1>s, CallerRecords
    <2>2. caller' \in [Callers -> CallerStates]
      BY <1>0, <1>9, <2>1, PutAt DEF Installs, HasClient, TypeOK
    <2>3. inst' \in [Instances -> InstanceStates]
      BY <1>0, <1>9, <1>c, InstStatus DEF Installs, TypeOK
    <2>b. /\ InstanceStates' = InstanceStates /\ ProcessStates' = ProcessStates
          /\ CallerStates' = CallerStates /\ OperatorStates' = OperatorStates
      BY <1>9, SameBounds DEF Installs
    <2> QED
      BY <1>9, <2>b, <2>1, <2>2, <2>3 DEF Installs, TypeOK
  <1>10. CASE ReadsClient(g)
    <2>1. \A c \in 0 .. procs : [caller[g] EXCEPT !.pc = "write", !.inst = 0, !.p = c] \in CallerStates
      BY <1>0, <1>s, CallerRecords
    <2>2. caller[g].inst \in Instances
      <3>1. caller[g].inst \in 0 .. made /\ made \in Instances
        BY <1>0 DEF CallerStates, TypeOK
      <3>2. caller[g].inst # 0
        BY <1>10 DEF ReadsClient, Located
      <3> QED
        BY <3>1, <3>2 DEF Instances
    <2>3. inst[caller[g].inst].client \in 0 .. procs
      BY <2>2 DEF TypeOK, InstanceStates
    <2>4. caller' \in [Callers -> CallerStates]
      BY <1>0, <1>10, <2>1, <2>3, PutAt DEF ReadsClient, TypeOK
    <2>b. /\ InstanceStates' = InstanceStates /\ ProcessStates' = ProcessStates
          /\ CallerStates' = CallerStates /\ OperatorStates' = OperatorStates
      BY <1>10, SameBounds DEF ReadsClient
    <2> QED
      BY <1>10, <2>b, <2>1, <2>2, <2>3, <2>4 DEF ReadsClient, TypeOK
  <1>11. CASE Responds(g)
    <2>1. [caller[g] EXCEPT !.pc = "resolve", !.p = 0] \in CallerStates
      BY <1>0, <1>s, CallerRecords
    <2>2. caller' \in [Callers -> CallerStates]
      BY <1>0, <1>11, <2>1, PutAt DEF Responds, TypeOK
    <2>b. /\ InstanceStates' = InstanceStates /\ ProcessStates' = ProcessStates
          /\ CallerStates' = CallerStates /\ OperatorStates' = OperatorStates
      BY <1>11, SameBounds DEF Responds
    <2> QED
      BY <1>11, <2>b, <2>1, <2>2 DEF Responds, TypeOK
  <1>12. CASE Resolves(g)
    <2>1. caller' \in [Callers -> CallerStates]
      BY <1>0, <1>12, PutAt DEF Resolves, TypeOK
    <2>2. request' \in [Procs -> {"none", "pending", "resolved", "expired"}] /\ reports' \in [Procs -> Nat]
      BY <1>12 DEF Resolves, IsPending, TypeOK
    <2>b. /\ InstanceStates' = InstanceStates /\ ProcessStates' = ProcessStates
          /\ CallerStates' = CallerStates /\ OperatorStates' = OperatorStates
      BY <1>12, SameBounds DEF Resolves
    <2> QED
      BY <1>12, <2>b, <2>1, <2>2 DEF Resolves, TypeOK
  <1> QED
    BY <1>1, <1>2, <1>3, <1>4, <1>5, <1>6, <1>7, <1>8, <1>9, <1>10, <1>11, <1>12
    DEF CallerStep, StartStep

(* and of an operator.                                                     *)
LEMMA OperatorTypes ==
    ASSUME TypeOK, Located, NEW o \in Operators, OperatorStep(o)
    PROVE  TypeOK'
  <1> USE RuntimeAssumption
  <1>0. IdleOperator \in OperatorStates /\ operator[o] \in OperatorStates
    BY Records DEF TypeOK
  <1>s. /\ {"expire", "read", "close", "wait", "configure"} \subseteq OperatorSteps
        /\ 0 \in 0 .. made /\ 0 \in 0 .. procs /\ current \in 0 .. made /\ made \in Nat
    BY DEF TypeOK, Instances, OperatorSteps
  <1>1. CASE Removes(o)
    <2>1. [IdleOperator EXCEPT !.pc = "expire", !.inst = current] \in OperatorStates
      BY <1>0, <1>s, OperatorRecords
    <2>2. operator' \in [Operators -> OperatorStates]
      BY <1>1, <2>1, PutAt DEF Removes, TypeOK
    <2>b. /\ InstanceStates' = InstanceStates /\ ProcessStates' = ProcessStates
          /\ CallerStates' = CallerStates /\ OperatorStates' = OperatorStates
      BY <1>1, SameBounds DEF Removes
    <2> QED
      BY <1>1, <1>s, <2>b, <2>2 DEF Removes, TypeOK
  <1>2. CASE RemoveExpires(o)
    <2>1. /\ [operator[o] EXCEPT !.pc = "configure"] \in OperatorStates
          /\ [operator[o] EXCEPT !.pc = "read"] \in OperatorStates
      BY <1>0, <1>s, OperatorRecords
    <2>2. operator' \in [Operators -> OperatorStates]
      BY <1>2, <2>1, PutAt DEF RemoveExpires, TypeOK
    <2>3. /\ request' \in [Procs -> {"none", "pending", "resolved", "expired"}]
          /\ reports' \in [Procs -> Nat]
      BY <1>2 DEF RemoveExpires, ExpireAll, TypeOK
    <2>b. /\ InstanceStates' = InstanceStates /\ ProcessStates' = ProcessStates
          /\ CallerStates' = CallerStates /\ OperatorStates' = OperatorStates
      BY <1>2, SameBounds DEF RemoveExpires
    <2> QED
      BY <1>2, <2>b, <2>2, <2>3 DEF RemoveExpires, TypeOK
  <1>3. CASE RemoveReads(o)
    <2>1. operator[o].inst \in Instances
      <3>1. operator[o].inst \in 0 .. made /\ made \in Instances
        BY <1>0 DEF OperatorStates, TypeOK
      <3>2. operator[o].inst # 0
        BY <1>3 DEF RemoveReads, Located
      <3> QED
        BY <3>1, <3>2 DEF Instances
    <2>2. inst[operator[o].inst].client \in 0 .. procs
      BY <2>1 DEF TypeOK, InstanceStates
    <2>3. \A c \in 0 .. procs :
             /\ [operator[o] EXCEPT !.pc = "configure", !.inst = 0, !.p = c] \in OperatorStates
             /\ [operator[o] EXCEPT !.pc = "close", !.inst = 0, !.p = c] \in OperatorStates
      BY <1>0, <1>s, OperatorRecords
    <2>4. operator' \in [Operators -> OperatorStates]
      BY <1>3, <2>2, <2>3, PutAt DEF RemoveReads, TypeOK
    <2>b. /\ InstanceStates' = InstanceStates /\ ProcessStates' = ProcessStates
          /\ CallerStates' = CallerStates /\ OperatorStates' = OperatorStates
      BY <1>3, SameBounds DEF RemoveReads
    <2> QED
      BY <1>3, <2>b, <2>4 DEF RemoveReads, TypeOK
  <1>4. CASE Closes(o)
    <2>1. [operator[o] EXCEPT !.pc = "wait"] \in OperatorStates
      BY <1>0, <1>s, OperatorRecords
    <2>2. operator' \in [Operators -> OperatorStates]
      BY <1>4, <2>1, PutAt DEF Closes, TypeOK
    <2>3. proc' \in [Procs -> ProcessStates]
      BY <1>4, ProcState DEF Closes, CloseOnce, TypeOK
    <2>b. /\ InstanceStates' = InstanceStates /\ ProcessStates' = ProcessStates
          /\ CallerStates' = CallerStates /\ OperatorStates' = OperatorStates
      BY <1>4, SameBounds DEF Closes
    <2> QED
      BY <1>4, <2>b, <2>2, <2>3 DEF Closes, TypeOK
  <1>5. CASE Waited(o)
    <2>1. [operator[o] EXCEPT !.pc = "configure", !.p = 0] \in OperatorStates
      BY <1>0, <1>s, OperatorRecords
    <2>2. operator' \in [Operators -> OperatorStates]
      BY <1>0, <1>5, <2>1, PutAt DEF Waited, TypeOK
    <2>b. /\ InstanceStates' = InstanceStates /\ ProcessStates' = ProcessStates
          /\ CallerStates' = CallerStates /\ OperatorStates' = OperatorStates
      BY <1>5, SameBounds DEF Waited
    <2> QED
      BY <1>5, <2>b, <2>2 DEF Waited, TypeOK
  <1>6. CASE Configures(o)
    <2>1. /\ made' \in Instances /\ current' \in 0 .. made' /\ made <= made' /\ made' \in Nat
          /\ procs' = procs /\ procs \in Nat
      BY <1>6 DEF Configures, TypeOK, Instances
    <2>2. /\ InstanceStates \subseteq InstanceStates' /\ ProcessStates \subseteq ProcessStates'
          /\ CallerStates \subseteq CallerStates' /\ OperatorStates \subseteq OperatorStates'
      BY <2>1, Growth
    <2>3. operator' \in [Operators -> OperatorStates']
      BY <1>0, <1>6, <2>2, PutAt DEF Configures, TypeOK
    <2>4. /\ inst' \in [Instances -> InstanceStates'] /\ proc' \in [Procs -> ProcessStates']
          /\ caller' \in [Callers -> CallerStates']
      BY <1>6, <2>2, Widened DEF Configures, TypeOK
    <2> QED
      BY <1>6, <2>1, <2>3, <2>4 DEF Configures, TypeOK
  <1>7. CASE AppliesLaunchConfig(o)
    <2>b. /\ InstanceStates' = InstanceStates /\ ProcessStates' = ProcessStates
          /\ CallerStates' = CallerStates /\ OperatorStates' = OperatorStates
      BY <1>7, SameBounds DEF AppliesLaunchConfig
    <2>0. config' \in 0 .. MaxConfigs
      BY <1>7 DEF AppliesLaunchConfig, TypeOK
    <2>1. CASE current = 0
      BY <1>7, <2>0, <2>b, <2>1 DEF AppliesLaunchConfig, TypeOK
    <2>2. CASE current # 0
      <3>1. current \in Instances
        BY <2>2 DEF TypeOK, Instances
      <3>2. inst' \in [Instances -> InstanceStates]
        BY <1>7, <2>2, <3>1, Records, PutAt DEF AppliesLaunchConfig, TypeOK
      <3>3. inst[current].client \in 0 .. procs
        BY <3>1 DEF TypeOK, InstanceStates
      <3>4. [pc |-> "close", inst |-> 0, p |-> inst[current].client, applying |-> TRUE]
               \in OperatorStates
        BY <1>0, <1>s, <3>3, OperatorRecords
      <3>5. operator' \in [Operators -> OperatorStates]
        BY <1>7, <2>2, <3>4, PutAt DEF AppliesLaunchConfig, TypeOK
      <3> QED
        BY <1>7, <2>0, <2>b, <3>2, <3>5 DEF AppliesLaunchConfig, TypeOK
    <2> QED
      BY <2>1, <2>2
  <1> QED
    BY <1>1, <1>2, <1>3, <1>4, <1>5, <1>6, <1>7 DEF OperatorStep, RemoveStep

(* Every step keeps the types. *)
LEMMA TypeStep ==
    ASSUME TypeOK, Located, [Next]_vars
    PROVE  TypeOK'
  <1>1. CASE UNCHANGED vars
    <2>1. /\ InstanceStates' = InstanceStates /\ ProcessStates' = ProcessStates
          /\ CallerStates' = CallerStates /\ OperatorStates' = OperatorStates
      BY <1>1, SameBounds DEF vars
    <2> QED
      BY <1>1, <2>1 DEF vars, TypeOK
  <1> QED
    BY <1>1, ProcTypes, CallerTypes, OperatorTypes DEF Next
-----------------------------------------------------------------------------
(* A caller moves itself only, and so does an operator.                    *)
LEMMA OtherCallers ==
    ASSUME TypeOK, [Next]_vars, NEW h \in Callers, ~CallerStep(h)
    PROVE  caller'[h] = caller[h]
  <1>1. caller \in [Callers -> CallerStates]
    BY DEF TypeOK
  <1>2. CASE \E g \in Callers : CallerStep(g)
    <2>1. PICK g \in Callers : CallerStep(g)
      BY <1>2
    <2>2. g # h
      BY <2>1
    <2> QED
      BY <1>1, <2>1, <2>2
      DEF CallerStep, StartStep, HasClient, GetRequest, Lookup, FindsClient,
          BeginsStart, Spawns, Initialized, Abandons, StartFails, Installs,
          ReadsClient, Responds, Resolves
  <1>3. CASE \E p \in Procs : ProcStep(p)
    BY <1>3
    DEF ProcStep, Closing, Dies, SeesExit, CloseExpires, HandleClosed, HandleRequest
  <1>4. CASE \E o \in Operators : OperatorStep(o)
    BY <1>4
    DEF OperatorStep, RemoveStep, Removes, RemoveExpires, RemoveReads, Closes, Waited,
        Configures, AppliesLaunchConfig
  <1> QED
    BY <1>2, <1>3, <1>4 DEF Next, vars

(* The same for operators.                                                 *)
LEMMA OtherOperators ==
    ASSUME TypeOK, [Next]_vars, NEW h \in Operators, ~OperatorStep(h)
    PROVE  operator'[h] = operator[h]
  <1>1. operator \in [Operators -> OperatorStates]
    BY DEF TypeOK
  <1>2. CASE \E o \in Operators : OperatorStep(o)
    <2>1. PICK o \in Operators : OperatorStep(o)
      BY <1>2
    <2>2. o # h
      BY <2>1
    <2> QED
      BY <1>1, <2>1, <2>2
      DEF OperatorStep, RemoveStep, Removes, RemoveExpires, RemoveReads, Closes,
          Waited, Configures, AppliesLaunchConfig
  <1>3. CASE \E p \in Procs : ProcStep(p)
    BY <1>3
    DEF ProcStep, Closing, Dies, SeesExit, CloseExpires, HandleClosed, HandleRequest
  <1>4. CASE \E g \in Callers : CallerStep(g)
    BY <1>4
    DEF CallerStep, StartStep, GetRequest, Lookup, FindsClient, BeginsStart, Spawns,
        Initialized, Abandons, StartFails, Installs, ReadsClient, Responds, Resolves
  <1> QED
    BY <1>2, <1>3, <1>4 DEF Next, vars

(* Nobody gets to a step that needs an instance or a process without it.   *)
LEMMA LocatedCaller ==
    ASSUME TypeOK, Located, NEW g \in Callers, CallerStep(g)
    PROVE  Located'
  <1> USE RuntimeAssumption DEF IdleCaller
  <1>1. operator' = operator /\ caller \in [Callers -> CallerStates]
    BY DEF TypeOK, CallerStep, StartStep, GetRequest, Lookup, FindsClient, BeginsStart,
        Spawns,
        Initialized, Abandons, StartFails, Installs, ReadsClient, Responds, Resolves
  <1>2. \A h \in Callers \ {g} : caller'[h] = caller[h]
    BY <1>1 DEF CallerStep, StartStep, GetRequest, Lookup, FindsClient, BeginsStart,
        Spawns,
        Initialized, Abandons, StartFails, Installs, ReadsClient, Responds, Resolves, HasClient
  <1>3. /\ caller'[g].pc \in StartSteps \cup {"looked", "ready"} => caller'[g].inst # 0
        /\ caller'[g].pc \in {"init", "started", "write"} => caller'[g].p # 0
    <2>1. CASE \E p \in Procs : GetRequest(g, p)
      BY <1>1, <2>1 DEF GetRequest, Located, StartSteps, CallerStates, TypeOK
    <2>2. CASE Lookup(g)
      BY <1>1, <2>2 DEF Lookup, Located, StartSteps, CallerStates, TypeOK
    <2>3. CASE FindsClient(g)
      BY <1>1, <2>3 DEF FindsClient, HasClient, Located, StartSteps, CallerStates, TypeOK
    <2>4. CASE BeginsStart(g)
      BY <1>1, <2>4 DEF BeginsStart, Located, StartSteps, CallerStates, TypeOK
    <2>5. CASE Spawns(g)
      BY <1>1, <2>5 DEF Spawns, Located, StartSteps, CallerStates, TypeOK
    <2>6. CASE Initialized(g)
      BY <1>1, <2>6 DEF Initialized, Located, StartSteps, CallerStates, TypeOK
    <2>7. CASE Abandons(g)
      BY <1>1, <2>7 DEF Abandons, Located, StartSteps, CallerStates, TypeOK
    <2>8. CASE StartFails(g)
      BY <1>1, <2>8 DEF StartFails, Located, StartSteps, CallerStates, TypeOK
    <2>9. CASE Installs(g)
      BY <1>1, <2>9 DEF Installs, HasClient, Located, StartSteps, CallerStates, TypeOK
    <2>10. CASE ReadsClient(g)
      BY <1>1, <2>10 DEF ReadsClient, Located, StartSteps, CallerStates, TypeOK
    <2>11. CASE Responds(g)
      BY <1>1, <2>11 DEF Responds, Located, StartSteps, CallerStates, TypeOK
    <2>12. CASE Resolves(g)
      BY <1>1, <2>12 DEF Resolves, Located, StartSteps, CallerStates, TypeOK
    <2> QED
      BY <2>1, <2>2, <2>3, <2>4, <2>5, <2>6, <2>7, <2>8, <2>9, <2>10, <2>11, <2>12 DEF
          CallerStep, StartStep
  <1> QED
    BY <1>1, <1>2, <1>3 DEF Located

(* The same for Remove, Recycle and ApplyLaunchConfig.                     *)
LEMMA LocatedOperator ==
    ASSUME TypeOK, Located, NEW o \in Operators, OperatorStep(o)
    PROVE  Located'
  <1> USE RuntimeAssumption DEF IdleOperator
  <1>1. caller' = caller /\ operator \in [Operators -> OperatorStates]
    BY DEF TypeOK, OperatorStep, RemoveStep, Removes, RemoveExpires, RemoveReads, Closes,
        Waited, Configures, AppliesLaunchConfig
  <1>2. \A h \in Operators \ {o} : operator'[h] = operator[h]
    BY <1>1 DEF OperatorStep, RemoveStep, Removes, RemoveExpires, RemoveReads, Closes,
        Waited, Configures, AppliesLaunchConfig
  <1>3. /\ operator'[o].pc = "read" => operator'[o].inst # 0
        /\ operator'[o].pc \in {"close", "wait"} => operator'[o].p # 0
    <2>1. CASE Removes(o)
      BY <1>1, <2>1 DEF Removes, Located, OperatorStates, TypeOK
    <2>2. CASE RemoveExpires(o)
      BY <1>1, <2>2 DEF RemoveExpires, Located, OperatorStates, TypeOK
    <2>3. CASE RemoveReads(o)
      BY <1>1, <2>3 DEF RemoveReads, Located, OperatorStates, TypeOK
    <2>4. CASE Closes(o)
      BY <1>1, <2>4 DEF Closes, Located, OperatorStates, TypeOK
    <2>5. CASE Waited(o)
      BY <1>1, <2>5 DEF Waited, Located, OperatorStates, TypeOK
    <2>6. CASE Configures(o)
      BY <1>1, <2>6 DEF Configures, Located, OperatorStates, TypeOK
    <2>7. CASE AppliesLaunchConfig(o)
      BY <1>1, <2>7 DEF AppliesLaunchConfig, Located, OperatorStates, TypeOK
    <2> QED
      BY <2>1, <2>2, <2>3, <2>4, <2>5, <2>6, <2>7 DEF OperatorStep, RemoveStep
  <1> QED
    BY <1>1, <1>2, <1>3 DEF Located

(* No step takes an instance or a process from whoever needs it.           *)
LEMMA LocatedStep ==
    ASSUME TypeOK, Located, [Next]_vars
    PROVE  Located'
  <1>1. CASE UNCHANGED <<caller, operator>>
    BY <1>1 DEF Located
  <1>2. CASE \E p \in Procs : ProcStep(p)
    BY <1>1, <1>2 DEF ProcStep, Closing, Dies, SeesExit, CloseExpires, HandleClosed,
        HandleRequest
  <1> QED
    BY <1>1, <1>2, LocatedCaller, LocatedOperator DEF Next, vars

(* A request leaves "pending" in the step that reports it, and no step takes
   it back there (resolveRequest, expireRequestsForWorkspace). *)
LEMMA SettledStep ==
    ASSUME TypeOK, SettledOnce, [Next]_vars
    PROVE  SettledOnce'
  <1> USE DEF SettledOnce
  <1>1. request \in [Procs -> {"none", "pending", "resolved", "expired"}]
        /\ reports \in [Procs -> Nat]
    BY DEF TypeOK
  <1>2. CASE ExpireAll
    BY <1>1, <1>2 DEF ExpireAll
  <1>3. CASE \E p \in Procs : HandleRequest(p)
    BY <1>1, <1>3 DEF HandleRequest
  <1>4. CASE \E g \in Callers : Resolves(g)
    <2>1. PICK g \in Callers : Resolves(g)
      BY <1>4
    <2> DEFINE r == caller[g].req
    <2>2. CASE IsPending(r)
      <3>1. request' = [request EXCEPT ![r] = "resolved"]
            /\ reports' = [reports EXCEPT ![r] = reports[r] + 1]
        BY <2>1, <2>2 DEF Resolves
      <3> QED
        BY <1>1, <2>2, <3>1 DEF IsPending
    <2>3. CASE ~IsPending(r)
      BY <2>1, <2>3 DEF Resolves
    <2> QED
      BY <2>2, <2>3
  <1>5. CASE UNCHANGED <<request, reports>>
    BY <1>5
  <1> QED
    BY <1>2, <1>3, <1>4, <1>5
    DEF Next, ProcStep, Closing, CallerStep, StartStep, OperatorStep, RemoveStep, vars,
        Dies,
        SeesExit, CloseExpires, HandleClosed, GetRequest, Lookup, FindsClient, BeginsStart,
        Spawns, Initialized, Abandons, StartFails, Installs, ReadsClient, Responds, Removes,
        RemoveExpires, RemoveReads, Closes, Waited, Configures, AppliesLaunchConfig

(* The sections that set "ready" set the client, and those that clear the
   client set another state (ensureStarted, HandleClosed, ApplyLaunchConfig). *)
LEMMA ReadyStep ==
    ASSUME TypeOK, Located, ReadyHasClient, [Next]_vars
    PROVE  ReadyHasClient'
  <1> USE DEF ReadyHasClient, TypeOK, InstanceStates
  <1>1. CASE \E p \in Procs : HandleClosed(p)
    BY <1>1 DEF HandleClosed, ClosedInstance
  <1>2. CASE \E g \in Callers : BeginsStart(g)
    BY <1>2 DEF BeginsStart
  <1>3. CASE \E g \in Callers : StartFails(g)
    BY <1>3 DEF StartFails
  <1>4. CASE \E g \in Callers : Installs(g)
    BY <1>4 DEF Installs, Located
  <1>5. CASE \E o \in Operators : AppliesLaunchConfig(o)
    BY <1>5 DEF AppliesLaunchConfig, AppliedInstance
  <1>6. CASE UNCHANGED inst
    BY <1>6
  <1> QED
    BY <1>1, <1>2, <1>3, <1>4, <1>5, <1>6
    DEF Next, ProcStep, Closing, CallerStep, StartStep, OperatorStep, RemoveStep, vars,
        Dies, SeesExit, CloseExpires, HandleRequest, GetRequest, Lookup, FindsClient,
        Spawns, Initialized, Abandons, ReadsClient, Responds, Resolves, Removes,
        RemoveExpires, RemoveReads, Closes, Waited, Configures

(* Whoever sets "starting" is in ensureStarted from then on, and takes the
   state away when it leaves. *)
LEMMA StartingStep ==
    ASSUME TypeOK, StartingIsUnderWay, [Next]_vars
    PROVE  StartingIsUnderWay'
  <1> USE DEF StartingIsUnderWay
  <1>1. /\ inst \in [Instances -> InstanceStates] /\ caller \in [Callers -> CallerStates]
    BY DEF TypeOK
  <1>2. SUFFICES ASSUME NEW i \in Instances, inst'[i].status = "starting"
                 PROVE  \E g \in Callers : caller'[g].inst = i /\ caller'[g].pc \in StartSteps
    OBVIOUS
  <1>3. CASE \E g \in Callers : BeginsStart(g)
    <2>1. PICK g \in Callers : BeginsStart(g)
      BY <1>3
    <2>2. CASE i = caller[g].inst
      BY <1>1, <2>1, <2>2 DEF BeginsStart, StartSteps, CallerStates
    <2>3. CASE i # caller[g].inst
      <3>1. inst[i].status = "starting"
        BY <1>1, <1>2, <2>1, <2>3 DEF BeginsStart, InstanceStates
      <3>2. PICK h \in Callers : caller[h].inst = i /\ caller[h].pc \in StartSteps
        BY <3>1
      <3> QED
        BY <1>1, <2>1, <2>3, <3>2 DEF BeginsStart, StartSteps, CallerStates
    <2> QED
      BY <2>2, <2>3
  <1>4. ASSUME ~(\E g \in Callers : BeginsStart(g))
        PROVE  inst[i].status = "starting"
    <2>1. CASE \E p \in Procs : HandleClosed(p)
      BY <1>1, <1>2, <2>1 DEF HandleClosed, ClosedInstance, InstanceStates
    <2>2. CASE \E g \in Callers : StartFails(g)
      BY <1>1, <1>2, <2>2 DEF StartFails, InstanceStates
    <2>3. CASE \E g \in Callers : Installs(g)
      BY <1>1, <1>2, <2>3 DEF Installs, InstanceStates
    <2>4. CASE \E o \in Operators : AppliesLaunchConfig(o)
      BY <1>1, <1>2, <2>4 DEF AppliesLaunchConfig, AppliedInstance, InstanceStates
    <2>5. CASE UNCHANGED inst
      BY <1>2, <2>5
    <2> QED
      BY <1>4, <2>1, <2>2, <2>3, <2>4, <2>5
      DEF Next, ProcStep, Closing, CallerStep, StartStep, OperatorStep, RemoveStep,
          vars, Dies, SeesExit, CloseExpires, HandleRequest, GetRequest, Lookup,
          FindsClient, Spawns, Initialized, Abandons, ReadsClient, Responds, Resolves,
          Removes, RemoveExpires, RemoveReads, Closes, Waited, Configures
  <1>5. ASSUME NEW g \in Callers, CallerStep(g), ~BeginsStart(g), inst[i].status = "starting",
               caller[g].inst = i, caller[g].pc \in StartSteps
        PROVE  caller'[g].inst = i /\ caller'[g].pc \in StartSteps
    <2>1. CASE Spawns(g)
      BY <1>1, <1>5, <2>1 DEF Spawns, StartSteps, CallerStates
    <2>2. CASE Initialized(g)
      BY <1>1, <1>5, <2>2 DEF Initialized, StartSteps, CallerStates
    <2>3. CASE Abandons(g)
      BY <1>1, <1>5, <2>3 DEF Abandons, StartSteps, CallerStates
    <2>4. CASE StartFails(g)
      BY <1>1, <1>2, <1>5, <2>4 DEF StartFails, InstanceStates
    <2>5. CASE Installs(g)
      BY <1>1, <1>2, <1>5, <2>5 DEF Installs, InstanceStates
    <2>6. ~(\E p \in Procs : GetRequest(g, p)) /\ ~Lookup(g) /\ ~FindsClient(g)
          /\ ~ReadsClient(g) /\ ~Responds(g) /\ ~Resolves(g)
      BY <1>5 DEF GetRequest, Lookup, FindsClient, ReadsClient, Responds, Resolves,
          StartSteps
    <2> QED
      BY <1>5, <2>1, <2>2, <2>3, <2>4, <2>5, <2>6 DEF CallerStep, StartStep
  <1>6. CASE ~(\E g \in Callers : BeginsStart(g))
    <2>1. PICK h \in Callers : caller[h].inst = i /\ caller[h].pc \in StartSteps
      BY <1>4, <1>6
    <2>2. CASE CallerStep(h)
      BY <1>4, <1>5, <1>6, <2>1, <2>2
    <2>3. CASE ~CallerStep(h)
      <3>1. caller'[h] = caller[h]
        BY <2>3, OtherCallers
      <3> QED
        BY <2>1, <3>1
    <2> QED
      BY <2>2, <2>3
  <1> QED
    BY <1>3, <1>6

(* Once started, a process keeps its instance and only loses its life.     *)
LEMMA ProcLife ==
    ASSUME TypeOK, [Next]_vars, NEW p \in Procs, ~(\E g \in Callers : Spawns(g))
    PROVE  /\ proc'[p].inst = proc[p].inst
           /\ proc'[p].alive => proc[p].alive
           /\ proc'[p].close = "open" => proc[p].close = "open"
  <1>1. proc \in [Procs -> ProcessStates]
    BY DEF TypeOK
  <1>2. CASE \E q \in Procs : Dies(q)
    BY <1>1, <1>2 DEF Dies, CloseOnce, ProcessStates
  <1>3. CASE \E q \in Procs : SeesExit(q)
    BY <1>1, <1>3 DEF SeesExit, CloseOnce, ProcessStates
  <1>4. CASE \E q \in Procs : CloseExpires(q)
    BY <1>1, <1>4 DEF CloseExpires, CloseOnce, ProcessStates
  <1>5. CASE \E q \in Procs : HandleClosed(q)
    BY <1>1, <1>5 DEF HandleClosed, CloseOnce, ProcessStates
  <1>6. CASE \E g \in Callers : Abandons(g)
    BY <1>1, <1>6 DEF Abandons, CloseOnce, ProcessStates
  <1>7. CASE \E o \in Operators : Closes(o)
    BY <1>1, <1>7 DEF Closes, CloseOnce, ProcessStates
  <1>8. CASE UNCHANGED proc
    BY <1>8
  <1> QED
    BY <1>2, <1>3, <1>4, <1>5, <1>6, <1>7, <1>8
    DEF Next, ProcStep, Closing, CallerStep, StartStep, OperatorStep, RemoveStep,
        vars, HandleRequest, GetRequest, Lookup, FindsClient, BeginsStart,
        Initialized, StartFails, Installs, ReadsClient, Responds, Resolves, Removes,
        RemoveExpires, RemoveReads, Waited, Configures, AppliesLaunchConfig

(* A process is started for one instance and stays its.                    *)
LEMMA ProcInstance ==
    ASSUME TypeOK, [Next]_vars, NEW q \in 1 .. procs
    PROVE  proc'[q].inst = proc[q].inst
  <1>1. proc \in [Procs -> ProcessStates] /\ q \in Procs /\ procs \in Nat
    BY RuntimeAssumption DEF TypeOK, Procs
  <1>2. CASE \E g \in Callers : Spawns(g)
    BY <1>1, <1>2 DEF Spawns
  <1> QED
    BY <1>1, <1>2, ProcLife

(* A client is installed by the caller that started it for the instance
   (ensureStarted), and otherwise only taken away. *)
LEMMA ClientStep ==
    ASSUME TypeOK, [Next]_vars, NEW i \in Instances, inst'[i].client # inst[i].client
    PROVE  \/ \E g \in Callers : /\ Installs(g) /\ caller[g].inst = i
                                   /\ inst'[i].client = caller[g].p
           \/ \E p \in Procs : HandleClosed(p) /\ proc[p].inst = i /\ inst'[i].client = 0
           \/ \E o \in Operators : /\ AppliesLaunchConfig(o) /\ current = i
                                     /\ inst'[i].client = 0
  <1>1. inst \in [Instances -> InstanceStates]
    BY DEF TypeOK
  <1>2. ASSUME NEW g \in Callers, Installs(g)
        PROVE  caller[g].inst = i /\ inst'[i].client = caller[g].p
    BY <1>1, <1>2 DEF Installs, InstanceStates
  <1>3. ASSUME NEW p \in Procs, HandleClosed(p)
        PROVE  proc[p].inst = i /\ inst'[i].client = 0
    BY <1>1, <1>3 DEF HandleClosed, ClosedInstance
  <1>4. ASSUME NEW o \in Operators, AppliesLaunchConfig(o)
        PROVE  current = i /\ inst'[i].client = 0
    BY <1>1, <1>4 DEF AppliesLaunchConfig, AppliedInstance
  <1>5. ASSUME NEW g \in Callers
        PROVE  ~BeginsStart(g) /\ ~StartFails(g)
    BY <1>1 DEF BeginsStart, StartFails, InstanceStates
  <1> QED
    BY <1>2, <1>3, <1>4, <1>5
    DEF Next, ProcStep, Closing, CallerStep, StartStep, OperatorStep, RemoveStep,
        vars, Dies, SeesExit, CloseExpires, HandleRequest, GetRequest, Lookup,
        FindsClient, Spawns, Initialized, Abandons, ReadsClient, Responds, Resolves,
        Removes, RemoveExpires, RemoveReads, Closes, Waited, Configures

(* A caller that starts a process does so for its own instance.            *)
LEMMA StarterStep ==
    ASSUME TypeOK, Located, [Next]_vars, NEW g \in Callers,
           caller'[g].pc \in {"init", "started"}
    PROVE  \/ Spawns(g) /\ caller'[g].p = procs' /\ caller'[g].inst = caller[g].inst
           \/ /\ caller[g].pc \in {"init", "started"}
              /\ caller'[g].p = caller[g].p /\ caller'[g].inst = caller[g].inst
  <1>1. caller \in [Callers -> CallerStates]
    BY DEF TypeOK
  <1>2. CASE ~CallerStep(g)
    BY <1>2, OtherCallers
  <1>3. CASE CallerStep(g)
    <2>1. CASE Spawns(g)
      BY <1>1, <2>1 DEF Spawns, CallerStates
    <2>2. CASE Initialized(g)
      BY <1>1, <2>2 DEF Initialized, CallerStates
    <2>3. CASE \E p \in Procs : GetRequest(g, p)
      BY <1>1, <2>3 DEF GetRequest, IdleCaller, CallerStates
    <2>4. CASE Lookup(g)
      BY <1>1, <2>4 DEF Lookup, IdleCaller, CallerStates
    <2>5. CASE FindsClient(g)
      BY <1>1, <2>5 DEF FindsClient, HasClient, IdleCaller, CallerStates
    <2>6. CASE BeginsStart(g)
      BY <1>1, <2>6 DEF BeginsStart, IdleCaller, CallerStates
    <2>7. CASE Abandons(g)
      BY <1>1, <2>7 DEF Abandons, IdleCaller, CallerStates
    <2>8. CASE StartFails(g)
      BY <1>1, <2>8 DEF StartFails, IdleCaller, CallerStates
    <2>9. CASE Installs(g)
      BY <1>1, <2>9 DEF Installs, HasClient, IdleCaller, CallerStates
    <2>10. CASE ReadsClient(g)
      BY <1>1, <2>10 DEF ReadsClient, IdleCaller, CallerStates
    <2>11. CASE Responds(g)
      BY <1>1, <2>11 DEF Responds, IdleCaller, CallerStates
    <2>12. CASE Resolves(g)
      BY <1>1, <2>12 DEF Resolves, IdleCaller, CallerStates
    <2> QED
      BY <1>3, <2>1, <2>2, <2>3, <2>4, <2>5, <2>6, <2>7, <2>8, <2>9, <2>10, <2>11, <2>12
      DEF CallerStep, StartStep
  <1> QED
    BY <1>2, <1>3

(* Clients and processes being started stay with their instance            *)
(* (ensureStarted).                                                        *)
LEMMA BelongsStep ==
    ASSUME TypeOK, Located, Belongs, [Next]_vars, TypeOK'
    PROVE  Belongs'
  <1> USE RuntimeAssumption
  <1>0. procs \in Nat /\ procs' \in 0 .. MaxProcs
    BY DEF TypeOK
  <1>1. ASSUME NEW i \in Instances, inst'[i].client # 0
        PROVE  proc'[inst'[i].client].inst = i
    <2>1. CASE inst'[i].client = inst[i].client
      <3>1. inst[i].client \in 1 .. procs
        BY <1>0, <1>1, <2>1 DEF TypeOK, InstanceStates
      <3> QED
        BY <1>1, <2>1, <3>1, ProcInstance DEF Belongs
    <2>2. CASE inst'[i].client # inst[i].client
      <3>1. PICK g \in Callers : /\ Installs(g) /\ caller[g].inst = i
                                 /\ inst'[i].client = caller[g].p
        BY <1>1, <2>2, ClientStep
      <3> QED
        BY <3>1 DEF Installs, Belongs
    <2> QED
      BY <2>1, <2>2
  <1>2. ASSUME NEW g \in Callers, caller'[g].pc \in {"init", "started"}
        PROVE  proc'[caller'[g].p].inst = caller'[g].inst
    <2>1. CASE Spawns(g) /\ caller'[g].p = procs' /\ caller'[g].inst = caller[g].inst
      BY <1>0, <2>1 DEF Spawns, TypeOK, Procs
    <2>2. CASE /\ caller[g].pc \in {"init", "started"}
               /\ caller'[g].p = caller[g].p /\ caller'[g].inst = caller[g].inst
      <3>1. caller[g].p \in 1 .. procs
        BY <1>0, <2>2 DEF Located, TypeOK, CallerStates
      <3> QED
        BY <2>2, <3>1, ProcInstance DEF Belongs
    <2> QED
      BY <1>2, <2>1, <2>2, StarterStep
  <1>3. ASSUME NEW p \in Procs
        PROVE  IF p <= procs' THEN proc'[p].inst # 0 ELSE proc'[p].inst = 0 /\ ~proc'[p].alive
    <2>1. CASE p <= procs
      <3>1. p \in 1 .. procs /\ proc[p].inst # 0
        BY <2>1 DEF Procs, Belongs
      <3>2. procs <= procs'
        <4>1. CASE \E g \in Callers : Spawns(g)
          BY <1>0, <4>1 DEF Spawns
        <4>2. CASE procs' = procs
          BY <1>0, <4>2
        <4> QED
          BY <4>1, <4>2
          DEF Next, ProcStep, Closing, CallerStep, StartStep, OperatorStep,
              RemoveStep, vars, Dies, SeesExit, CloseExpires, HandleClosed,
              HandleRequest, GetRequest, Lookup, FindsClient, BeginsStart,
              Initialized, Abandons, StartFails, Installs, ReadsClient, Responds,
              Resolves, Removes, RemoveExpires, RemoveReads, Closes, Waited,
              Configures, AppliesLaunchConfig
      <3> QED
        BY <1>0, <2>1, <3>1, <3>2, ProcInstance
    <2>2. CASE \E g \in Callers : Spawns(g)
      <3>1. PICK g \in Callers : Spawns(g)
        BY <2>2
      <3>2. caller[g].inst # 0
        BY <3>1 DEF Spawns, Located, StartSteps
      <3>3. CASE p = procs'
        BY <1>0, <3>1, <3>2, <3>3 DEF Spawns, TypeOK
      <3>4. CASE p # procs' /\ ~(p <= procs)
        BY <1>0, <3>1, <3>4 DEF Spawns, TypeOK, Belongs, Procs
      <3> QED
        BY <2>1, <3>3, <3>4
    <2>3. CASE ~(p <= procs) /\ ~(\E g \in Callers : Spawns(g))
      <3>1. procs' = procs
        BY <2>3
        DEF Next, ProcStep, Closing, CallerStep, StartStep, OperatorStep, RemoveStep,
            vars, Dies, SeesExit, CloseExpires, HandleClosed, HandleRequest,
            GetRequest, Lookup, FindsClient, BeginsStart, Initialized, Abandons,
            StartFails, Installs, ReadsClient, Responds, Resolves, Removes,
            RemoveExpires, RemoveReads, Closes, Waited, Configures,
            AppliesLaunchConfig
      <3>2. proc[p].inst = 0 /\ ~proc[p].alive
        BY <2>3 DEF Belongs
      <3>3. proc'[p].inst = proc[p].inst /\ (proc'[p].alive => proc[p].alive)
        BY <2>3, ProcLife
      <3> QED
        BY <2>3, <3>1, <3>2, <3>3
    <2> QED
      BY <2>1, <2>2, <2>3
  <1> QED
    BY <1>1, <1>2, <1>3 DEF Belongs

(* A process loses its owner in three ways: it is closed, it is handed on,
   or another process of its instance takes the owner's place. *)
LEMMA OwnerStep ==
    ASSUME TypeOK, Located, Belongs, ProcessHasOwner, [Next]_vars, TypeOK', Belongs'
    PROVE  ProcessHasOwner'
  <1> USE RuntimeAssumption
  <1>0. /\ procs \in Nat /\ inst \in [Instances -> InstanceStates]
        /\ proc \in [Procs -> ProcessStates] /\ caller \in [Callers -> CallerStates]
        /\ operator \in [Operators -> OperatorStates]
    BY DEF TypeOK
  <1> SUFFICES ASSUME NEW p \in Procs, proc'[p].alive, proc'[p].close = "open"
               PROVE  \/ \E i \in Instances : inst'[i].client = p
                      \/ \E g \in Callers : /\ caller'[g].pc \in {"init", "started"}
                                             /\ caller'[g].p = p
                      \/ \E o \in Operators : operator'[o].pc = "close" /\ operator'[o].p = p
                      \/ \E q \in Procs \ {p} : proc'[q].inst = proc'[p].inst
    BY DEF ProcessHasOwner, Running
  <1>1. CASE \E g \in Callers : Spawns(g) /\ p = procs'
    BY <1>0, <1>1 DEF Spawns, CallerStates
  <1>2. CASE ~(\E g \in Callers : Spawns(g) /\ p = procs')
    <2>1. proc[p].alive /\ proc[p].close = "open"
      <3>1. CASE \E g \in Callers : Spawns(g)
        BY <1>0, <1>2, <3>1 DEF Spawns
      <3>2. CASE ~(\E g \in Callers : Spawns(g))
        BY <3>2, ProcLife
      <3> QED
        BY <3>1, <3>2
    <2>2. p \in 1 .. procs /\ proc[p].inst # 0 /\ proc'[p].inst = proc[p].inst
      <3>1. p <= procs /\ proc[p].inst # 0
        BY <2>1 DEF Belongs
      <3>2. p \in 1 .. procs
        BY <1>0, <3>1 DEF Procs
      <3> QED
        BY <3>1, <3>2, ProcInstance
    <2>3. ASSUME NEW i \in Instances, inst[i].client = p, inst'[i].client # p
          PROVE  \/ \E o \in Operators : operator'[o].pc = "close" /\ operator'[o].p = p
                 \/ \E q \in Procs \ {p} : proc'[q].inst = proc'[p].inst
      <3>1. proc[p].inst = i /\ p # 0
        BY <2>2, <2>3 DEF Belongs
      <3>2. CASE \E g \in Callers : Installs(g) /\ caller[g].inst = i /\ inst'[i].client = caller[g].p
        <4>1. PICK g \in Callers : /\ Installs(g) /\ caller[g].inst = i
                                   /\ inst'[i].client = caller[g].p
          BY <3>2
        <4>2. caller[g].p \in Procs \ {p}
          BY <1>0, <2>3, <4>1 DEF Installs, Located, CallerStates, Procs, TypeOK
        <4>3. proc[caller[g].p].inst = i /\ proc' = proc
          BY <4>1 DEF Installs, Belongs
        <4> QED
          BY <2>2, <3>1, <4>2, <4>3
      <3>3. CASE \E q \in Procs : HandleClosed(q) /\ proc[q].inst = i
        <4>1. PICK q \in Procs : HandleClosed(q) /\ proc[q].inst = i
          BY <3>3
        <4>2. q # p
          BY <2>1, <4>1 DEF HandleClosed
        <4>3. proc'[q].inst = i
          BY <1>0, <4>1 DEF HandleClosed, ProcessStates
        <4> QED
          BY <2>2, <3>1, <4>2, <4>3
      <3>4. CASE \E o \in Operators : AppliesLaunchConfig(o) /\ current = i
        <4>1. PICK o \in Operators : AppliesLaunchConfig(o) /\ current = i
          BY <3>4
        <4>2. operator' = [operator EXCEPT ![o] = [pc |-> "close", inst |-> 0, p |-> p,
                                                   applying |-> TRUE]]
          BY <2>3, <3>1, <4>1 DEF AppliesLaunchConfig, Instances
        <4> QED
          BY <1>0, <4>2
      <3> QED
        BY <2>3, <3>2, <3>3, <3>4, ClientStep
    <2>4. ASSUME NEW g \in Callers, caller[g].pc \in {"init", "started"}, caller[g].p = p
          PROVE  \/ \E i \in Instances : inst'[i].client = p
                 \/ caller'[g].pc \in {"init", "started"} /\ caller'[g].p = p
      <3>1. CASE ~CallerStep(g)
        BY <2>4, <3>1, OtherCallers
      <3>2. CASE Initialized(g)
        BY <1>0, <2>4, <3>2 DEF Initialized, CallerStates
      <3>3. CASE Abandons(g)
        BY <1>0, <2>1, <2>4, <3>3 DEF Abandons, CloseOnce, ProcessStates
      <3>4. CASE Installs(g)
        <4>1. caller[g].inst \in Instances
          <5>1. caller[g].inst \in 0 .. made /\ made \in Instances
            BY <1>0 DEF CallerStates, TypeOK
          <5>2. caller[g].inst # 0
            BY <2>4 DEF Located, StartSteps
          <5> QED
            BY <5>1, <5>2 DEF Instances
        <4> QED
          BY <1>0, <2>4, <3>4, <4>1 DEF Installs, InstanceStates
      <3>5. ~(\E q \in Procs : GetRequest(g, q)) /\ ~Lookup(g) /\ ~FindsClient(g)
            /\ ~BeginsStart(g) /\ ~Spawns(g) /\ ~StartFails(g)
            /\ ~ReadsClient(g) /\ ~Responds(g) /\ ~Resolves(g)
        BY <2>4 DEF GetRequest, Lookup, FindsClient, BeginsStart, Spawns, StartFails,
            ReadsClient, Responds, Resolves
      <3> QED
        BY <3>1, <3>2, <3>3, <3>4, <3>5 DEF CallerStep, StartStep
    <2>5. ASSUME NEW o \in Operators, operator[o].pc = "close", operator[o].p = p
          PROVE  operator'[o].pc = "close" /\ operator'[o].p = p
      <3>1. CASE ~OperatorStep(o)
        BY <2>5, <3>1, OtherOperators
      <3>2. CASE Closes(o)
        BY <1>0, <2>1, <2>5, <3>2 DEF Closes, CloseOnce, ProcessStates
      <3>3. ~Removes(o) /\ ~RemoveExpires(o) /\ ~RemoveReads(o) /\ ~Waited(o)
            /\ ~Configures(o) /\ ~AppliesLaunchConfig(o)
        BY <2>5 DEF Removes, RemoveExpires, RemoveReads, Waited, Configures,
            AppliesLaunchConfig
      <3> QED
        BY <3>1, <3>2, <3>3 DEF OperatorStep, RemoveStep
    <2>6. ASSUME NEW q \in Procs \ {p}, proc[q].inst = proc[p].inst
          PROVE  proc'[q].inst = proc'[p].inst
      <3>1. q \in 1 .. procs
        BY <1>0, <2>2, <2>6 DEF Belongs, Procs
      <3> QED
        BY <2>2, <2>6, <3>1, ProcInstance
    <2> QED
      BY <2>1, <2>3, <2>4, <2>5, <2>6 DEF ProcessHasOwner, Running
  <1> QED
    BY <1>1, <1>2
-----------------------------------------------------------------------------
(***************************************************************************)
(* The invariant holds in every reachable state, whatever the number of    *)
(* starts, closings, removals and configuration changes that overlap.      *)
(***************************************************************************)
THEOREM RuntimeInvariant == Spec => []RuntimeInv
  <1>1. RuntimeInv /\ [Next]_vars => RuntimeInv'
    BY TypeStep, LocatedStep, BelongsStep, ReadyStep, StartingStep, SettledStep, OwnerStep
    DEF RuntimeInv
  <1> QED
    BY InitRuntimeInv, <1>1, PTL DEF Spec

(* The types of the manager's state (manager.go, Manager and instance).    *)
THEOREM TypeCorrect == Spec => []TypeOK
  BY RuntimeInvariant, PTL DEF RuntimeInv

(***************************************************************************)
(* "ready" is never shown for an instance without a client                 *)
(* (ensureStarted, HandleClosed, ApplyLaunchConfig).                       *)
(***************************************************************************)
THEOREM ReadyIsTrue == Spec => []ReadyHasClient
  BY RuntimeInvariant, PTL DEF RuntimeInv

(***************************************************************************)
(* "starting" is never left behind: every path out of ensureStarted takes  *)
(* it away.                                                                *)
(***************************************************************************)
THEOREM StartingIsTrue == Spec => []StartingIsUnderWay
  BY RuntimeInvariant, PTL DEF RuntimeInv

(***************************************************************************)
(* A request of the app-server is reported as resolved or expired exactly  *)
(* once (server_request_registry.go).                                      *)
(***************************************************************************)
THEOREM RequestsSettleOnce == Spec => []SettledOnce
  BY RuntimeInvariant, PTL DEF RuntimeInv

(***************************************************************************)
(* No process runs without an owner unless its instance was given a second *)
(* one (ensureStarted, HandleClosed, ApplyLaunchConfig, Remove).           *)
(***************************************************************************)
THEOREM ProcessesAreOwned == Spec => []ProcessHasOwner
  BY RuntimeInvariant, PTL DEF RuntimeInv
=============================================================================
