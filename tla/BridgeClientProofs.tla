------------------------ MODULE BridgeClientProofs ------------------------
(***************************************************************************)
(* Proofs about BridgeClient for any set of callers and any number of      *)
(* notifications.  The argument for NoPanic is who owns a response         *)
(* channel: it is open as long as its caller is in the map of waiters or   *)
(* in readStdout's hands, it is never in both, and a caller that has not   *)
(* registered has an untouched channel.  For AnswerNotLost, a request that *)
(* has been written is waited for, and as long as the bridge is open its   *)
(* caller can still be reached by a response.                              *)
(***************************************************************************)
EXTENDS BridgeClient, TLAPS

\* A waiter in the map, and the one readStdout has taken out of it, have an
\* open channel; the two never coincide.
Ownership ==
    /\ \A c \in waiters : chan[c] = "open" /\ call[c] # "idle"
    /\ taken # None => /\ taken \notin waiters
                       /\ chan[taken] = "open"
                       /\ call[taken] # "idle"
    /\ \A c \in Callers : call[c] = "idle" => chan[c] = "open"

\* Only a call that has been written is read or answered.
WrittenIsAwaited == \A c \in stdin \cup answered : call[c] \in {"wait", "done"}

\* While the bridge is open each call under way is in the map, in readStdout's
\* hands or has its response; and one that was answered ends with it or gives up.
Reachable ==
    ~closed =>
        /\ \A c \in Callers :
              /\ chan[c] # "closed"
              /\ call[c] \in {"write", "writing", "wait"}
                    => c \in waiters \/ taken = c \/ chan[c] = "message"
        /\ \A c \in stdin \cup answered :
              call[c] = "done" => outcome[c] \in {"answer", "timeout"}

BridgeInv ==
    /\ TypeOK
    /\ Ownership
    /\ NoPanic
    /\ NoStrandedWaiter
    /\ NoLeakedWaiter
    /\ ExitedMeansHandled
    /\ WrittenIsAwaited
    /\ Reachable
    /\ AnswerNotLost
-----------------------------------------------------------------------------
(* What is left of stdout when a line is read or the pipe is closed is     *)
(* made of the same lines (readStdout, waitProcess).                       *)
LEMMA RestOfLines ==
    ASSUME NEW S, NEW q \in Seq(S)
    PROVE  /\ q # <<>> => Head(q) \in S /\ Tail(q) \in Seq(S)
           /\ \A k \in 0 .. Len(q) : SubSeq(q, 1, k) \in Seq(S)
           /\ \A e \in S : Append(q, e) \in Seq(S)
  OBVIOUS

(* A line that is not the first is still there when the first has been read
   (readStdout). *)
LEMMA OneLineLess ==
    ASSUME NEW S, NEW q \in Seq(S), q # <<>>, NEW e, NEW i \in 1 .. Len(q), q[i] = e
    PROVE  e = Head(q) \/ \E j \in 1 .. Len(Tail(q)) : Tail(q)[j] = e
  <1>1. CASE i = 1
    BY <1>1
  <1>2. CASE i # 1
    <2>1. i - 1 \in 1 .. Len(Tail(q)) /\ Tail(q)[i - 1] = e
      BY <1>2
    <2> QED
      BY <2>1
  <1> QED
    BY <1>1, <1>2

(* The bridge starts with nothing registered and nothing closed (Start).   *)
LEMMA InitBridgeInv == Init => BridgeInv
  <1> SUFFICES ASSUME Init PROVE BridgeInv
    OBVIOUS
  <1> USE BridgeAssumption
  <1>1. TypeOK
    <2>1. stdout \in Seq(Callers \cup {Note}) /\ notes \in 0 .. MaxNotes
      BY DEF Init
    <2>2. closed <=> closeStep # "open"
      BY DEF Init
    <2> QED
      BY <2>1, <2>2 DEF Init, TypeOK, Closers
  <1>2. Ownership /\ NoPanic /\ NoStrandedWaiter /\ NoLeakedWaiter /\ ExitedMeansHandled
    BY DEF Init, Ownership, NoPanic, NoStrandedWaiter, NoLeakedWaiter,
        ExitedMeansHandled
  <1>3. WrittenIsAwaited /\ Reachable /\ AnswerNotLost
    BY DEF Init, WrittenIsAwaited, Reachable, AnswerNotLost
  <1> QED
    BY <1>1, <1>2, <1>3 DEF BridgeInv
-----------------------------------------------------------------------------
(* Every step keeps the types. *)
LEMMA TypeStep ==
    ASSUME TypeOK, [Next]_vars
    PROVE  TypeOK'
  <1> USE BridgeAssumption DEF TypeOK, Closers, callVars, processVars, readerVars,
      closeVars
  <1>1. CASE \E c \in Callers : Register(c)
    BY <1>1 DEF Register
  <1>2. CASE \E c \in Callers : StartWrite(c)
    BY <1>2 DEF StartWrite, BridgeOpen
  <1>3. CASE \E c \in Callers : WriteRefused(c)
    BY <1>3 DEF WriteRefused, ForgetWaiter, Return
  <1>4. CASE \E c \in Callers : FinishWrite(c)
    BY <1>4 DEF FinishWrite
  <1>5. CASE \E c \in Callers : WriteFails(c)
    BY <1>5 DEF WriteFails, ForgetWaiter, Return
  <1>6. CASE \E c \in Callers : ContextEnds(c)
    BY <1>6 DEF ContextEnds, ForgetWaiter, Return
  <1>7. CASE \E c \in Callers : SeesClosed(c)
    BY <1>7 DEF SeesClosed, Return
  <1>8. CASE \E c \in Callers : TakesResponse(c)
    BY <1>8 DEF TakesResponse, Return
  <1>9. CASE \E c \in Callers : Answer(c)
    BY RestOfLines, <1>9 DEF Answer
  <1>10. CASE Notify
    BY RestOfLines, <1>10 DEF Notify
  <1>11. CASE Exit
    <2>1. alive' \in BOOLEAN
      BY <1>11 DEF Exit
    <2>2. closed' <=> closeStep' # "open"
      BY <1>11 DEF Exit
    <2> QED
      BY <2>1, <2>2, <1>11 DEF Exit
  <1>12. CASE ReadResponse
    BY RestOfLines, <1>12 DEF ReadResponse, TakeWaiter
  <1>13. CASE DeliverResponse
    BY <1>13 DEF DeliverResponse
  <1>14. CASE ReadNotification
    BY RestOfLines, <1>14 DEF ReadNotification
  <1>15. CASE ReadEnds
    BY <1>15 DEF ReadEnds
  <1>16. CASE ProcessReaped
    BY RestOfLines, <1>16 DEF ProcessReaped
  <1>17. CASE Close
    BY <1>17 DEF Close
  <1>18. CASE ClearWaiters
    BY <1>18 DEF ClearWaiters
  <1>19. CASE KillProcess
    BY <1>19 DEF KillProcess
  <1>20. CASE CallHandleClosed
    BY <1>20 DEF CallHandleClosed
  <1>21. CASE \E who \in Closers : MarkClosed(who)
    BY <1>21 DEF MarkClosed, SignalClosed
  <1>22. CASE \E who \in Closers : LeaveClose(who)
    <2>1. PICK who \in Closers : LeaveClose(who)
      BY <1>22
    <2>2. who = "reader" => reader = "closing"
      BY <2>1 DEF LeaveClose, AtClose
    <2>3. reader' = "dispatch" <=> reader = "dispatch"
      BY <2>1, <2>2 DEF LeaveClose
    <2> QED
      BY <2>1, <2>3 DEF LeaveClose
  <1>23. CASE UNCHANGED vars
    BY <1>23 DEF vars
  <1> QED
    BY <1>1, <1>2, <1>3, <1>4, <1>5, <1>6, <1>7, <1>8, <1>9, <1>10, <1>11, <1>12, <1>13,
        <1>14, <1>15, <1>16, <1>17, <1>18, <1>19, <1>20, <1>21, <1>22, <1>23
    DEF Next, CallStep, ReaderStep, CloseStep

(***************************************************************************)
(* A waiter's channel is handed over whole: from its caller to the map,    *)
(* from the map to readStdout (dispatchResponse), and there, or in         *)
(* closeWithError, it is settled.                                          *)
(***************************************************************************)
LEMMA OwnershipStep ==
    ASSUME TypeOK, Ownership, [Next]_vars
    PROVE  Ownership'
  <1> USE BridgeAssumption DEF TypeOK, Ownership, callVars, processVars, readerVars,
      closeVars
  <1>1. CASE \E c \in Callers : Register(c)
    BY <1>1 DEF Register
  <1>2. CASE \E c \in Callers : StartWrite(c)
    BY <1>2 DEF StartWrite, BridgeOpen
  <1>3. CASE \E c \in Callers : WriteRefused(c)
    BY <1>3 DEF WriteRefused, ForgetWaiter, Return
  <1>4. CASE \E c \in Callers : FinishWrite(c)
    BY <1>4 DEF FinishWrite
  <1>5. CASE \E c \in Callers : WriteFails(c)
    BY <1>5 DEF WriteFails, ForgetWaiter, Return
  <1>6. CASE \E c \in Callers : ContextEnds(c)
    BY <1>6 DEF ContextEnds, ForgetWaiter, Return
  <1>7. CASE \E c \in Callers : SeesClosed(c)
    BY <1>7 DEF SeesClosed, Return
  <1>8. CASE \E c \in Callers : TakesResponse(c)
    BY <1>8 DEF TakesResponse, Return
  <1>9. CASE ReadResponse
    BY <1>9 DEF ReadResponse, TakeWaiter
  <1>10. CASE DeliverResponse
    BY <1>10 DEF DeliverResponse
  <1>11. CASE ClearWaiters
    BY <1>11 DEF ClearWaiters
  <1>12. CASE UNCHANGED <<callVars, taken>>
    BY <1>12
  <1> QED
    BY <1>1, <1>2, <1>3, <1>4, <1>5, <1>6, <1>7, <1>8, <1>9, <1>10, <1>11, <1>12
    DEF Next, CallStep, ReaderStep, CloseStep, vars,
        Answer, Notify, Exit, ReadNotification, ReadEnds, ProcessReaped, Close,
            KillProcess, CallHandleClosed, MarkClosed, LeaveClose

(* Whoever settles a channel owns it, so it is open (dispatchResponse's send,
   closeWithError's close). *)
LEMMA NoPanicStep ==
    ASSUME TypeOK, Ownership, NoPanic, [Next]_vars
    PROVE  NoPanic'
  <1> USE BridgeAssumption DEF Ownership, NoPanic, callVars, processVars, readerVars,
      closeVars
  <1>1. CASE DeliverResponse
    <2>1. chan[taken] = "open"
      BY <1>1 DEF DeliverResponse, TypeOK
    <2> QED
      BY <2>1, <1>1, Zenon DEF DeliverResponse
  <1>2. CASE ClearWaiters
    <2>1. ~(\E c \in waiters : chan[c] # "open")
      OBVIOUS
    <2> QED
      BY <2>1, <1>2, Zenon DEF ClearWaiters
  <1>3. CASE UNCHANGED <<panicked>>
    BY <1>3
  <1> QED
    BY <1>1, <1>2, <1>3
    DEF Next, CallStep, ReaderStep, CloseStep, vars,
        Register, StartWrite, WriteRefused, FinishWrite, WriteFails, ContextEnds,
            SeesClosed, TakesResponse, Answer, Notify, Exit, ReadResponse,
            ReadNotification, ReadEnds, ProcessReaped, Close, KillProcess,
            CallHandleClosed, MarkClosed, LeaveClose

(* After the waiters are cleared only a caller that will find the bridge closed
   in write can be in the map: to write it must have seen the bridge open. *)
LEMMA StrandedStep ==
    ASSUME TypeOK, NoStrandedWaiter, [Next]_vars
    PROVE  NoStrandedWaiter'
  <1> USE BridgeAssumption DEF TypeOK, NoStrandedWaiter, callVars, processVars,
      readerVars, closeVars
  <1>1. CASE \E c \in Callers : Register(c)
    BY <1>1 DEF Register
  <1>2. CASE \E c \in Callers : StartWrite(c)
    BY <1>2 DEF StartWrite, BridgeOpen
  <1>3. CASE \E c \in Callers : WriteRefused(c)
    BY <1>3 DEF WriteRefused, ForgetWaiter, Return
  <1>4. CASE \E c \in Callers : FinishWrite(c)
    BY <1>4 DEF FinishWrite
  <1>5. CASE \E c \in Callers : WriteFails(c)
    BY <1>5 DEF WriteFails, ForgetWaiter, Return
  <1>6. CASE \E c \in Callers : ContextEnds(c)
    BY <1>6 DEF ContextEnds, ForgetWaiter, Return
  <1>7. CASE \E c \in Callers : SeesClosed(c)
    BY <1>7 DEF SeesClosed, Return
  <1>8. CASE \E c \in Callers : TakesResponse(c)
    BY <1>8 DEF TakesResponse, Return
  <1>9. CASE ReadResponse
    BY <1>9 DEF ReadResponse, TakeWaiter
  <1>10. CASE ClearWaiters
    BY <1>10 DEF ClearWaiters
  <1>11. CASE KillProcess
    BY <1>11 DEF KillProcess
  <1>12. CASE CallHandleClosed
    BY <1>12 DEF CallHandleClosed
  <1>13. CASE \E who \in Closers : MarkClosed(who)
    BY <1>13 DEF MarkClosed, SignalClosed
  <1>14. CASE UNCHANGED <<call, waiters, closeStep>>
    BY <1>14
  <1> QED
    BY <1>1, <1>2, <1>3, <1>4, <1>5, <1>6, <1>7, <1>8, <1>9, <1>10, <1>11, <1>12, <1>13,
        <1>14
    DEF Next, CallStep, ReaderStep, CloseStep, vars,
        Answer, Notify, Exit, DeliverResponse, ReadNotification, ReadEnds,
            ProcessReaped, Close, LeaveClose

(* A caller that returns leaves the map, or its waiter was taken from it, or
   closeWithError, which it has seen begin, is about to clear it. *)
LEMMA LeakStep ==
    ASSUME TypeOK, Ownership, NoStrandedWaiter, NoLeakedWaiter, [Next]_vars
    PROVE  NoLeakedWaiter'
  <1> USE BridgeAssumption DEF TypeOK, Ownership, NoStrandedWaiter, NoLeakedWaiter,
      callVars, processVars, readerVars, closeVars
  <1>1. CASE \E c \in Callers : Register(c)
    BY <1>1 DEF Register
  <1>2. CASE \E c \in Callers : StartWrite(c)
    BY <1>2 DEF StartWrite, BridgeOpen
  <1>3. CASE \E c \in Callers : WriteRefused(c)
    BY <1>3 DEF WriteRefused, ForgetWaiter, Return
  <1>4. CASE \E c \in Callers : FinishWrite(c)
    BY <1>4 DEF FinishWrite
  <1>5. CASE \E c \in Callers : WriteFails(c)
    BY <1>5 DEF WriteFails, ForgetWaiter, Return
  <1>6. CASE \E c \in Callers : ContextEnds(c)
    BY <1>6 DEF ContextEnds, ForgetWaiter, Return
  <1>7. CASE \E c \in Callers : SeesClosed(c)
    BY <1>7 DEF SeesClosed, Return
  <1>8. CASE \E c \in Callers : TakesResponse(c)
    BY <1>8 DEF TakesResponse, Return
  <1>9. CASE ReadResponse
    BY <1>9 DEF ReadResponse, TakeWaiter
  <1>10. CASE ClearWaiters
    BY <1>10 DEF ClearWaiters
  <1>11. CASE KillProcess
    BY <1>11 DEF KillProcess
  <1>12. CASE CallHandleClosed
    BY <1>12 DEF CallHandleClosed
  <1>13. CASE \E who \in Closers : MarkClosed(who)
    BY <1>13 DEF MarkClosed, SignalClosed
  <1>14. CASE UNCHANGED <<call, outcome, waiters, closeStep>>
    BY <1>14
  <1> QED
    BY <1>1, <1>2, <1>3, <1>4, <1>5, <1>6, <1>7, <1>8, <1>9, <1>10, <1>11, <1>12, <1>13,
        <1>14
    DEF Next, CallStep, ReaderStep, CloseStep, vars,
        Answer, Notify, Exit, DeliverResponse, ReadNotification, ReadEnds,
            ProcessReaped, Close, LeaveClose

(* closeOnce makes waitProcess wait for whoever runs its body. *)
LEMMA ExitedStep ==
    ASSUME TypeOK, ExitedMeansHandled, [Next]_vars
    PROVE  ExitedMeansHandled'
  <1> USE BridgeAssumption DEF TypeOK, ExitedMeansHandled, OnceDone, callVars,
      processVars, readerVars, closeVars
  <1>1. CASE ProcessReaped
    BY <1>1 DEF ProcessReaped
  <1>2. CASE ClearWaiters
    BY <1>2 DEF ClearWaiters
  <1>3. CASE KillProcess
    BY <1>3 DEF KillProcess
  <1>4. CASE CallHandleClosed
    BY <1>4 DEF CallHandleClosed
  <1>5. CASE \E who \in Closers : MarkClosed(who)
    BY <1>5 DEF MarkClosed, SignalClosed
  <1>6. CASE \E who \in Closers : LeaveClose(who)
    BY <1>6 DEF LeaveClose
  <1>7. CASE UNCHANGED <<wait, closeStep>>
    BY <1>7
  <1> QED
    BY <1>1, <1>2, <1>3, <1>4, <1>5, <1>6, <1>7
    DEF Next, CallStep, ReaderStep, CloseStep, vars,
        Register, StartWrite, WriteRefused, FinishWrite, WriteFails, ContextEnds,
            SeesClosed, TakesResponse, Answer, Notify, Exit, ReadResponse,
            DeliverResponse, ReadNotification, ReadEnds, Close

(* A caller waits from its write on (Call), and nothing but its write gets its
   request to the process. *)
LEMMA AwaitedStep ==
    ASSUME TypeOK, WrittenIsAwaited, [Next]_vars
    PROVE  WrittenIsAwaited'
  <1> USE BridgeAssumption DEF TypeOK, WrittenIsAwaited, callVars, processVars,
      readerVars, closeVars
  <1>1. CASE \E c \in Callers : Register(c)
    BY <1>1 DEF Register
  <1>2. CASE \E c \in Callers : StartWrite(c)
    BY <1>2 DEF StartWrite, BridgeOpen
  <1>3. CASE \E c \in Callers : WriteRefused(c)
    BY <1>3 DEF WriteRefused, BridgeOpen, ForgetWaiter, Return
  <1>4. CASE \E c \in Callers : FinishWrite(c)
    BY <1>4 DEF FinishWrite
  <1>5. CASE \E c \in Callers : WriteFails(c)
    BY <1>5 DEF WriteFails, ForgetWaiter, Return
  <1>6. CASE \E c \in Callers : ContextEnds(c)
    BY <1>6 DEF ContextEnds, ForgetWaiter, Return
  <1>7. CASE \E c \in Callers : SeesClosed(c)
    BY <1>7 DEF SeesClosed, Return
  <1>8. CASE \E c \in Callers : TakesResponse(c)
    BY <1>8 DEF TakesResponse, Return
  <1>9. CASE \E c \in Callers : Answer(c)
    BY <1>9 DEF Answer
  <1>10. CASE UNCHANGED <<call, stdin, answered>>
    BY <1>10
  <1> QED
    BY <1>1, <1>2, <1>3, <1>4, <1>5, <1>6, <1>7, <1>8, <1>9, <1>10
    DEF Next, CallStep, ReaderStep, CloseStep, vars,
        Notify, Exit, ReadResponse, DeliverResponse, ReadNotification, ReadEnds,
        ProcessReaped, Close, ClearWaiters, KillProcess, CallHandleClosed, MarkClosed,
        LeaveClose

(* The map gives a waiter up to readStdout only, which hands it the response,
   and a channel is closed by closeWithError only (Call, dispatchResponse). *)
LEMMA ReachableStep ==
    ASSUME TypeOK, Ownership, WrittenIsAwaited, Reachable, [Next]_vars
    PROVE  Reachable'
  <1> USE BridgeAssumption DEF TypeOK, Ownership, WrittenIsAwaited, Reachable, callVars,
      processVars, readerVars, closeVars
  <1>1. CASE \E c \in Callers : Register(c)
    BY <1>1 DEF Register
  <1>2. CASE \E c \in Callers : StartWrite(c)
    BY <1>2 DEF StartWrite, BridgeOpen
  <1>3. CASE \E c \in Callers : WriteRefused(c)
    BY <1>3 DEF WriteRefused, BridgeOpen, ForgetWaiter, Return
  <1>4. CASE \E c \in Callers : FinishWrite(c)
    BY <1>4 DEF FinishWrite
  <1>5. CASE \E c \in Callers : WriteFails(c)
    BY <1>5 DEF WriteFails, ForgetWaiter, Return
  <1>6. CASE \E c \in Callers : ContextEnds(c)
    BY <1>6 DEF ContextEnds, ForgetWaiter, Return
  <1>7. CASE \E c \in Callers : SeesClosed(c)
    BY <1>7 DEF SeesClosed, Return
  <1>8. CASE \E c \in Callers : TakesResponse(c)
    BY <1>8 DEF TakesResponse, Return
  <1>9. CASE \E c \in Callers : Answer(c)
    BY <1>9 DEF Answer
  <1>10. CASE ReadResponse
    BY <1>10 DEF ReadResponse, TakeWaiter
  <1>11. CASE DeliverResponse
    BY <1>11 DEF DeliverResponse
  <1>12. CASE ClearWaiters
    BY <1>12 DEF ClearWaiters
  <1>13. CASE \E who \in Closers : MarkClosed(who)
    BY <1>13 DEF MarkClosed, SignalClosed
  <1>14. CASE UNCHANGED <<call, outcome, waiters, chan, stdin, answered, taken, closed>>
    BY <1>14
  <1> QED
    BY <1>1, <1>2, <1>3, <1>4, <1>5, <1>6, <1>7, <1>8, <1>9, <1>10, <1>11, <1>12, <1>13,
        <1>14
    DEF Next, CallStep, ReaderStep, CloseStep, vars,
        Notify, Exit, ReadNotification, ReadEnds, ProcessReaped, Close, KillProcess,
        CallHandleClosed, LeaveClose

(* The answer moves from the pipe to readStdout and on to its call's channel
   (readStdout, dispatchResponse), and the call takes it from there. *)
LEMMA AnswerStep ==
    ASSUME TypeOK, Ownership, WrittenIsAwaited, Reachable, AnswerNotLost, [Next]_vars
    PROVE  AnswerNotLost'
  <1> USE BridgeAssumption DEF TypeOK, Ownership, WrittenIsAwaited, Reachable,
      AnswerNotLost, callVars, processVars, readerVars, closeVars
  <1>1. CASE \E c \in Callers : Register(c)
    BY <1>1 DEF Register
  <1>2. CASE \E c \in Callers : StartWrite(c)
    BY <1>2 DEF StartWrite, BridgeOpen
  <1>3. CASE \E c \in Callers : WriteRefused(c)
    BY <1>3 DEF WriteRefused, BridgeOpen, ForgetWaiter, Return
  <1>4. CASE \E c \in Callers : FinishWrite(c)
    BY <1>4 DEF FinishWrite
  <1>5. CASE \E c \in Callers : WriteFails(c)
    BY <1>5 DEF WriteFails, ForgetWaiter, Return
  <1>6. CASE \E c \in Callers : ContextEnds(c)
    BY <1>6 DEF ContextEnds, ForgetWaiter, Return
  <1>7. CASE \E c \in Callers : SeesClosed(c)
    BY <1>7 DEF SeesClosed, Return
  <1>8. CASE \E c \in Callers : TakesResponse(c)
    BY <1>8 DEF TakesResponse, Return
  <1>9. CASE \E c \in Callers : Answer(c)
    BY <1>9 DEF Answer
  <1>10. CASE Notify
    BY <1>10 DEF Notify
  <1>11. CASE ReadResponse
    <2>1. \A c \in Callers : (\E i \in 1 .. Len(stdout) : stdout[i] = c)
            => c = Head(stdout) \/ \E i \in 1 .. Len(stdout') : stdout'[i] = c
      BY <1>11, OneLineLess DEF ReadResponse
    <2>2. ASSUME ~closed, wait = "wait", NEW c \in answered
          PROVE  \/ outcome[c] \in {"answer", "timeout"}
                 \/ taken' = c
                 \/ chan[c] = "message"
                 \/ \E i \in 1 .. Len(stdout') : stdout'[i] = c
      <3>1. CASE c = Head(stdout)
        <4>1. taken = None
          BY <1>11 DEF ReadResponse
        <4>2. call[c] = "done" \/ c \in waiters \/ chan[c] = "message"
          BY <2>2, <4>1
        <4> QED
          BY <1>11, <2>2, <3>1, <4>2 DEF ReadResponse
      <3>2. CASE taken = c
        BY <1>11, <3>2 DEF ReadResponse
      <3> QED
        BY <2>1, <2>2, <3>1, <3>2
    <2> QED
      BY <1>11, <2>2 DEF ReadResponse
  <1>12. CASE DeliverResponse
    <2>1. taken \in Callers /\ chan[taken] = "open"
      BY <1>12 DEF DeliverResponse
    <2>2. chan' = [chan EXCEPT ![taken] = "message"]
      BY <1>12, <2>1 DEF DeliverResponse
    <2>3. UNCHANGED <<outcome, stdout, answered, closed, wait>>
      BY <1>12 DEF DeliverResponse
    <2>4. ASSUME ~closed, wait = "wait", NEW c \in answered
          PROVE  \/ outcome[c] \in {"answer", "timeout"}
                 \/ chan'[c] = "message"
                 \/ \E i \in 1 .. Len(stdout) : stdout[i] = c
      <3>1. CASE taken = c
        BY <2>1, <2>2, <3>1
      <3>2. CASE taken # c
        BY <2>2, <2>4, <3>2
      <3> QED
        BY <3>1, <3>2
    <2> QED
      BY <2>3, <2>4
  <1>13. CASE ReadNotification
    <2>1. \A c \in Callers : (\E i \in 1 .. Len(stdout) : stdout[i] = c)
            => \E i \in 1 .. Len(stdout') : stdout'[i] = c
      BY <1>13, OneLineLess DEF ReadNotification
    <2> QED
      BY <1>13, <2>1 DEF ReadNotification
  <1>14. CASE ProcessReaped
    BY <1>14 DEF ProcessReaped
  <1>15. CASE ClearWaiters
    BY <1>15 DEF ClearWaiters
  <1>16. CASE \E who \in Closers : MarkClosed(who)
    BY <1>16 DEF MarkClosed, SignalClosed
  <1>17. CASE \E who \in Closers : LeaveClose(who)
    BY <1>17 DEF LeaveClose
  <1>18. CASE UNCHANGED <<call, outcome, chan, stdout, answered, taken, closed, wait>>
    BY <1>18
  <1> QED
    BY <1>1, <1>2, <1>3, <1>4, <1>5, <1>6, <1>7, <1>8, <1>9, <1>10, <1>11, <1>12, <1>13,
        <1>14, <1>15, <1>16, <1>17, <1>18
    DEF Next, CallStep, ReaderStep, CloseStep, vars,
        Exit, ReadEnds, Close, KillProcess, CallHandleClosed

-----------------------------------------------------------------------------
(***************************************************************************)
(* The invariant holds in every reachable state, whatever the number of    *)
(* concurrent calls, of notifications and the moment the process exits.    *)
(***************************************************************************)
THEOREM BridgeInvariant == Spec => []BridgeInv
  <1>1. BridgeInv /\ [Next]_vars => BridgeInv'
    BY TypeStep, OwnershipStep, NoPanicStep, StrandedStep, LeakStep, ExitedStep,
        AwaitedStep, ReachableStep, AnswerStep DEF BridgeInv
  <1> QED
    BY InitBridgeInv, <1>1, PTL DEF Spec

(* The types of the client's state (client.go, type Client). *)
THEOREM TypeCorrect == Spec => []TypeOK
  BY BridgeInvariant, PTL DEF BridgeInv

(***************************************************************************)
(* No response channel is closed twice or sent on after it was closed: the *)
(* server cannot be brought down by a process that answers while its       *)
(* bridge closes (dispatchResponse, closeWithError).                       *)
(***************************************************************************)
THEOREM ChannelsSettledOnce == Spec => []NoPanic
  BY BridgeInvariant, PTL DEF BridgeInv

(***************************************************************************)
(* After closeWithError has cleared the map nobody waits on a channel that *)
(* nothing will settle (Call, write, closeWithError).                      *)
(***************************************************************************)
THEOREM NobodyStranded == Spec => []NoStrandedWaiter
  BY BridgeInvariant, PTL DEF BridgeInv

(***************************************************************************)
(* A long-lived bridge does not accumulate the waiters of calls that       *)
(* failed or timed out (Call's error paths).                               *)
(***************************************************************************)
THEOREM NothingLeaks == Spec => []NoLeakedWaiter
  BY BridgeInvariant, PTL DEF BridgeInv

(***************************************************************************)
(* When WaitTimeout reports that the process is gone, HandleClosed has     *)
(* returned (waitProcess, closeWithError).                                 *)
(***************************************************************************)
THEOREM ExitFollowsHandleClosed == Spec => []ExitedMeansHandled
  BY BridgeInvariant, PTL DEF BridgeInv

(***************************************************************************)
(* An answer the process has sent cannot miss its call while the bridge is *)
(* open and the process has not been reaped: the waiter is registered      *)
(* before the request is written (Call) and taken out of the map only to   *)
(* be given its response (dispatchResponse).                               *)
(***************************************************************************)
THEOREM AnswersArrive == Spec => []AnswerNotLost
  BY BridgeInvariant, PTL DEF BridgeInv
=============================================================================
