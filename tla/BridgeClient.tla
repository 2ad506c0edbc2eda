---------------------------- MODULE BridgeClient ----------------------------
(***************************************************************************)
(* The JSON-RPC client of one app-server process                           *)
(* (backend/internal/bridge/client.go): callers that register a waiter and *)
(* write a request, the goroutine that reads stdout, the one that waits    *)
(* for the process, and closeWithError, which the two of them and Close    *)
(* race for.                                                               *)
(*                                                                         *)
(* Each caller makes one call, so the caller stands for the request id.    *)
(***************************************************************************)
EXTENDS Integers, Sequences, FiniteSets, TLC

CONSTANTS Callers,
          MaxNotes,   \* bound: notifications the process sends
          Note,       \* a notification on stdout
          None        \* nobody

ASSUME BridgeAssumption ==
    /\ MaxNotes \in Nat
    /\ Note \notin Callers
    /\ None \notin Callers

VARIABLES
    call,       \* per caller: where it is in Call
    outcome,    \* per caller: how Call ended
    waiters,    \* the callers registered in Client.waiters
    chan,       \* per caller: its one-slot response channel
    stdin,      \* requests the process has to read
    stdout,     \* lines between the process and readStdout's handlers
    answered,   \* history: requests the process has answered
    notes,      \* notifications sent so far (bound)
    alive,      \* the process runs
    reader,     \* where readStdout is, and the waiter it has taken
    taken,
    wait,       \* where waitProcess is
    user,       \* where the caller of Close is
    closed,     \* the closed channel is closed
    stdinOpen,  \* our end of the stdin pipe is open
    closer,     \* who runs the body of closeOnce, and how far it is
    closeStep,
    panicked    \* a send on or a second close of a closed channel

vars == <<call, outcome, waiters, chan, stdin, stdout, answered, notes, alive,
          reader, taken, wait, user, closed, stdinOpen, closer, closeStep, panicked>>

callVars == <<call, outcome, waiters, chan>>
processVars == <<stdin, stdout, answered, notes, alive>>
readerVars == <<reader, taken>>
closeVars == <<closed, stdinOpen, closer, closeStep>>

Closers == {"reader", "wait", "user"}

TypeOK ==
    /\ call \in [Callers -> {"idle", "write", "writing", "wait", "done"}]
    /\ outcome \in [Callers -> {"none", "answer", "empty", "closed", "timeout", "error"}]
    /\ waiters \subseteq Callers
    /\ chan \in [Callers -> {"open", "message", "closed"}]
    /\ stdin \subseteq Callers
    /\ stdout \in Seq(Callers \cup {Note})
    /\ answered \subseteq Callers
    /\ notes \in 0 .. MaxNotes
    /\ alive \in BOOLEAN
    /\ reader \in {"scan", "dispatch", "closing", "ended"}
    /\ taken \in Callers \cup {None}
    /\ wait \in {"wait", "closing", "exited"}
    /\ user \in {"idle", "closing", "done"}
    /\ closed \in BOOLEAN
    /\ stdinOpen \in BOOLEAN
    /\ closer \in Closers \cup {"none"}
    /\ closeStep \in {"open", "marked", "cleared", "killed", "finished"}
    /\ panicked \in BOOLEAN
    /\ reader = "dispatch" <=> taken # None
    /\ closed <=> closeStep # "open"

Init ==
    /\ call = [c \in Callers |-> "idle"]
    /\ outcome = [c \in Callers |-> "none"]
    /\ waiters = {}
    /\ chan = [c \in Callers |-> "open"]
    /\ stdin = {}
    /\ stdout = <<>>
    /\ answered = {}
    /\ notes = 0
    /\ alive = TRUE
    /\ reader = "scan"
    /\ taken = None
    /\ wait = "wait"
    /\ user = "idle"
    /\ closed = FALSE
    /\ stdinOpen = TRUE
    /\ closer = "none"
    /\ closeStep = "open"
    /\ panicked = FALSE
-----------------------------------------------------------------------------
(***************************************************************************)
(* Call                                                                    *)
(***************************************************************************)
\* Wrong variant: all calls have the same id, and a waiter replaces the one before.
RegisterSameId(c) ==
    /\ call[c] = "idle"
    /\ call' = [call EXCEPT ![c] = "write"]
    /\ waiters' = {c}
    /\ UNCHANGED <<outcome, chan, processVars, readerVars, wait, user, closeVars, panicked>>

Register(c) ==
    /\ call[c] = "idle"
    /\ call' = [call EXCEPT ![c] = "write"]
    /\ waiters' = waiters \cup {c}
    /\ UNCHANGED <<outcome, chan, processVars, readerVars, wait, user, closeVars, panicked>>

ForgetWaiter(c) == waiters' = waiters \ {c}

\* Wrong variant: write does not look at the closed channel.
OpenUnchecked == TRUE

BridgeOpen == ~closed

Return(c, how) ==
    /\ call' = [call EXCEPT ![c] = "done"]
    /\ outcome' = [outcome EXCEPT ![c] = how]

\* write takes writeMu and looks at the closed channel before it writes.
StartWrite(c) ==
    /\ call[c] = "write"
    /\ \A d \in Callers : call[d] # "writing"
    /\ BridgeOpen
    /\ call' = [call EXCEPT ![c] = "writing"]
    /\ UNCHANGED <<outcome, waiters, chan, processVars, readerVars, wait, user,
                   closeVars, panicked>>

WriteRefused(c) ==
    /\ call[c] = "write"
    /\ \A d \in Callers : call[d] # "writing"
    /\ ~BridgeOpen
    /\ ForgetWaiter(c)
    /\ Return(c, "error")
    /\ UNCHANGED <<chan, processVars, readerVars, wait, user, closeVars, panicked>>

\* The write may block for as long as the process does not read.
FinishWrite(c) ==
    /\ call[c] = "writing"
    /\ stdinOpen
    /\ alive
    /\ stdin' = stdin \cup {c}
    /\ call' = [call EXCEPT ![c] = "wait"]
    /\ UNCHANGED <<outcome, waiters, chan, stdout, answered, notes, alive, readerVars,
                   wait, user, closeVars, panicked>>

WriteFails(c) ==
    /\ call[c] = "writing"
    /\ ~stdinOpen \/ ~alive
    /\ ForgetWaiter(c)
    /\ Return(c, "error")
    /\ UNCHANGED <<chan, processVars, readerVars, wait, user, closeVars, panicked>>

\* The three cases of Call's select; when several are ready, any is taken.
ContextEnds(c) ==
    /\ call[c] = "wait"
    /\ ForgetWaiter(c)
    /\ Return(c, "timeout")
    /\ UNCHANGED <<chan, processVars, readerVars, wait, user, closeVars, panicked>>

SeesClosed(c) ==
    /\ call[c] = "wait"
    /\ closed
    /\ Return(c, "closed")
    /\ UNCHANGED <<waiters, chan, processVars, readerVars, wait, user, closeVars, panicked>>

\* A closed channel with nothing in it yields the zero message: no error, no
\* result, and Call returns nil.
TakesResponse(c) ==
    /\ call[c] = "wait"
    /\ chan[c] # "open"
    /\ Return(c, IF chan[c] = "message" THEN "answer" ELSE "empty")
    /\ UNCHANGED <<waiters, chan, processVars, readerVars, wait, user, closeVars, panicked>>
-----------------------------------------------------------------------------
(***************************************************************************)
(* The process                                                             *)
(***************************************************************************)
Answer(c) ==
    /\ alive
    /\ c \in stdin
    /\ stdin' = stdin \ {c}
    /\ stdout' = Append(stdout, c)
    /\ answered' = answered \cup {c}
    /\ UNCHANGED <<callVars, notes, alive, readerVars, wait, user, closeVars, panicked>>

Notify ==
    /\ alive
    /\ notes < MaxNotes
    /\ notes' = notes + 1
    /\ stdout' = Append(stdout, Note)
    /\ UNCHANGED <<callVars, stdin, answered, alive, readerVars, wait, user,
                   closeVars, panicked>>

Exit ==
    /\ alive
    /\ alive' = FALSE
    /\ UNCHANGED <<callVars, stdin, stdout, answered, notes, readerVars, wait, user,
                   closeVars, panicked>>
-----------------------------------------------------------------------------
(***************************************************************************)
(* readStdout and dispatchResponse                                         *)
(***************************************************************************)
\* Wrong variant: the waiter stays in the map.
LeaveWaiter(c) == waiters' = waiters

\* The waiter is taken out of the map under waitMu, so that only one of
\* dispatchResponse and closeWithError settles its channel.
TakeWaiter(c) == waiters' = waiters \ {c}

ReadResponse ==
    /\ reader = "scan"
    /\ stdout # <<>>
    /\ Head(stdout) # Note
    /\ stdout' = Tail(stdout)
    /\ IF Head(stdout) \in waiters
       THEN /\ TakeWaiter(Head(stdout))
            /\ reader' = "dispatch"
            /\ taken' = Head(stdout)
       ELSE UNCHANGED <<waiters, readerVars>>
    /\ UNCHANGED <<call, outcome, chan, stdin, answered, notes, alive, wait, user,
                   closeVars, panicked>>

DeliverResponse ==
    /\ reader = "dispatch"
    /\ IF chan[taken] = "open"
       THEN /\ chan' = [chan EXCEPT ![taken] = "message"]
            /\ UNCHANGED panicked
       ELSE /\ panicked' = TRUE
            /\ UNCHANGED chan
    /\ reader' = "scan"
    /\ taken' = None
    /\ UNCHANGED <<call, outcome, waiters, processVars, wait, user, closeVars>>

ReadNotification ==
    /\ reader = "scan"
    /\ stdout # <<>>
    /\ Head(stdout) = Note
    /\ stdout' = Tail(stdout)
    /\ UNCHANGED <<callVars, stdin, answered, notes, alive, readerVars, wait, user,
                   closeVars, panicked>>

ReadEnds ==
    /\ reader = "scan"
    /\ stdout = <<>>
    /\ ~alive
    /\ reader' = "closing"
    /\ UNCHANGED <<callVars, processVars, taken, wait, user, closeVars, panicked>>
-----------------------------------------------------------------------------
(***************************************************************************)
(* waitProcess: cmd.Wait closes our end of the stdout pipe as soon as the  *)
(* process has exited; what readStdout has not read into its buffer by     *)
(* then is lost.                                                           *)
(***************************************************************************)
ProcessReaped ==
    /\ wait = "wait"
    /\ ~alive
    /\ wait' = "closing"
    /\ \E k \in 0 .. Len(stdout) : stdout' = SubSeq(stdout, 1, k)
    /\ UNCHANGED <<callVars, stdin, answered, notes, alive, readerVars, user,
                   closeVars, panicked>>

\* Close, called by the runtime manager (Recycle, Remove, ApplyLaunchConfig).
Close ==
    /\ user = "idle"
    /\ user' = "closing"
    /\ UNCHANGED <<callVars, processVars, readerVars, wait, closeVars, panicked>>
-----------------------------------------------------------------------------
(***************************************************************************)
(* closeWithError: closeOnce lets one of its callers in and makes the      *)
(* others wait until it has finished.                                      *)
(***************************************************************************)
AtClose(who) ==
    CASE who = "reader" -> reader = "closing"
      [] who = "wait"   -> wait = "closing"
      [] who = "user"   -> user = "closing"

SignalClosed == closed' = TRUE

MarkClosed(who) ==
    /\ AtClose(who)
    /\ closeStep = "open"
    /\ closeStep' = "marked"
    /\ closer' = who
    /\ SignalClosed
    /\ UNCHANGED <<callVars, processVars, readerVars, wait, user, stdinOpen, panicked>>

ClearWaiters ==
    /\ closeStep = "marked"
    /\ closeStep' = "cleared"
    /\ panicked' = (panicked \/ \E c \in waiters : chan[c] # "open")
    /\ chan' = [c \in Callers |-> IF c \in waiters /\ chan[c] = "open"
                                  THEN "closed" ELSE chan[c]]
    /\ waiters' = {}
    /\ UNCHANGED <<call, outcome, processVars, readerVars, wait, user, closed, stdinOpen,
                   closer>>

\* Wrong variant: the process is left running.
OnlyStep ==
    /\ closeStep = "cleared"
    /\ closeStep' = "killed"
    /\ UNCHANGED <<callVars, processVars, readerVars, wait, user, closed, stdinOpen,
                   closer, panicked>>

KillProcess ==
    /\ closeStep = "cleared"
    /\ closeStep' = "killed"
    /\ stdinOpen' = FALSE
    /\ alive' = FALSE
    /\ UNCHANGED <<callVars, stdin, stdout, answered, notes, readerVars, wait, user,
                   closed, closer, panicked>>

\* Wrong variant: the handler calls Close and waits for itself.
HandlerCallsClose == closeStep = "killed" /\ FALSE /\ UNCHANGED vars

\* handler.HandleClosed runs inside closeOnce.
CallHandleClosed ==
    /\ closeStep = "killed"
    /\ closeStep' = "finished"
    /\ UNCHANGED <<callVars, processVars, readerVars, wait, user, closed, stdinOpen,
                   closer, panicked>>

OnceDone == closeStep = "finished"

LeaveClose(who) ==
    /\ AtClose(who)
    /\ OnceDone
    /\ reader' = IF who = "reader" THEN "ended" ELSE reader
    /\ wait' = IF who = "wait" THEN "exited" ELSE wait
    /\ user' = IF who = "user" THEN "done" ELSE user
    /\ UNCHANGED <<callVars, processVars, taken, closeVars, panicked>>
-----------------------------------------------------------------------------
CallStep(c) ==
    \/ StartWrite(c)
    \/ WriteRefused(c)
    \/ WriteFails(c)
    \/ SeesClosed(c)
    \/ TakesResponse(c)

ReaderStep == ReadResponse \/ DeliverResponse \/ ReadNotification \/ ReadEnds

CloseStep ==
    \/ \E who \in Closers : MarkClosed(who) \/ LeaveClose(who)
    \/ ClearWaiters
    \/ KillProcess
    \/ CallHandleClosed

Next ==
    \/ \E c \in Callers :
          \/ Register(c)
          \/ CallStep(c)
          \/ FinishWrite(c)
          \/ ContextEnds(c)
          \/ Answer(c)
    \/ Notify
    \/ Exit
    \/ ReaderStep
    \/ ProcessReaped
    \/ Close
    \/ CloseStep

Spec == Init /\ [][Next]_vars

\* The bridge's goroutines are scheduled; the process may hang, a context may
\* never end, and nobody has to call Close.
FairSpec ==
    /\ Spec
    /\ \A c \in Callers : WF_vars(CallStep(c))
    /\ WF_vars(ReaderStep)
    /\ WF_vars(ProcessReaped)
    /\ WF_vars(CloseStep)
-----------------------------------------------------------------------------
(***************************************************************************)
(* A response channel is settled once: dispatchResponse and closeWithError *)
(* never both send on or close the channel of one waiter, which would      *)
(* panic and take the whole server down.                                   *)
(***************************************************************************)
NoPanic == ~panicked

(***************************************************************************)
(* Once the waiters have been cleared nobody waits on a channel that no    *)
(* one will settle: a waiter still in the map belongs to a caller that has *)
(* yet to find the bridge closed in write.                                 *)
(***************************************************************************)
NoStrandedWaiter ==
    closeStep \in {"cleared", "killed", "finished"}
    => \A c \in waiters : call[c] = "write"

(***************************************************************************)
(* A call that has returned leaves nothing in the map, so that a long-     *)
(* lived bridge does not grow with the calls that failed or timed out; the *)
(* closed case of the select leaves the removal to closeWithError.         *)
(***************************************************************************)
NoLeakedWaiter ==
    \A c \in waiters : call[c] = "done" => closeStep = "marked" /\ outcome[c] = "closed"

(***************************************************************************)
(* WaitTimeout returning true means HandleClosed has returned: Recycle     *)
(* relies on it before it starts the next process of the workspace.        *)
(***************************************************************************)
ExitedMeansHandled == wait = "exited" => closeStep = "finished"

(***************************************************************************)
(* The answer of a call is never lost on its way while the bridge is open  *)
(* and the process has not been reaped: the call has it or has given up,   *)
(* or it is in the pipe, in readStdout's hands or in the call's channel    *)
(* (Call registers its waiter before it writes, dispatchResponse).  After  *)
(* that, an answered call may end with "bridge closed" or the zero message.*)
(***************************************************************************)
AnswerNotLost ==
    (~closed /\ wait = "wait") =>
        \A c \in answered :
            \/ outcome[c] \in {"answer", "timeout"}
            \/ taken = c
            \/ chan[c] = "message"
            \/ \E i \in 1 .. Len(stdout) : stdout[i] = c

(***************************************************************************)
(* Every call under way when the bridge closes returns, also one blocked   *)
(* in a write to a process that does not read.                             *)
(***************************************************************************)
CallsReturnAfterClose ==
    \A c \in Callers : (closed /\ call[c] # "idle") ~> (call[c] = "done")

(***************************************************************************)
(* When the process is gone, waitProcess reports it (closes exited), who-  *)
(* ever won closeOnce.                                                     *)
(***************************************************************************)
ExitIsReported == ~alive ~> (wait = "exited")
=============================================================================
