------------------------------ MODULE Connector ------------------------------
(***************************************************************************)
(* Connector (Connector.cpp): active connecting with retries.  The loop    *)
(* thread runs functors and retry timers and dispatches the events of the  *)
(* connecting socket, while start() and stop() are called in any thread    *)
(* and restart() in the loop thread, by the owner of a connection that was *)
(* closed.  TcpClient.tla is that owner, and has the specification.        *)
(*                                                                         *)
(* The connector, with what it has left in its loop, is a record; a method *)
(* is the set of the records it may leave, since what connect(2), SO_ERROR *)
(* and isSelfConnect() say is arbitrary.  A failed assertion aborts the    *)
(* program: aborted names the function.                                    *)
(***************************************************************************)
EXTENDS Integers, Sequences

CONSTANTS Threads,                              \* threads other than the loop's
          kInitRetryDelayMs, kMaxRetryDelayMs,
          MaxCalls,                             \* bound: calls of start() and stop()
          MaxTimers                             \* bound: retry timers pending

ASSUME ConnectorAssumption ==
    /\ kInitRetryDelayMs \in Nat \ {0}
    /\ kMaxRetryDelayMs \in Nat /\ kInitRetryDelayMs <= kMaxRetryDelayMs
    /\ MaxCalls \in Nat /\ MaxTimers \in Nat

VARIABLES
    M_connect,
    c,              \* the other members, and:
                    \*   queue        functors in M_loop
                    \*   timers       retry timers pending in M_loop
                    \*   ripe         of these, those due in this iteration
                    \*   sockets      sockets made by connect() and not closed
                    \*   connections  of these, those given to newConnectionCallback
                    \*   gaveUp       connect(2) failed with an error not retried
    phase,          \* of the loop's iteration
    batch,          \* doPendingFunctors(): functors still to run in this call
    pollout,        \* the event being handled also has POLLOUT
    pc,             \* per thread: the functor start() or stop() is to queue
    calls,          \* of start() and stop()
    lastCall,       \* history: the last of them
    overlapped,     \* history: start() was called and the connector was not idle
    aborted

counts        == <<calls, lastCall, overlapped>>
connectorVars == <<M_connect, c, phase, batch, pollout, pc, counts, aborted>>

(* A functor of the loop; of tells the connections of an owner apart.      *)
Functor(f) == [f |-> f, of |-> 0]
ConnectorFunctors == {"startInLoop", "stopInLoop", "resetChannel"}

(* The owner of the connector types the queue and aborted.                *)
ConnectorTypeOK ==
    /\ M_connect \in BOOLEAN
    /\ c.M_state \in {"kDisconnected", "kConnecting", "kConnected"}
    /\ c.M_retryDelayMs \in kInitRetryDelayMs .. kMaxRetryDelayMs
    /\ c.M_channel \in {"none", "registered", "removed"}
    /\ c.timers \in 0 .. MaxTimers /\ c.ripe \in 0 .. c.timers
    /\ phase \in {"events", "functors"}
    /\ batch \in 0 .. Len(c.queue)
    /\ c.sockets \in Nat /\ c.connections \in Nat
    /\ c.gaveUp \in BOOLEAN
    /\ pollout \in BOOLEAN
    /\ pc \in [Threads -> {"idle", "startInLoop", "stopInLoop"}]
    /\ calls \in 0 .. MaxCalls
    /\ lastCall \in {"none", "start", "stop"} /\ overlapped \in BOOLEAN

ConnectorInit ==
    /\ M_connect = FALSE
    /\ c = [M_state |-> "kDisconnected", M_retryDelayMs |-> kInitRetryDelayMs,
            M_channel |-> "none", queue |-> <<>>, timers |-> 0, ripe |-> 0,
            sockets |-> 0, connections |-> 0, gaveUp |-> FALSE]
    /\ phase = "events" /\ batch = 0
    /\ pollout = FALSE
    /\ pc = [t \in Threads |-> "idle"]
    /\ calls = 0 /\ lastCall = "none" /\ overlapped = FALSE
    /\ aborted = "no"

-----------------------------------------------------------------------------
(* The methods that run in the loop thread.  d is the connector before.    *)

Twice(delay) ==
    IF 2 * delay < kMaxRetryDelayMs THEN 2 * delay ELSE kMaxRetryDelayMs

(* Fault: no further attempt once the delay has reached its maximum.       *)
RetryGivesUp(d, connect) ==
    LET closed == [d EXCEPT !.M_state = "kDisconnected", !.sockets = @ - 1] IN
    IF connect /\ d.M_retryDelayMs < kMaxRetryDelayMs
    THEN [closed EXCEPT !.timers = @ + 1, !.M_retryDelayMs = Twice(@)]
    ELSE closed

(* Fault: the socket is not closed.                                        *)
RetryLeaks(d, connect) ==
    IF connect
    THEN [d EXCEPT !.M_state = "kDisconnected", !.timers = @ + 1,
                   !.M_retryDelayMs = Twice(@)]
    ELSE [d EXCEPT !.M_state = "kDisconnected"]

(* Fault: the state stays what it was.                                     *)
RetryKeepsState(d, connect) ==
    IF connect
    THEN [d EXCEPT !.sockets = @ - 1, !.timers = @ + 1, !.M_retryDelayMs = Twice(@)]
    ELSE [d EXCEPT !.sockets = @ - 1]

Retry(d, connect) ==
    LET closed == [d EXCEPT !.M_state = "kDisconnected", !.sockets = @ - 1] IN
    IF connect
    THEN [closed EXCEPT !.timers = @ + 1, !.M_retryDelayMs = Twice(@)]
    ELSE closed

Connecting(d) == [d EXCEPT !.M_state = "kConnecting", !.M_channel = "registered"]

(* connect(): in progress, to be retried, or an error that ends it.        *)
Connect(d, connect) ==
    LET opened == [d EXCEPT !.sockets = @ + 1, !.gaveUp = FALSE] IN
    {Connecting(opened), Retry(opened, connect), [d EXCEPT !.gaveUp = TRUE]}

(* Fault: M_connect is not looked at, nor when connect() retries.          *)
StartInLoopUnchecked(d, connect) == Connect(d, TRUE)

StartInLoop(d, connect) == IF connect THEN Connect(d, connect) ELSE {d}

(* The assertions of startInLoop() and, if it gets there, connecting().    *)
StartInLoopFails(d, e) ==
    IF d.M_state # "kDisconnected" THEN "startInLoop"
    ELSE IF e.M_state = "kConnecting" /\ d.M_channel # "none" THEN "connecting"
    ELSE "no"

(* Fault: resetChannel() is not queued.                                    *)
RemoveChannelOnly(d) == [d EXCEPT !.M_channel = "removed"]

RemoveAndResetChannel(d) ==
    [d EXCEPT !.M_channel = "removed", !.queue = Append(@, Functor("resetChannel"))]

StopInLoop(d, connect) ==
    IF d.M_state = "kConnecting" THEN Retry(RemoveAndResetChannel(d), connect) ELSE d

(* handleWrite(): without an error.                                        *)
Connected(d, connect) ==
    IF connect
    THEN [d EXCEPT !.M_state = "kConnected", !.connections = @ + 1]
    ELSE [d EXCEPT !.M_state = "kConnected", !.sockets = @ - 1]

HandleWrite(d, connect) ==
    IF d.M_state = "kConnecting"
    THEN LET removed == RemoveAndResetChannel(d) IN
         {Retry(removed, connect), Connected(removed, connect)}
    ELSE {d}

HandleError(d, connect) ==
    IF d.M_state = "kConnecting" THEN Retry(RemoveAndResetChannel(d), connect) ELSE d

-----------------------------------------------------------------------------
(* The loop thread: the events of an iteration, then the functors.  A      *)
(* functor queued by a functor waits for the next iteration, and so does a *)
(* timer that is set in this one.                                          *)

Running    == aborted = "no"
LoopIsFree == Running /\ ~pollout
Polled     == LoopIsFree /\ phase = "events"

(* poll() returns.  The retry timers are due, or not yet.                  *)
PollReturns(ripe) ==
    /\ LoopIsFree
    /\ phase = "functors" /\ batch = 0
    /\ phase' = "events"
    /\ c' = [c EXCEPT !.ripe = ripe]
    /\ UNCHANGED <<M_connect, batch, pollout, pc, counts, aborted>>

DoPendingFunctors ==
    /\ Polled
    /\ c.ripe = 0
    /\ phase' = "functors"
    /\ batch' = Len(c.queue)
    /\ UNCHANGED <<M_connect, c, pollout, pc, counts, aborted>>

(* The next functor of the batch is f.                                     *)
RunsFunctor(f) ==
    /\ LoopIsFree
    /\ batch > 0 /\ Head(c.queue).f = f
    /\ batch' = batch - 1

(* ~Connector(): assert(!M_channel), of a connector that nobody holds; the *)
(* retry timers do.                                                        *)
DestructorFails(d) == d.timers = 0 /\ d.M_channel # "none"

(* startInLoop(), called with the connector d, which others hold or which  *)
(* goes with its caller.                                                   *)
DoStartInLoop(d, connect, others) ==
    \E e \in StartInLoop(d, connect) :
        LET failed == StartInLoopFails(d, e) IN
        /\ e.timers <= MaxTimers
        /\ aborted' = IF failed = "no" /\ ~others /\ DestructorFails(e) THEN "~Connector"
                                                                      ELSE failed
        /\ c' = IF failed = "no" THEN e ELSE d

RunStartInLoop ==
    /\ RunsFunctor("startInLoop")
    /\ DoStartInLoop([c EXCEPT !.queue = Tail(@)], M_connect, TRUE)
    /\ UNCHANGED <<M_connect, phase, pollout, pc, counts>>

RunStopInLoop ==
    /\ RunsFunctor("stopInLoop")
    /\ c' = StopInLoop([c EXCEPT !.queue = Tail(@)], M_connect)
    /\ c'.timers <= MaxTimers
    /\ UNCHANGED <<M_connect, phase, pollout, pc, counts, aborted>>

ResetChannel ==
    /\ RunsFunctor("resetChannel")
    /\ c' = [c EXCEPT !.queue = Tail(@), !.M_channel = "none"]
    /\ UNCHANGED <<M_connect, phase, pollout, pc, counts, aborted>>

RetryTimer(others) ==
    /\ Polled
    /\ c.ripe > 0
    /\ DoStartInLoop([c EXCEPT !.timers = @ - 1, !.ripe = @ - 1], M_connect, others)
    /\ UNCHANGED <<M_connect, phase, batch, pollout, pc, counts>>

(* An event of the socket: POLLERR, perhaps with POLLOUT, or POLLOUT.      *)
ErrorEvent ==
    /\ Polled
    /\ c.M_channel = "registered"
    /\ c' = HandleError(c, M_connect)
    /\ c'.timers <= MaxTimers
    /\ pollout' \in BOOLEAN
    /\ UNCHANGED <<M_connect, phase, batch, pc, counts, aborted>>

WriteEvent ==
    /\ Running /\ phase = "events"
    /\ pollout \/ c.M_channel = "registered"
    /\ IF c.M_state = "kConnected"
       THEN aborted' = "handleWrite" /\ UNCHANGED c
       ELSE c' \in HandleWrite(c, M_connect) /\ UNCHANGED aborted
    /\ c'.timers <= MaxTimers
    /\ pollout' = FALSE
    /\ UNCHANGED <<M_connect, phase, batch, pc, counts>>

(* restart(), by the owner of the connection that has been closed.         *)
Restart ==
    /\ M_connect' = TRUE
    /\ DoStartInLoop([c EXCEPT !.M_state = "kDisconnected",
                               !.M_retryDelayMs = kInitRetryDelayMs], TRUE, TRUE)
    /\ UNCHANGED <<phase, batch, pollout, pc, counts>>

-----------------------------------------------------------------------------
(* start() and stop(), in any thread and in any order.                     *)

Queued(f) == \E i \in DOMAIN c.queue : c.queue[i].f = f

ConnectorFunctorQueued == \E f \in ConnectorFunctors : Queued(f)

(* Nothing is left of earlier calls: neither an attempt, nor a connection, *)
(* nor a retry timer, nor a functor.                                       *)
ConnectorIdle ==
    /\ c.M_state = "kDisconnected" /\ c.timers = 0
    /\ ~ConnectorFunctorQueued
    /\ \A t \in Threads : pc[t] = "idle"

(* The next call.                                                          *)
Calls(call) ==
    /\ calls < MaxCalls
    /\ calls' = calls + 1
    /\ lastCall' = call
    /\ M_connect' = (call = "start")
    /\ overlapped' = (overlapped \/ (call = "start" /\ ~ConnectorIdle))

LoopStart ==
    /\ LoopIsFree
    /\ Calls("start")
    /\ DoStartInLoop(c, TRUE, TRUE)
    /\ UNCHANGED <<phase, batch, pollout, pc>>

LoopStop ==
    /\ LoopIsFree
    /\ Calls("stop")
    /\ c' = [c EXCEPT !.queue = Append(@, Functor("stopInLoop"))]
    /\ UNCHANGED <<phase, batch, pollout, pc, aborted>>

(* In another thread: M_connect, then the functor.                         *)
Start(t) ==
    /\ Running
    /\ pc[t] = "idle"
    /\ Calls("start")
    /\ pc' = [pc EXCEPT ![t] = "startInLoop"]
    /\ UNCHANGED <<c, phase, batch, pollout, aborted>>

Stop(t) ==
    /\ Running
    /\ pc[t] = "idle"
    /\ Calls("stop")
    /\ pc' = [pc EXCEPT ![t] = "stopInLoop"]
    /\ UNCHANGED <<c, phase, batch, pollout, aborted>>

Queues(t) ==
    /\ Running
    /\ pc[t] # "idle"
    /\ c' = [c EXCEPT !.queue = Append(@, Functor(pc[t]))]
    /\ pc' = [pc EXCEPT ![t] = "idle"]
    /\ UNCHANGED <<M_connect, phase, batch, pollout, counts, aborted>>

-----------------------------------------------------------------------------
(* startInLoop()/retry()/restart(): there is one attempt, one connection   *)
(* or one retry timer at a time, not two of them, whatever the owner does  *)
(* with its connection and however often it stops the connector and starts *)
(* it again; the exception is a start() before the last one has ended.     *)
SingleAttempt ==
    overlapped \/
    c.timers + c.connections + (IF c.M_state = "kConnecting" THEN 1 ELSE 0) <= 1

(* connect()/retry()/handleWrite(): each socket is being connected in the  *)
(* registered channel, or was handed over, or is closed, once.             *)
SocketsAreOwned ==
    /\ c.sockets = c.connections + (IF c.M_state = "kConnecting" THEN 1 ELSE 0)
    /\ (c.M_state = "kConnecting") = (c.M_channel = "registered")

(* retry(): as long as it should connect, an unconnected connector that    *)
(* was started has a next attempt coming: none of the failures, nor a      *)
(* stop() that races with them, ends the retries unnoticed.                *)
RetryIsPending ==
    (Running /\ M_connect /\ c.M_state = "kDisconnected" /\ ~c.gaveUp) =>
        c.timers > 0 \/ Queued("startInLoop") \/ \E t \in Threads : pc[t] = "startInLoop"

-----------------------------------------------------------------------------
(* What a comment or an assertion of the code says and the code does not   *)
(* keep (README, section 4.3).                                             *)

(* start(), "can be called in any thread" (Connector.h:29), and            *)
(* startInLoop(), which asserts M_state == kDisconnected.                  *)
StartsWhenDisconnected == aborted # "startInLoop"

=============================================================================
