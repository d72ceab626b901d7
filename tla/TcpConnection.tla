---------------------------- MODULE TcpConnection ----------------------------
(***************************************************************************)
(* TcpConnection (TcpConnection.cpp): one connection between               *)
(* connectEstablished() and connectDestroyed(), with its Channel, the loop *)
(* that owns it and the threads that call its public functions.            *)
(*                                                                         *)
(* The loop thread alternates between the dispatch of the channel's events *)
(* (handleEventWithGuard() runs up to three handlers for one report) and   *)
(* the functors queued for this connection, in FIFO order (see             *)
(* SerialExecutor).  User callbacks run inside both; there, and in other   *)
(* functors of the same loop, users call the connection directly.  Other   *)
(* threads test M_state, set it and queue a functor in three steps.        *)
(*                                                                         *)
(* Bytes are numbered in the order in which sendInLoop() takes them.       *)
(* POLLERR is absent: handleError() only logs.                             *)
(***************************************************************************)
EXTENDS Integers, Sequences

CONSTANTS Threads,       \* threads other than the loop's
          LoopCalls,     \* what users call in the loop thread
          ThreadCalls,   \* what they call in the other threads
          HighWaterMark, \* M_highWaterMark, in bytes
          MaxBytes,      \* bound: bytes handed to send()
          MaxQueue       \* bound: functors of users in the queue

AllCalls == {"send", "shutdown", "forceClose", "forceCloseWithDelay",
             "startRead", "stopRead"}

ASSUME TcpConnectionAssumption ==
    /\ LoopCalls \subseteq AllCalls
    /\ ThreadCalls \subseteq AllCalls \ {"forceCloseWithDelay"}
    /\ HighWaterMark \in Nat /\ MaxBytes \in Nat /\ MaxQueue \in Nat

VARIABLES
    M_state,
    M_reading,
    interest,         \* M_channel->events()
    registered,       \* the poller reports events of M_channel
    M_outputBuffer,   \* numbers of the bytes waiting to be written
    wire,             \* numbers of the bytes write(2) has taken
    broken,           \* the kernel: the peer has reset the connection
    halfClosed,       \* M_socket->shutdownWrite() was called
    queue,            \* M_loop: pending functors of this connection
    todo,             \* handlers left of the current handleEventWithGuard()
    callback,         \* the user callback that is running
    pc,               \* per thread: the step of the call it is in
    overtaken,        \* history: the call of a thread changed the connection
                      \* when it was already closed
    timer,            \* forceCloseWithDelay(): the timer is running
    removing,         \* calls of M_closeCallback not yet taken up by the owner
    asked,            \* bytes handed to send()
    accepted,         \* bytes taken by sendInLoop()
    closes,           \* history: calls of M_closeCallback
    removed,          \* the owner has erased the connection from its map
    destroyed,        \* history: connectDestroyed() has run
    aborted           \* an assertion of handleClose() or of the owner failed

connVars   == <<M_state, M_reading>>
chanVars   == <<interest, registered>>
outVars    == <<M_outputBuffer, wire, broken, halfClosed, accepted>>
ownerVars  == <<removing, removed, closes, destroyed>>
threadVars == <<pc, overtaken>>
vars       == <<connVars, chanVars, outVars, ownerVars, threadVars, queue, todo,
                callback, timer, asked, aborted>>

Functor(f)  == [f |-> f, len |-> 0]
SendOf(len) == [f |-> "send", len |-> len]
FunctorNames == AllCalls \union
    {"writeComplete", "highWaterMark", "connectEstablished", "connectDestroyed"}

TypeOK ==
    /\ M_state \in {"kConnecting", "kConnected", "kDisconnecting", "kDisconnected"}
    /\ M_reading \in BOOLEAN
    /\ interest \subseteq {"read", "write"}
    /\ registered \in BOOLEAN
    /\ M_outputBuffer \in Seq(1 .. MaxBytes)
    /\ wire \in Seq(1 .. MaxBytes)
    /\ broken \in BOOLEAN
    /\ halfClosed \in BOOLEAN
    /\ queue \in Seq([f : FunctorNames, len : 0 .. MaxBytes])
    /\ todo \subseteq {"close", "read", "write"}
    /\ callback \in {"none", "up", "message", "down", "functor"}
    /\ pc \in [Threads -> [step : {"run", "set", "queue"}, call : AllCalls,
                           len : 0 .. MaxBytes]]
    /\ overtaken \in BOOLEAN
    /\ timer \in BOOLEAN
    /\ removing \in Nat
    /\ closes \in Nat
    /\ asked \in 0 .. MaxBytes
    /\ accepted \in 0 .. asked
    /\ removed \in BOOLEAN
    /\ destroyed \in BOOLEAN
    /\ aborted \in BOOLEAN

Idle == [step |-> "run", call |-> "send", len |-> 0]

(* TcpServer::newConnection() has constructed the object and queued        *)
(* connectEstablished().                                                   *)
Init ==
    /\ M_state = "kConnecting"
    /\ M_reading = TRUE
    /\ interest = {}
    /\ registered = FALSE
    /\ M_outputBuffer = <<>>
    /\ wire = <<>>
    /\ broken = FALSE
    /\ halfClosed = FALSE
    /\ queue = <<Functor("connectEstablished")>>
    /\ todo = {}
    /\ callback = "none"
    /\ pc = [t \in Threads |-> Idle]
    /\ overtaken = FALSE
    /\ timer = FALSE
    /\ removing = 0
    /\ asked = 0
    /\ accepted = 0
    /\ closes = 0
    /\ removed = FALSE
    /\ destroyed = FALSE
    /\ aborted = FALSE

Open == M_state \in {"kConnected", "kDisconnecting"}

-----------------------------------------------------------------------------
(* Functions of the connection that run in the loop thread.                *)

(* Channel::update() with EPollPoller: a registered channel that loses its *)
(* last interest is deleted from the epoll set, any other is added.        *)
Update(events) ==
    /\ interest' = events
    /\ registered' = (~registered \/ events # {})

(* Faults: the two tests of sendInLoop() left out.                         *)
GivesUpNever == FALSE
TriesDirectlyAlways == TRUE

(* sendInLoop(): "disconnected, give up writing"; "if no thing in output   *)
(* queue, try writing directly".                                           *)
GivesUp == M_state = "kDisconnected"
TriesDirectly == "write" \notin interest /\ M_outputBuffer = <<>>

(* sendInLoop(): the rest of the functor queue is q.  n bytes are written  *)
(* directly, unless output is pending; a fault is EPIPE or ECONNRESET.     *)
SendInLoop(len, q) ==
    \/ /\ GivesUp
       /\ queue' = q
       /\ UNCHANGED <<outVars, chanVars>>
    \/ /\ ~GivesUp
       /\ \E n \in 0 .. len, faultError \in BOOLEAN :
            LET data      == [i \in 1 .. len |-> accepted + i]
                remaining == len - n
                oldLen    == Len(M_outputBuffer)
                keep      == ~faultError /\ remaining > 0
                overMark  == /\ keep
                             /\ oldLen + remaining >= HighWaterMark
                             /\ oldLen < HighWaterMark
            IN /\ ~TriesDirectly => n = 0 /\ ~faultError
               /\ TriesDirectly /\ (halfClosed \/ broken) => faultError
               /\ faultError => n = 0
               /\ broken' = (broken \/ (faultError /\ ~halfClosed))
               /\ wire' = wire \o SubSeq(data, 1, n)
               /\ queue' = q \o (IF n = len THEN <<Functor("writeComplete")>> ELSE <<>>)
                             \o (IF overMark THEN <<Functor("highWaterMark")>> ELSE <<>>)
               /\ IF keep
                  THEN /\ M_outputBuffer' = M_outputBuffer \o SubSeq(data, n + 1, len)
                       /\ IF "write" \in interest THEN UNCHANGED chanVars
                                                  ELSE Update(interest \union {"write"})
                  ELSE UNCHANGED <<M_outputBuffer, chanVars>>
       /\ accepted' = accepted + len
       /\ UNCHANGED halfClosed

(* Fault: without the test of isWriting().                                 *)
ShutdownInLoopAtOnce ==
    /\ halfClosed' = TRUE
    /\ UNCHANGED <<M_outputBuffer, wire, broken, accepted>>

ShutdownInLoop ==
    /\ halfClosed' = (halfClosed \/ "write" \notin interest)
    /\ UNCHANGED <<M_outputBuffer, wire, broken, accepted>>

StartReadInLoop ==
    IF ~M_reading \/ "read" \notin interest
    THEN Update(interest \union {"read"}) /\ M_reading' = TRUE
    ELSE UNCHANGED <<chanVars, M_reading>>

StopReadInLoop ==
    IF M_reading \/ "read" \in interest
    THEN Update(interest \ {"read"}) /\ M_reading' = FALSE
    ELSE UNCHANGED <<chanVars, M_reading>>

(* Fault: handleClose() without disableAll().                              *)
HandleCloseKeepsEvents ==
    IF Open
    THEN /\ M_state' = "kDisconnected"
         /\ callback' = "down"
         /\ UNCHANGED <<chanVars, aborted>>
    ELSE /\ aborted' = TRUE
         /\ UNCHANGED <<M_state, chanVars, callback>>

(* handleClose() up to its connection callback; M_closeCallback follows in *)
(* DownReturns.                                                            *)
HandleClose ==
    IF Open
    THEN /\ M_state' = "kDisconnected"
         /\ Update({})
         /\ callback' = "down"
         /\ UNCHANGED aborted
    ELSE /\ aborted' = TRUE
         /\ UNCHANGED <<M_state, chanVars, callback>>

(* Fault: handleClose() does not call M_closeCallback.                     *)
DownReturnsSilently ==
    /\ callback = "down"
    /\ callback' = "none"
    /\ UNCHANGED <<connVars, chanVars, outVars, ownerVars, queue, todo, threadVars,
                   timer, asked, aborted>>

DownReturns ==
    /\ callback = "down"
    /\ callback' = "none"
    /\ closes' = closes + 1
    /\ removing' = removing + 1
    /\ UNCHANGED <<connVars, chanVars, outVars, removed, destroyed, queue, todo,
                   threadVars, timer, asked, aborted>>

CallbackReturns ==
    /\ callback \in {"up", "message", "functor"}
    /\ callback' = "none"
    /\ UNCHANGED <<connVars, chanVars, outVars, ownerVars, queue, todo, threadVars,
                   timer, asked, aborted>>

-----------------------------------------------------------------------------
(* The dispatch of one report of the poller.                               *)

AtRest == todo = {} /\ callback = "none"

(* POLLIN and POLLOUT are reported when asked for; POLLHUP always, and the *)
(* kernel raises POLLIN with it.  handleEventWithGuard() runs the close    *)
(* callback for POLLHUP without POLLIN.                                    *)
Poll(handlers) ==
    /\ AtRest
    /\ registered
    /\ handlers # {}
    /\ "read" \in handlers => "read" \in interest
    /\ "write" \in handlers => "write" \in interest
    /\ "close" \in handlers => "read" \notin interest
    /\ todo' = handlers
    /\ UNCHANGED <<connVars, chanVars, outVars, ownerVars, queue, callback, threadVars,
                   timer, asked, aborted>>

CloseEvent ==
    /\ callback = "none"
    /\ "close" \in todo
    /\ todo' = todo \ {"close"}
    /\ HandleClose
    /\ UNCHANGED <<M_reading, outVars, ownerVars, queue, threadVars, timer,
                   asked>>

(* handleRead(): n > 0, n == 0 or n < 0.                                   *)
HandleRead ==
    /\ callback = "none"
    /\ "close" \notin todo
    /\ "read" \in todo
    /\ todo' = todo \ {"read"}
    /\ \/ callback' = "message" /\ UNCHANGED <<M_state, chanVars, aborted>>
       \/ HandleClose
       \/ UNCHANGED <<M_state, chanVars, callback, aborted>>
    /\ UNCHANGED <<M_reading, outVars, ownerVars, queue, threadVars, timer,
                   asked>>

(* Fault: handleWrite() without disableWriting().                          *)
WriteSucceedsKeepsWriting(n) ==
    /\ "write" \in interest /\ ~halfClosed /\ ~broken
    /\ wire' = wire \o SubSeq(M_outputBuffer, 1, n)
    /\ M_outputBuffer' = <<>>
    /\ queue' = Append(queue, Functor("writeComplete"))
    /\ UNCHANGED <<chanVars, halfClosed, broken, accepted>>

(* Fault: handleWrite() without shutdownInLoop().                          *)
WriteSucceedsStaysOpen(n) ==
    /\ "write" \in interest /\ ~halfClosed /\ ~broken
    /\ wire' = wire \o SubSeq(M_outputBuffer, 1, n)
    /\ M_outputBuffer' = <<>>
    /\ Update(interest \ {"write"})
    /\ queue' = Append(queue, Functor("writeComplete"))
    /\ UNCHANGED <<halfClosed, broken, accepted>>

(* handleWrite(): write(2) takes n > 0 bytes and retrieveAll() empties the *)
(* buffer; or it fails and nothing changes.                                *)
WriteSucceeds(n) ==
    /\ "write" \in interest /\ ~halfClosed /\ ~broken
    /\ wire' = wire \o SubSeq(M_outputBuffer, 1, n)
    /\ M_outputBuffer' = <<>>
    /\ Update(interest \ {"write"})
    /\ queue' = Append(queue, Functor("writeComplete"))
    /\ halfClosed' = (M_state = "kDisconnecting")
    /\ UNCHANGED <<broken, accepted>>

HandleWrite ==
    /\ callback = "none"
    /\ todo = {"write"}
    /\ todo' = {}
    /\ \/ \E n \in 1 .. Len(M_outputBuffer) : WriteSucceeds(n)
       \/ UNCHANGED <<outVars, chanVars, queue>>
    /\ UNCHANGED <<connVars, ownerVars, callback, threadVars, timer, asked,
                   aborted>>

-----------------------------------------------------------------------------
(* The functors of the queue.                                              *)

Runs(f) == AtRest /\ queue # <<>> /\ Head(queue).f = f

RunSend ==
    /\ Runs("send")
    /\ SendInLoop(Head(queue).len, Tail(queue))
    /\ UNCHANGED <<connVars, ownerVars, todo, callback, threadVars, timer,
                   asked, aborted>>

RunShutdown ==
    /\ Runs("shutdown")
    /\ ShutdownInLoop
    /\ queue' = Tail(queue)
    /\ UNCHANGED <<connVars, chanVars, ownerVars, todo, callback, threadVars,
                   timer, asked, aborted>>

RunForceClose ==
    /\ Runs("forceClose")
    /\ queue' = Tail(queue)
    /\ IF Open THEN HandleClose ELSE UNCHANGED <<M_state, chanVars, callback, aborted>>
    /\ UNCHANGED <<M_reading, outVars, ownerVars, todo, threadVars, timer, asked>>

RunReadSwitch ==
    /\ \/ Runs("startRead") /\ StartReadInLoop
       \/ Runs("stopRead") /\ StopReadInLoop
    /\ queue' = Tail(queue)
    /\ overtaken' = (overtaken \/ ~Open)
    /\ UNCHANGED <<M_state, outVars, ownerVars, todo, callback, pc, timer,
                   asked, aborted>>

RunUserCallback ==
    /\ Runs("writeComplete") \/ Runs("highWaterMark")
    /\ queue' = Tail(queue)
    /\ callback' = "functor"
    /\ UNCHANGED <<connVars, chanVars, outVars, ownerVars, todo, threadVars,
                   timer, asked, aborted>>

ConnectEstablished ==
    /\ Runs("connectEstablished")
    /\ queue' = Tail(queue)
    /\ M_state' = "kConnected"
    /\ Update({"read"})
    /\ callback' = "up"
    /\ UNCHANGED <<M_reading, outVars, ownerVars, todo, threadVars, timer,
                   asked, aborted>>

(* Declared and bound by the owners but defined nowhere: as its uses       *)
(* require, it leaves kDisconnected behind and a channel without interest  *)
(* that is removed from the poller.                                        *)
ConnectDestroyed ==
    /\ Runs("connectDestroyed")
    /\ queue' = Tail(queue)
    /\ M_state' = "kDisconnected"
    /\ interest' = {}
    /\ registered' = FALSE
    /\ destroyed' = TRUE
    /\ UNCHANGED <<M_reading, outVars, removing, removed, closes, todo, callback,
                   threadVars, timer, asked, aborted>>

(* The owner: M_closeCallback leads, in the owner's loop, to the removal   *)
(* from its map, which asserts that the connection is there, and to        *)
(* queueInLoop(connectDestroyed).                                          *)
RemoveConnection ==
    /\ removing > 0
    /\ removing' = removing - 1
    /\ removed' = TRUE
    /\ IF removed
       THEN aborted' = TRUE /\ UNCHANGED queue
       ELSE queue' = Append(queue, Functor("connectDestroyed")) /\ UNCHANGED aborted
    /\ UNCHANGED <<connVars, chanVars, outVars, closes, destroyed, todo,
                   callback, threadVars, timer, asked>>

-----------------------------------------------------------------------------
(* Users in the loop thread: in a callback of this connection or in any    *)
(* other functor of the loop.  They know the connection since its "up"     *)
(* callback, and do not switch reading once it is down.  Bound: nobody, in *)
(* any thread, calls once a call was overtaken by the close.               *)

InUserCode == /\ callback # "none" \/ AtRest
              /\ M_state # "kConnecting"
              /\ ~overtaken

Send(len) ==
    /\ "send" \in LoopCalls /\ InUserCode
    /\ M_state = "kConnected"
    /\ asked + len <= MaxBytes
    /\ asked' = asked + len
    /\ SendInLoop(len, queue)
    /\ UNCHANGED <<connVars, ownerVars, todo, callback, threadVars, timer,
                   aborted>>

Shutdown ==
    /\ "shutdown" \in LoopCalls /\ InUserCode
    /\ M_state = "kConnected"
    /\ M_state' = "kDisconnecting"
    /\ ShutdownInLoop
    /\ UNCHANGED <<M_reading, chanVars, ownerVars, queue, todo, callback, threadVars,
                   timer, asked, aborted>>

ForceClose ==
    /\ "forceClose" \in LoopCalls /\ InUserCode
    /\ Open
    /\ Len(queue) < MaxQueue
    /\ M_state' = "kDisconnecting"
    /\ queue' = Append(queue, Functor("forceClose"))
    /\ UNCHANGED <<M_reading, chanVars, outVars, ownerVars, todo, callback, threadVars,
                   timer, asked, aborted>>

ForceCloseWithDelay ==
    /\ "forceCloseWithDelay" \in LoopCalls /\ InUserCode
    /\ Open
    /\ ~timer
    /\ M_state' = "kDisconnecting"
    /\ timer' = TRUE
    /\ UNCHANGED <<M_reading, chanVars, outVars, ownerVars, queue, todo,
                   callback, threadVars, asked, aborted>>

(* The timer's weak callback: forceClose(), if the object still exists.    *)
DelayExpires ==
    /\ AtRest
    /\ timer
    /\ Len(queue) < MaxQueue
    /\ timer' = FALSE
    /\ IF Open
       THEN /\ M_state' = "kDisconnecting"
            /\ queue' = Append(queue, Functor("forceClose"))
       ELSE UNCHANGED <<M_state, queue>>
    /\ UNCHANGED <<M_reading, chanVars, outVars, ownerVars, todo, callback, threadVars,
                   asked, aborted>>

ReadSwitch ==
    /\ InUserCode /\ Open
    /\ \/ "startRead" \in LoopCalls /\ StartReadInLoop
       \/ "stopRead" \in LoopCalls /\ StopReadInLoop
    /\ UNCHANGED <<M_state, outVars, ownerVars, queue, todo, callback, threadVars,
                   timer, asked, aborted>>

-----------------------------------------------------------------------------
(* Users in another thread: the test of M_state, its assignment and the    *)
(* queueInLoop() are three steps.                                          *)

threadUnchanged == <<M_reading, chanVars, outVars, ownerVars, todo, callback,
                     timer, aborted>>

Test(t, call, len) ==
    /\ pc[t].step = "run"
    /\ call \in ThreadCalls
    /\ ~overtaken
    /\ M_state # "kConnecting"
    /\ call \in {"send", "shutdown"} => M_state = "kConnected"
    /\ call = "forceClose" => Open
    /\ (call # "send") <=> (len = 0)
    /\ asked + len <= MaxBytes
    /\ asked' = asked + len
    /\ pc' = [pc EXCEPT ![t] =
                [step |-> IF call \in {"shutdown", "forceClose"} THEN "set" ELSE "queue",
                 call |-> call, len |-> len]]
    /\ UNCHANGED <<threadUnchanged, M_state, queue, overtaken>>

SetState(t) ==
    /\ pc[t].step = "set"
    /\ M_state' = "kDisconnecting"
    /\ overtaken' = (overtaken \/ ~Open)
    /\ pc' = [pc EXCEPT ![t].step = "queue"]
    /\ UNCHANGED <<threadUnchanged, queue, asked>>

QueueInLoop(t) ==
    /\ pc[t].step = "queue"
    /\ Len(queue) < MaxQueue
    /\ queue' = Append(queue, [f |-> pc[t].call, len |-> pc[t].len])
    /\ pc' = [pc EXCEPT ![t] = Idle]
    /\ UNCHANGED <<threadUnchanged, M_state, asked, overtaken>>

-----------------------------------------------------------------------------
Handlers == {h \in SUBSET {"close", "read", "write"} : ~({"close", "read"} \subseteq h)}

DispatchStep ==
    \/ DownReturns
    \/ CallbackReturns
    \/ CloseEvent
    \/ HandleRead
    \/ HandleWrite

FunctorStep ==
    \/ RunSend
    \/ RunShutdown
    \/ RunForceClose
    \/ RunReadSwitch
    \/ RunUserCallback
    \/ ConnectEstablished
    \/ ConnectDestroyed

UserStep ==
    \/ \E len \in 1 .. MaxBytes : Send(len)
    \/ Shutdown
    \/ ForceClose
    \/ ForceCloseWithDelay
    \/ ReadSwitch

ThreadStep(t) ==
    \/ \E call \in ThreadCalls, len \in 0 .. MaxBytes : Test(t, call, len)
    \/ SetState(t)
    \/ QueueInLoop(t)

Next ==
    /\ ~aborted
    /\ \/ DispatchStep
       \/ FunctorStep
       \/ \E h \in Handlers : Poll(h)
       \/ RemoveConnection
       \/ DelayExpires
       \/ UserStep
       \/ \E t \in Threads : ThreadStep(t)

Spec == Init /\ [][Next]_vars

(* Every thread is scheduled, callbacks return, each iteration of loop()   *)
(* ends with doPendingFunctors(), timers expire, and a peer that keeps     *)
(* reading makes the socket writable again and again.                      *)
Fairness ==
    /\ WF_vars(DispatchStep)
    /\ SF_vars(FunctorStep)
    /\ WF_vars(RemoveConnection)
    /\ SF_vars(DelayExpires)
    /\ SF_vars(Poll({"write"}))
    /\ SF_vars(HandleWrite /\ M_outputBuffer' = <<>>)
    /\ \A t \in Threads : WF_vars(SetState(t)) /\ SF_vars(QueueInLoop(t))

FairSpec == Spec /\ Fairness

-----------------------------------------------------------------------------
(* sendInLoop()/handleWrite()/shutdownInLoop(): while the connection is    *)
(* open, the channel waits for POLLOUT exactly when output is pending.     *)
(* Were it not so, pending bytes would never be sent, or poll() would spin.*)
WritingIffPending ==
    Open /\ ~overtaken => ("write" \in interest <=> M_outputBuffer # <<>>)

(* sendInLoop(): a byte is never written twice and never overtakes one     *)
(* that sendInLoop() took before it, whatever goes directly to write(2)    *)
(* and whatever through the buffer, and however the calls race.            *)
BytesInOrder ==
    LET out == wire \o M_outputBuffer IN
    \A i, j \in DOMAIN out : i < j => out[i] < out[j]

(* handleClose(): POLLHUP, end of file and forceClose() may all come, in   *)
(* one report or in several: the owner is told once, and the connection is *)
(* not closed again.  Two things can break this: a call overtaken by the   *)
(* close, and a channel that asks for nothing and is registered again.     *)
ClosedOnce ==
    ~overtaken =>
        /\ closes <= 1
        /\ aborted => M_state = "kDisconnected" /\ registered /\ interest = {}

(* connectDestroyed(): once it has run, the poller does not know the       *)
(* channel any more and no handler is left to run on it.                   *)
DestroyedIsQuiet ==
    destroyed /\ ~overtaken => ~registered /\ interest = {} /\ todo = {}

(* shutdown(): unless the connection is down, the socket is half closed    *)
(* only by a connection that is closing, after all accepted bytes have     *)
(* left the output buffer.                                                 *)
HalfCloseAfterOutput ==
    [][halfClosed' /\ ~halfClosed /\ ~overtaken' =>
         \/ M_state' = "kDisconnected"
         \/ M_state' = "kDisconnecting" /\ M_outputBuffer' = <<>>]_vars

(* shutdown()/forceClose(): a connection that is closing is half closed,   *)
(* after its output, or goes down, unless the peer resets it.              *)
ClosingCompletes ==
    M_state = "kDisconnecting"
        ~> (halfClosed \/ M_state = "kDisconnected" \/ broken \/ overtaken)

(* handleClose(): the owner gets to destroy the connection.                *)
DownIsDestroyed == M_state = "kDisconnected" ~> (destroyed \/ aborted)

-----------------------------------------------------------------------------
(* What a comment or an assertion of the code says and the code does not   *)
(* keep (README, section 4.3).                                             *)

(* handleClose(): assert(M_state == kConnected || M_state ==               *)
(* kDisconnecting), even if every call runs in the loop thread.            *)
ClosesWhileOpen == ~overtaken => ~aborted

(* sendInLoop()/handleWrite(): "write complete" is announced only when     *)
(* every accepted byte was written.                                        *)
WriteCompleteMeansWritten ==
    [][(\E i \in 1 .. Len(queue') : queue'[i].f = "writeComplete" /\ i > Len(queue))
         => Len(wire') = accepted']_vars

=============================================================================
