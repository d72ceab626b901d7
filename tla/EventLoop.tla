------------------------------ MODULE EventLoop ------------------------------
(***************************************************************************)
(* EventLoop (EventLoop.cpp): the reactor that one thread runs and that    *)
(* other threads hand functors to.                                         *)
(*                                                                         *)
(* One loop thread executes loop(): test M_quit, block in poll(), dispatch *)
(* the active channels, run the pending functors, repeat.  Any number of   *)
(* other threads call queueInLoop() (runInLoop() is the same call for      *)
(* them) and quit().  A critical section of M_mutex is one step; between   *)
(* the critical section of queueInLoop() and its wakeup(), and between the *)
(* assignment of M_quit and the wakeup() of quit(), every other thread may *)
(* run.  User code runs in the loop thread outside loop(), in the callback *)
(* of an I/O channel and in a functor; there it may call queueInLoop() and *)
(* quit().  runInLoop() in the loop thread is a plain nested call and      *)
(* changes nothing here.                                                   *)
(*                                                                         *)
(* wakeupFd is the eventfd, abstracted to "readable": write(2) makes it    *)
(* readable and read(2) resets it, whatever the counter's value.           *)
(***************************************************************************)
EXTENDS Sequences, FiniteSets, Functions

CONSTANTS Threads,         \* the threads that do not own the loop
          Functors,        \* identities of the calls to queueInLoop
          Channels,        \* I/O channels registered with the poller
          WakeupChannel,   \* M_wakeupChannel
          NoFunctor,       \* no functor is being executed
          NoChannel        \* M_currentActiveChannel = NULL

ASSUME EventLoopAssumption ==
    /\ WakeupChannel \notin Channels
    /\ NoChannel \notin Channels \union {WakeupChannel}
    /\ NoFunctor \notin Functors

VARIABLES
    M_looping, M_quit,
    M_callingPendingFunctors,
    M_pendingFunctors,       \* guarded by M_mutex
    M_activeChannels,        \* reported by poll() and not yet dispatched
    M_currentActiveChannel,
    wakeupFd,                \* TRUE iff the eventfd is readable
    lpc,                     \* where the loop thread is in loop()
    functors,                \* doPendingFunctors: the batch swapped out
    running,                 \* doPendingFunctors: functors[i], while it runs
    pc,                      \* where each other thread is
    queued,                  \* history: functors ever queued
    early,                   \* history: queued by the owner outside loop()
    ran                      \* history: functors that have returned

loopVars   == <<M_looping, M_callingPendingFunctors, M_activeChannels,
                M_currentActiveChannel, lpc, functors, running>>
queueVars  == <<M_pendingFunctors, queued, early>>
vars       == <<loopVars, queueVars, M_quit, wakeupFd, pc, ran>>

TypeOK ==
    /\ M_looping \in BOOLEAN
    /\ M_quit \in BOOLEAN
    /\ M_callingPendingFunctors \in BOOLEAN
    /\ M_pendingFunctors \in Seq(Functors)
    /\ M_activeChannels \subseteq Channels \union {WakeupChannel}
    /\ M_currentActiveChannel \in Channels \union {NoChannel}
    /\ wakeupFd \in BOOLEAN
    /\ lpc \in {"idle", "test", "poll", "handle", "call"}
    /\ functors \in Seq(Functors)
    /\ running \in Functors \union {NoFunctor}
    /\ pc \in [Threads -> {"run", "wakeup"}]
    /\ queued \subseteq Functors
    /\ early \subseteq Functors
    /\ ran \subseteq Functors

Init ==
    /\ M_looping = FALSE
    /\ M_quit = FALSE
    /\ M_callingPendingFunctors = FALSE
    /\ M_pendingFunctors = <<>>
    /\ M_activeChannels = {}
    /\ M_currentActiveChannel = NoChannel
    /\ wakeupFd = FALSE
    /\ lpc = "idle"
    /\ functors = <<>>
    /\ running = NoFunctor
    /\ pc = [t \in Threads |-> "run"]
    /\ queued = {}
    /\ early = {}
    /\ ran = {}

-----------------------------------------------------------------------------
(* loop(): entry, while(!M_quit), poll.                                    *)

EnterLoop ==
    /\ lpc = "idle"
    /\ M_looping' = TRUE
    /\ M_quit' = FALSE
    /\ lpc' = "test"
    /\ UNCHANGED <<queueVars, M_callingPendingFunctors, M_activeChannels,
                   M_currentActiveChannel, wakeupFd, functors, running, pc, ran>>

TestQuit ==
    /\ lpc = "test"
    /\ lpc' = IF M_quit THEN "idle" ELSE "poll"
    /\ M_looping' = ~M_quit
    /\ UNCHANGED <<queueVars, M_quit, M_callingPendingFunctors, M_activeChannels,
                   M_currentActiveChannel, wakeupFd, functors, running, pc, ran>>

(* poll() reports the wakeup channel exactly when its descriptor is        *)
(* readable, and any set of I/O channels.                                  *)
Poll(active) ==
    /\ lpc = "poll"
    /\ M_activeChannels' = active
    /\ lpc' = "handle"
    /\ UNCHANGED <<queueVars, M_looping, M_quit, M_callingPendingFunctors,
                   M_currentActiveChannel, wakeupFd, functors, running, pc, ran>>

(* Fault: the constructor forgets M_wakeupChannel->enableReading().        *)
PollWakeupNotEnabled == FALSE

PollWakeup  == wakeupFd  /\ \E io \in SUBSET Channels : Poll(io \union {WakeupChannel})
PollIO      == ~wakeupFd /\ \E io \in SUBSET Channels \ {{}} : Poll(io)
PollTimeout == ~wakeupFd /\ Poll({})       \* kPollTimeMs elapsed, or EINTR

-----------------------------------------------------------------------------
(* Dispatch of the active channels, in the poller's (arbitrary) order.     *)

(* handleRead(): one read(2) resets the eventfd.                           *)
HandleWakeup ==
    /\ lpc = "handle"
    /\ M_currentActiveChannel = NoChannel
    /\ WakeupChannel \in M_activeChannels
    /\ M_activeChannels' = M_activeChannels \ {WakeupChannel}
    /\ wakeupFd' = FALSE
    /\ UNCHANGED <<queueVars, M_looping, M_quit, M_callingPendingFunctors,
                   M_currentActiveChannel, lpc, functors, running, pc, ran>>

HandleEvent(c) ==
    /\ lpc = "handle"
    /\ M_currentActiveChannel = NoChannel
    /\ c \in M_activeChannels \ {WakeupChannel}
    /\ M_activeChannels' = M_activeChannels \ {c}
    /\ M_currentActiveChannel' = c
    /\ UNCHANGED <<queueVars, M_looping, M_quit, M_callingPendingFunctors,
                   wakeupFd, lpc, functors, running, pc, ran>>

EventHandled ==
    /\ lpc = "handle"
    /\ M_currentActiveChannel # NoChannel
    /\ M_currentActiveChannel' = NoChannel
    /\ UNCHANGED <<queueVars, M_looping, M_quit, M_callingPendingFunctors,
                   M_activeChannels, wakeupFd, lpc, functors, running, pc, ran>>

-----------------------------------------------------------------------------
(* doPendingFunctors()                                                     *)

(* Fault: the batch is a copy of the queue, which keeps its functors.      *)
SwapFunctorsCopies ==
    /\ lpc = "handle"
    /\ M_activeChannels = {}
    /\ M_currentActiveChannel = NoChannel
    /\ M_callingPendingFunctors' = TRUE
    /\ functors' = M_pendingFunctors
    /\ lpc' = "call"
    /\ UNCHANGED <<queueVars, M_looping, M_quit, M_activeChannels,
                   M_currentActiveChannel, wakeupFd, running, pc, ran>>

SwapFunctors ==
    /\ lpc = "handle"
    /\ M_activeChannels = {}
    /\ M_currentActiveChannel = NoChannel
    /\ M_callingPendingFunctors' = TRUE
    /\ functors' = M_pendingFunctors
    /\ M_pendingFunctors' = <<>>
    /\ lpc' = "call"
    /\ UNCHANGED <<M_looping, M_quit, M_activeChannels, M_currentActiveChannel,
                   wakeupFd, running, pc, queued, early, ran>>

CallFunctor ==
    /\ lpc = "call"
    /\ running = NoFunctor
    /\ functors # <<>>
    /\ running' = Head(functors)
    /\ functors' = Tail(functors)
    /\ UNCHANGED <<queueVars, M_looping, M_quit, M_callingPendingFunctors,
                   M_activeChannels, M_currentActiveChannel, wakeupFd, lpc, pc, ran>>

FunctorReturns ==
    /\ lpc = "call"
    /\ running # NoFunctor
    /\ running' = NoFunctor
    /\ ran' = ran \union {running}
    /\ UNCHANGED <<queueVars, M_looping, M_quit, M_callingPendingFunctors,
                   M_activeChannels, M_currentActiveChannel, wakeupFd, lpc,
                   functors, pc>>

FunctorsDone ==
    /\ lpc = "call"
    /\ running = NoFunctor
    /\ functors = <<>>
    /\ M_callingPendingFunctors' = FALSE
    /\ lpc' = "test"
    /\ UNCHANGED <<queueVars, M_looping, M_quit, M_activeChannels,
                   M_currentActiveChannel, wakeupFd, functors, running, pc, ran>>

-----------------------------------------------------------------------------
(* queueInLoop() and quit() in the loop thread.                            *)

InUserCode ==
    \/ lpc = "idle"
    \/ M_currentActiveChannel # NoChannel
    \/ running # NoFunctor

PushBack(f) ==
    /\ f \notin queued
    /\ queued' = queued \union {f}
    /\ M_pendingFunctors' = Append(M_pendingFunctors, f)

(* Fault: queueInLoop() without "|| M_callingPendingFunctors".             *)
LoopQueueInLoopSilent(f) ==
    /\ InUserCode
    /\ PushBack(f)
    /\ early' = IF lpc = "idle" THEN early \union {f} ELSE early
    /\ UNCHANGED <<loopVars, M_quit, wakeupFd, pc, ran>>

LoopQueueInLoop(f) ==
    /\ InUserCode
    /\ PushBack(f)
    /\ early' = IF lpc = "idle" THEN early \union {f} ELSE early
    /\ wakeupFd' = (wakeupFd \/ M_callingPendingFunctors)
    /\ UNCHANGED <<loopVars, M_quit, pc, ran>>

LoopQuit ==
    /\ InUserCode
    /\ M_quit' = TRUE
    /\ UNCHANGED <<loopVars, queueVars, wakeupFd, pc, ran>>

-----------------------------------------------------------------------------
(* queueInLoop()/runInLoop() and quit() in another thread.                 *)

QueueInLoop(t, f) ==
    /\ pc[t] = "run"
    /\ PushBack(f)
    /\ pc' = [pc EXCEPT ![t] = "wakeup"]
    /\ UNCHANGED <<loopVars, M_quit, wakeupFd, early, ran>>

Quit(t) ==
    /\ pc[t] = "run"
    /\ M_quit' = TRUE
    /\ pc' = [pc EXCEPT ![t] = "wakeup"]
    /\ UNCHANGED <<loopVars, queueVars, wakeupFd, ran>>

Wakeup(t) ==
    /\ pc[t] = "wakeup"
    /\ wakeupFd' = TRUE
    /\ pc' = [pc EXCEPT ![t] = "run"]
    /\ UNCHANGED <<loopVars, queueVars, M_quit, ran>>

-----------------------------------------------------------------------------
(* What the loop thread does by itself once it is in loop(): everything    *)
(* but waiting for I/O or for the poll timeout.                            *)
LoopStep ==
    \/ TestQuit
    \/ PollWakeup
    \/ HandleWakeup
    \/ \E c \in Channels : HandleEvent(c)
    \/ EventHandled
    \/ SwapFunctors
    \/ CallFunctor
    \/ FunctorReturns
    \/ FunctorsDone

UserStep ==
    \/ EnterLoop
    \/ \E f \in Functors : LoopQueueInLoop(f)
    \/ LoopQuit

ThreadStep(t) ==
    \/ \E f \in Functors : QueueInLoop(t, f)
    \/ Quit(t)
    \/ Wakeup(t)

Next ==
    \/ LoopStep
    \/ PollIO
    \/ PollTimeout
    \/ UserStep
    \/ \E t \in Threads : ThreadStep(t)

Spec == Init /\ [][Next]_vars

-----------------------------------------------------------------------------
Pending(f) == f \in Range(M_pendingFunctors)

(* queueInLoop()/wakeup(): when the loop is about to block in poll() with  *)
(* a functor pending, the eventfd is readable, or the thread that owes the *)
(* wakeup() has yet to write it.  The exception is a functor the owner     *)
(* thread queued before it called loop(): nobody wakes the loop for it.    *)
NoLostWakeup ==
    (lpc = "poll" /\ ~wakeupFd /\ \A t \in Threads : pc[t] # "wakeup")
        => \A f \in Functors : Pending(f) => f \in early

(* queueInLoop()/doPendingFunctors(): functors are executed at most once,  *)
(* one at a time, in the order of the push_back()s, across batches.        *)
Executor ==
    INSTANCE SerialExecutor WITH submitted <- queued,
                                 todo <- functors \o M_pendingFunctors,
                                 doing <- running
ImplementsSerialExecutor == Executor!Spec

(* queueInLoop(): a functor handed to a running loop is executed, without  *)
(* the help of I/O or of the poll timeout, unless the loop is quit first.  *)
EveryFunctorRuns ==
    \A f \in Functors :
        (M_looping /\ Pending(f) /\ f \notin early) ~> (f \in ran \/ ~M_looping)

=============================================================================
