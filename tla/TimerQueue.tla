----------------------------- MODULE TimerQueue -----------------------------
(***************************************************************************)
(* TimerQueue (TimerQueue.cpp, Timer.h): the timers of one EventLoop, the  *)
(* timerfd that wakes the loop for the earliest one, and the threads that  *)
(* add and cancel timers.                                                  *)
(*                                                                         *)
(* Time is relative: a Timer keeps the ticks left until its expiration,    *)
(* 0 once it is due, and the timerfd the ticks left until its alarm, 0     *)
(* while it is readable.  Which of two overdue timers was due first is not *)
(* kept, so that the order within a batch is arbitrary.                    *)
(*                                                                         *)
(* Timers live at addresses that are free again after delete; a TimerId is *)
(* the address and the sequence number of the timer.                       *)
(***************************************************************************)
EXTENDS Integers, Sequences, FiniteSetsExt

CONSTANTS Threads,       \* threads other than the loop's
          Addresses,     \* where Timer objects may live
          NoTimer,       \* no callback is running
          MaxDelay,      \* bound: ticks until an expiration
          MaxCreated,    \* bound: timers ever created
          MaxQueue       \* bound: functors of other threads

ASSUME TimerQueueAssumption ==
    /\ NoTimer \notin Addresses
    /\ MaxDelay \in Nat \ {0}
    /\ MaxCreated \in Nat /\ MaxQueue \in Nat

VARIABLES
    heap,                   \* the Timer objects
    s_numCreated,
    M_timers,               \* addresses; Entry(expiration, timer) in the code
    M_activeTimers,         \* <<address, sequence>>
    M_cancelingTimers,
    M_callingExpiredTimers,
    expired,                \* handleRead(): the batch
    toRun,                  \* the part of the batch still to run
    running,                \* whose callback is running
    elapsed,                \* ticks since handleRead() took the time
    alarm,                  \* the timerfd
    stale,                  \* poll() reported the timerfd, and it was set again since
    queue,                  \* M_loop: addTimerInLoop and cancelInLoop functors
    pc,                     \* per thread: the timer addTimer() is to return
    ids,                    \* the TimerIds in the hands of users
    ran, cancelled          \* history: sequence numbers

setVars   == <<M_timers, M_activeTimers>>
batchVars == <<M_cancelingTimers, M_callingExpiredTimers, expired, toRun, running>>
vars      == <<heap, s_numCreated, setVars, batchVars, elapsed, alarm, stale, queue,
               pc, ids, ran, cancelled>>

Ticks     == 0 .. MaxDelay
Sequences0 == 0 .. MaxCreated
TimerIds  == Addresses \X Sequences0
Timers    == [seq : Sequences0, due : Ticks, interval : Ticks]
Freed     == [seq |-> 0, due |-> 0, interval |-> 0]
Disarmed  == -1
Idle      == <<NoTimer, 0>>

TypeOK ==
    /\ heap \in [Addresses -> Timers]
    /\ s_numCreated \in Sequences0
    /\ M_timers \subseteq Addresses
    /\ M_activeTimers \subseteq TimerIds
    /\ M_cancelingTimers \subseteq TimerIds
    /\ M_callingExpiredTimers \in BOOLEAN
    /\ toRun \subseteq expired /\ expired \subseteq Addresses
    /\ running \in Addresses \union {NoTimer}
    /\ elapsed \in Ticks
    /\ alarm \in Ticks \union {Disarmed} /\ stale \in BOOLEAN
    /\ queue \in Seq([op : {"add", "cancel"}, id : TimerIds])
    /\ pc \in [Threads -> TimerIds \union {Idle}]
    /\ ids \subseteq TimerIds
    /\ ran \subseteq Sequences0 /\ cancelled \subseteq Sequences0

Init ==
    /\ heap = [a \in Addresses |-> Freed]
    /\ s_numCreated = 0
    /\ M_timers = {}
    /\ M_activeTimers = {}
    /\ M_cancelingTimers = {}
    /\ M_callingExpiredTimers = FALSE
    /\ expired = {} /\ toRun = {}
    /\ running = NoTimer
    /\ elapsed = 0
    /\ alarm = Disarmed /\ stale = FALSE
    /\ queue = <<>>
    /\ pc = [t \in Threads |-> Idle]
    /\ ids = {}
    /\ ran = {} /\ cancelled = {}

Live(a)     == heap[a].seq # 0
IdOf(a)     == <<a, heap[a].seq>>
Later(x, y) == IF x > y THEN x ELSE y

-----------------------------------------------------------------------------
(* resetTimerfd(): howMuchTimeFromNow() never asks for less than 100       *)
(* microseconds, one tick here.                                            *)
AlarmForNothingIfDue(due) == IF due = 0 THEN Disarmed ELSE due   \* fault: no floor

AlarmFor(due) == Later(due, 1)

Earliest(h, set) == Min({h[a].due : a \in set})

(* Fault: the timerfd is set for every timer that is added.                *)
InsertAndArmAlways(h, a) ==
    /\ M_timers' = M_timers \union {a}
    /\ M_activeTimers' = M_activeTimers \union {<<a, h[a].seq>>}
    /\ alarm' = AlarmFor(h[a].due)

(* insert() of the timer at a, and resetTimerfd() if it is the earliest.   *)
(* Of two timers that are overdue either may have the earlier expiration.  *)
InsertAndArm(h, a) ==
    /\ M_timers' = M_timers \union {a}
    /\ M_activeTimers' = M_activeTimers \union {<<a, h[a].seq>>}
    /\ \E earliestChanged \in BOOLEAN :
         /\ M_timers = {} => earliestChanged
         /\ M_timers # {} =>
              LET first == Earliest(h, M_timers) IN
              /\ h[a].due < first => earliestChanged
              /\ h[a].due > first => ~earliestChanged
              /\ h[a].due = first /\ h[a].due > 0 => ~earliestChanged
         /\ alarm' = IF earliestChanged THEN AlarmFor(h[a].due) ELSE alarm

(* Fault: an id is taken for a waiting timer by its address alone.         *)
CancelInLoopByAddress(id) ==
    LET a == id[1] IN
    IF a \in M_timers
    THEN /\ M_timers' = M_timers \ {a}
         /\ M_activeTimers' = M_activeTimers \ {id}
         /\ heap' = [heap EXCEPT ![a] = Freed]
         /\ cancelled' = cancelled \union {id[2]}
         /\ UNCHANGED M_cancelingTimers
    ELSE UNCHANGED <<setVars, heap, cancelled, M_cancelingTimers>>

CancelInLoop(id) ==
    LET a == id[1] IN
    IF id \in M_activeTimers
    THEN /\ M_timers' = M_timers \ {a}
         /\ M_activeTimers' = M_activeTimers \ {id}
         /\ heap' = [heap EXCEPT ![a] = Freed]
         /\ cancelled' = cancelled \union {id[2]}
         /\ UNCHANGED M_cancelingTimers
    ELSE /\ M_cancelingTimers' = IF M_callingExpiredTimers
                                 THEN M_cancelingTimers \union {id}
                                 ELSE M_cancelingTimers
         /\ cancelled' = IF a \in expired /\ id = IdOf(a)
                         THEN cancelled \union {id[2]}
                         ELSE cancelled
         /\ UNCHANGED <<setVars, heap>>

-----------------------------------------------------------------------------
(* handleRead(): the timerfd is read, the due timers leave both sets.  If  *)
(* another handler has set it since poll() returned, read(2) fails with    *)
(* EAGAIN, which is logged.                                                *)
HandleRead ==
    /\ ~M_callingExpiredTimers
    /\ alarm = 0 \/ stale
    /\ alarm' = IF alarm = 0 THEN Disarmed ELSE alarm
    /\ stale' = FALSE
    /\ expired' = {a \in M_timers : heap[a].due = 0}
    /\ toRun' = expired'
    /\ M_timers' = M_timers \ expired'
    /\ M_activeTimers' = M_activeTimers \ {IdOf(a) : a \in expired'}
    /\ M_callingExpiredTimers' = TRUE
    /\ M_cancelingTimers' = {}
    /\ elapsed' = 0
    /\ UNCHANGED <<heap, s_numCreated, running, queue, pc, ids, ran, cancelled>>

RunTimer(a) ==
    /\ running = NoTimer
    /\ a \in toRun
    /\ running' = a
    /\ toRun' = toRun \ {a}
    /\ ran' = ran \union {heap[a].seq}
    /\ UNCHANGED <<heap, s_numCreated, setVars, M_cancelingTimers,
                   M_callingExpiredTimers, expired, elapsed, alarm, stale, queue,
                   pc, ids, cancelled>>

CallbackReturns ==
    /\ running # NoTimer
    /\ running' = NoTimer
    /\ UNCHANGED <<heap, s_numCreated, setVars, M_cancelingTimers,
                   M_callingExpiredTimers, expired, toRun, elapsed, alarm, stale,
                   queue, pc, ids, ran, cancelled>>

(* reset(): repeating timers that no callback has cancelled start again,   *)
(* counted from the time handleRead() took; the others are deleted.        *)
RestartsUnlessGone(a) == heap[a].interval > 0   \* fault: cancellations not looked up

Restarts(a) == heap[a].interval > 0 /\ IdOf(a) \notin M_cancelingTimers

Reset ==
    /\ M_callingExpiredTimers
    /\ running = NoTimer
    /\ toRun = {}
    /\ M_callingExpiredTimers' = FALSE
    /\ LET again == {a \in expired : Restarts(a)} IN
       /\ heap' = [a \in Addresses |->
                     IF a \in again
                     THEN [heap[a] EXCEPT !.due = Later(heap[a].interval - elapsed, 0)]
                     ELSE IF a \in expired THEN Freed ELSE heap[a]]
       /\ M_timers' = M_timers \union again
       /\ M_activeTimers' = M_activeTimers \union {IdOf(a) : a \in again}
    /\ alarm' = IF M_timers' # {} THEN AlarmFor(Earliest(heap', M_timers')) ELSE alarm
    /\ expired' = {}
    /\ elapsed' = 0
    /\ UNCHANGED <<s_numCreated, M_cancelingTimers, toRun, running, stale, queue, pc,
                   ids, ran, cancelled>>

(* The clock.                                                              *)
Tick ==
    /\ heap' = [a \in Addresses |-> [heap[a] EXCEPT !.due = Later(@ - 1, 0)]]
    /\ alarm' = IF alarm > 0 THEN alarm - 1 ELSE alarm
    /\ elapsed' = IF M_callingExpiredTimers /\ elapsed < MaxDelay
                  THEN elapsed + 1 ELSE elapsed
    /\ UNCHANGED <<s_numCreated, setVars, batchVars, stale, queue, pc, ids, ran, cancelled>>

-----------------------------------------------------------------------------
(* Functors that other threads queued.  They come after the dispatch.      *)

RunAdd ==
    /\ ~M_callingExpiredTimers /\ ~stale
    /\ queue # <<>> /\ Head(queue).op = "add"
    /\ InsertAndArm(heap, Head(queue).id[1])
    /\ queue' = Tail(queue)
    /\ UNCHANGED <<heap, s_numCreated, batchVars, elapsed, stale, pc, ids, ran, cancelled>>

RunCancel ==
    /\ ~M_callingExpiredTimers /\ ~stale
    /\ queue # <<>> /\ Head(queue).op = "cancel"
    /\ CancelInLoop(Head(queue).id)
    /\ queue' = Tail(queue)
    /\ UNCHANGED <<s_numCreated, M_callingExpiredTimers, expired, toRun,
                   running, elapsed, alarm, stale, pc, ids, ran>>

-----------------------------------------------------------------------------
(* addTimer() and cancel().  In the loop thread, in a timer's callback or  *)
(* elsewhere, runInLoop() is a nested call.                                *)

InUserCode == running # NoTimer \/ ~M_callingExpiredTimers

NewTimer(a, delay, interval) ==
    /\ ~Live(a)
    /\ s_numCreated < MaxCreated
    /\ s_numCreated' = s_numCreated + 1
    /\ heap' = [heap EXCEPT ![a] = [seq |-> s_numCreated + 1, due |-> delay,
                                    interval |-> interval]]

(* In a handler between poll() and handleRead() it may set the timerfd of  *)
(* which poll() has reported that it is readable.                          *)
AddTimer(a, delay, interval) ==
    /\ InUserCode
    /\ NewTimer(a, delay, interval)
    /\ InsertAndArm(heap', a)
    /\ \/ UNCHANGED stale
       \/ ~M_callingExpiredTimers /\ alarm = 0 /\ alarm' # 0 /\ stale' = TRUE
    /\ ids' = ids \union {<<a, s_numCreated'>>}
    /\ UNCHANGED <<batchVars, elapsed, queue, pc, ran, cancelled>>

Cancel(id) ==
    /\ InUserCode
    /\ id \in ids
    /\ CancelInLoop(id)
    /\ UNCHANGED <<s_numCreated, M_callingExpiredTimers, expired, toRun,
                   running, elapsed, alarm, stale, queue, pc, ids, ran>>

(* In another thread the functor is queued first; then addTimer() reads    *)
(* timer->sequence() for the TimerId.  If the loop has deleted the timer   *)
(* by then, whatever is found there is read.                               *)
ThreadAddTimer(t, a, delay, interval) ==
    /\ pc[t] = Idle
    /\ Len(queue) < MaxQueue
    /\ NewTimer(a, delay, interval)
    /\ queue' = Append(queue, [op |-> "add", id |-> <<a, s_numCreated'>>])
    /\ pc' = [pc EXCEPT ![t] = <<a, s_numCreated'>>]
    /\ UNCHANGED <<setVars, batchVars, elapsed, alarm, stale, ids, ran, cancelled>>

AddTimerReturns(t) ==
    /\ pc[t] # Idle
    /\ \E seq \in IF Live(pc[t][1]) THEN {heap[pc[t][1]].seq} ELSE Sequences0 :
          ids' = ids \union {<<pc[t][1], seq>>}
    /\ pc' = [pc EXCEPT ![t] = Idle]
    /\ UNCHANGED <<heap, s_numCreated, setVars, batchVars, elapsed, alarm, stale,
                   queue, ran, cancelled>>

ThreadCancel(t, id) ==
    /\ pc[t] = Idle
    /\ id \in ids
    /\ Len(queue) < MaxQueue
    /\ queue' = Append(queue, [op |-> "cancel", id |-> id])
    /\ UNCHANGED <<heap, s_numCreated, setVars, batchVars, elapsed, alarm, stale, pc,
                   ids, ran, cancelled>>

-----------------------------------------------------------------------------
TimerStep ==
    \/ HandleRead
    \/ \E a \in Addresses : RunTimer(a)
    \/ CallbackReturns
    \/ Reset

FunctorStep == RunAdd \/ RunCancel

UserStep ==
    \/ \E a \in Addresses, delay, interval \in Ticks : AddTimer(a, delay, interval)
    \/ \E id \in ids : Cancel(id)

ThreadStep(t) ==
    \/ \E a \in Addresses, delay, interval \in Ticks :
          ThreadAddTimer(t, a, delay, interval)
    \/ AddTimerReturns(t)
    \/ \E id \in ids : ThreadCancel(t, id)

Next ==
    \/ TimerStep
    \/ FunctorStep
    \/ Tick
    \/ UserStep
    \/ \E t \in Threads : ThreadStep(t)

Spec == Init /\ [][Next]_vars

(* Time passes, callbacks return, and every iteration of loop() dispatches *)
(* a readable timerfd and runs the pending functors.                       *)
Fairness == WF_vars(Tick) /\ WF_vars(TimerStep) /\ SF_vars(FunctorStep)

FairSpec == Spec /\ Fairness

-----------------------------------------------------------------------------
(* insert()/cancelInLoop()/getExpired(): the two sets hold the same        *)
(* timers, all of them alive and none of them in the batch, so that no     *)
(* address of a deleted timer is ever run, deleted again or compared.      *)
SetsAgree ==
    /\ M_activeTimers = {IdOf(a) : a \in M_timers}
    /\ \A a \in M_timers \union expired : Live(a)
    /\ M_timers \intersect expired = {}

(* resetTimerfd(): outside handleRead(), while timers are waiting, the     *)
(* timerfd is readable or armed for the earliest of them (or the next      *)
(* tick): no order of additions, cancellations and alarms loses one.       *)
ArmedForEarliest ==
    (~M_callingExpiredTimers /\ M_timers # {}) =>
        /\ alarm # Disarmed
        /\ alarm <= AlarmFor(Earliest(heap, M_timers))

(* cancelInLoop()/reset(): a timer that was cancelled, by its own callback *)
(* or another's, too, is not in the queue after the batch: it never        *)
(* repeats, although its address may be in use again.                      *)
CancelIsFinal ==
    \A id \in M_activeTimers : id[2] \notin cancelled

(* addTimer(): every timer that was made, in whichever thread, runs unless *)
(* it is cancelled: its functor is not lost, nor its alarm.                *)
TimersRun ==
    \A s \in 1 .. MaxCreated : (s <= s_numCreated) ~> (s \in ran \union cancelled)

-----------------------------------------------------------------------------
(* What a comment or an assertion of the code says and the code does not   *)
(* keep (README, section 4.3).                                             *)

(* cancel(): "Cancels the timer" (EventLoop.h): a callback does not start  *)
(* after cancelInLoop() has dealt with its timer.                          *)
NoRunAfterCancel ==
    \A a \in toRun : heap[a].seq \notin cancelled

(* addTimer(): "Must be thread safe" (TimerQueue.h): the timer whose       *)
(* sequence number addTimer() is about to read is still the one it made.   *)
AddTimerReadsItsTimer ==
    \A t \in Threads : pc[t] # Idle => heap[pc[t][1]].seq = pc[t][2]

=============================================================================
