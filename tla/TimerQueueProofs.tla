-------------------------- MODULE TimerQueueProofs --------------------------
(***************************************************************************)
(* Proofs about TimerQueue, for any number of threads, addresses, delays   *)
(* and timers.                                                             *)
(*                                                                         *)
(* What the two sets say of the timers is inductive only together with     *)
(* where else a Timer may be: in an addTimerInLoop functor that has not    *)
(* run, or in the batch of handleRead().  A live timer is in one of the    *)
(* three, and a cancelled one that is still live is in the batch, where    *)
(* reset() finds it in M_cancelingTimers.                                  *)
(***************************************************************************)
EXTENDS TimerQueue, SequenceTheorems, WellFoundedInduction, TLAPS

(* An addTimerInLoop functor owns a timer that nobody else knows of.       *)
QueuedTimersWait ==
    \A i \in 1 .. Len(queue) : queue[i].op = "add" =>
        LET a == queue[i].id[1] IN
        /\ Live(a)
        /\ a \notin M_timers \union expired
        /\ \A j \in 1 .. Len(queue) : queue[j].op = "add" /\ j # i => queue[j].id[1] # a

BatchOnlyInHandleRead ==
    ~M_callingExpiredTimers => expired = {} /\ running = NoTimer

(* Sequence numbers are given out once.                                    *)
SequencesDistinct ==
    /\ \A a \in Addresses : heap[a].seq <= s_numCreated
    /\ \A s \in cancelled : s <= s_numCreated
    /\ \A a, b \in Addresses : Live(a) /\ a # b => heap[a].seq # heap[b].seq

CancelledOnlyInBatch ==
    \A a \in Addresses : Live(a) /\ heap[a].seq \in cancelled =>
        a \in expired /\ IdOf(a) \in M_cancelingTimers

(* ArmedForEarliest without the minimum.                                   *)
AlarmInTime ==
    ~M_callingExpiredTimers => \A a \in M_timers :
        alarm # Disarmed /\ alarm <= AlarmFor(heap[a].due)

IInv ==
    /\ TypeOK
    /\ SetsAgree
    /\ QueuedTimersWait
    /\ BatchOnlyInHandleRead
    /\ SequencesDistinct
    /\ CancelledOnlyInBatch
    /\ AlarmInTime
-----------------------------------------------------------------------------
USE TimerQueueAssumption

(* A non-empty set of expirations has an earliest one.                     *)
LEMMA EarliestIsLeast ==
    ASSUME NEW h, NEW S, S # {}, \A a \in S : h[a].due \in Nat
    PROVE  /\ \E a \in S : Earliest(h, S) = h[a].due
           /\ \A a \in S : Earliest(h, S) <= h[a].due
<1> DEFINE D == {h[a].due : a \in S}
<1>1. D \subseteq Nat /\ D # {}
    OBVIOUS
<1>2. \E x \in D : \A y \in D : ~(<<y, x>> \in OpToRel(<, Nat))
    BY <1>1, WFMin, NatLessThanWellFounded
<1>3. PICK x \in D : \A y \in D : ~(<<y, x>> \in OpToRel(<, Nat))
    BY <1>2
<1>4. \A y \in D : x <= y
    <2>1. TAKE y \in D
    <2>2. ~(<<y, x>> \in OpToRel(<, Nat))
        BY <1>3
    <2>3. x \in Nat /\ y \in Nat
        BY <1>1
    <2>4. ~(y < x)
        BY <2>2, <2>3 DEF OpToRel
    <2>. QED  BY <2>3, <2>4
<1>5. Earliest(h, S) \in D /\ \A y \in D : Earliest(h, S) <= y
    BY <1>4 DEF Earliest, Min
<1>. QED  BY <1>5

(* What a functor leaves behind in the queue.                              *)
LEMMA QueueTail ==
    ASSUME NEW F, NEW q \in Seq(F), q # <<>>
    PROVE  /\ Tail(q) \in Seq(F)
           /\ 1 \in 1 .. Len(q) /\ Head(q) = q[1] /\ Head(q) \in F
           /\ \A i \in 1 .. Len(Tail(q)) : i + 1 \in 1 .. Len(q) /\ Tail(q)[i] = q[i + 1]
BY HeadTailProperties

LEMMA QueueTyped ==
    ASSUME TypeOK
    PROVE  \A i \in 1 .. Len(queue) :
              /\ queue[i] \in [op : {"add", "cancel"}, id : TimerIds]
              /\ queue[i].id \in TimerIds
              /\ queue[i].id[1] \in Addresses
<1> DEFINE F == [op : {"add", "cancel"}, id : TimerIds]
<1>0. queue \in Seq(F)
    BY DEF TypeOK
<1>1. \A i \in 1 .. Len(queue) : queue[i] \in F
    <2> HIDE DEF F
    <2>. QED  BY <1>0
<1>2. \A i \in 1 .. Len(queue) : queue[i].id \in TimerIds
    BY <1>1
<1>. QED  BY <1>1, <1>2 DEF TimerIds

(* insert() and resetTimerfd(): the alarm is in time for the new timer, if *)
(* it was for the others.                                                  *)
LEMMA InsertKeepsAlarm ==
    ASSUME NEW h \in [Addresses -> Timers], NEW a \in Addresses,
           M_timers \subseteq Addresses, alarm \in Ticks \union {Disarmed},
           InsertAndArm(h, a)
    PROVE  /\ alarm' \in Ticks \union {Disarmed}
           /\ (\A b \in M_timers : alarm # Disarmed /\ alarm <= AlarmFor(h[b].due)) =>
                 \A b \in M_timers \union {a} :
                    alarm' # Disarmed /\ alarm' <= AlarmFor(h[b].due)
<1>1. \A b \in Addresses : h[b].due \in Ticks
    BY DEF Timers
<1>2. \A b \in Addresses : AlarmFor(h[b].due) \in Ticks /\ h[b].due <= AlarmFor(h[b].due)
    BY <1>1 DEF AlarmFor, Later, Ticks
<1>3. PICK earliestChanged \in BOOLEAN :
         /\ M_timers = {} => earliestChanged
         /\ M_timers # {} =>
              /\ h[a].due < Earliest(h, M_timers) => earliestChanged
              /\ h[a].due > Earliest(h, M_timers) => ~earliestChanged
         /\ alarm' = IF earliestChanged THEN AlarmFor(h[a].due) ELSE alarm
    BY DEF InsertAndArm
<1>4. CASE M_timers = {}
    BY <1>2, <1>3, <1>4 DEF Ticks, Disarmed
<1>5. CASE M_timers # {}
    <2>1. PICK e \in M_timers : Earliest(h, M_timers) = h[e].due
        BY <1>1, <1>5, EarliestIsLeast DEF Ticks
    <2>2. \A b \in M_timers : h[e].due <= h[b].due
        BY <1>1, <1>5, <2>1, EarliestIsLeast DEF Ticks
    <2>3. CASE earliestChanged
        <3>1. alarm' = AlarmFor(h[a].due) /\ h[a].due <= h[e].due
            BY <1>1, <1>3, <1>5, <2>1, <2>3 DEF Ticks
        <3>2. \A b \in M_timers : h[a].due <= h[b].due
            BY <1>1, <2>2, <3>1 DEF Ticks
        <3>. QED  BY <1>1, <3>1, <3>2 DEF AlarmFor, Later, Ticks, Disarmed
    <2>4. CASE ~earliestChanged
        <3>1. alarm' = alarm /\ h[e].due <= h[a].due
            BY <1>1, <1>3, <1>5, <2>1, <2>4 DEF Ticks
        <3>. QED  BY <1>1, <3>1 DEF AlarmFor, Later, Ticks, Disarmed
    <2>. QED  BY <2>3, <2>4
<1>. QED  BY <1>4, <1>5
-----------------------------------------------------------------------------
(* The state after the construction of the TimerQueue.                      *)
LEMMA InitIInv == Init => IInv
<1> SUFFICES ASSUME Init PROVE IInv
    OBVIOUS
<1>1. TypeOK
    <2>1. queue \in Seq([op : {"add", "cancel"}, id : TimerIds])
        BY EmptySeq DEF Init
    <2>2. Freed \in Timers
        BY DEF Freed, Timers, Sequences0, Ticks
    <2>3. heap \in [Addresses -> Timers] /\ pc \in [Threads -> TimerIds \union {Idle}]
        BY <2>2 DEF Init
    <2>4. s_numCreated \in Sequences0 /\ elapsed \in Ticks
        BY DEF Init, Sequences0, Ticks
    <2>. QED  BY <2>1, <2>3, <2>4 DEF Init, TypeOK
<1>2. SetsAgree
    BY DEF Init, SetsAgree
<1>3. QueuedTimersWait
    <2>1. Len(queue) = 0
        BY EmptySeq DEF Init
    <2>. QED  BY <2>1 DEF QueuedTimersWait
<1>4. SequencesDistinct /\ CancelledOnlyInBatch
    BY DEF Init, SequencesDistinct, CancelledOnlyInBatch, Live, Freed
<1>. QED  BY <1>1, <1>2, <1>3, <1>4 DEF Init, IInv, BatchOnlyInHandleRead, AlarmInTime

(* getExpired(): the due timers go from the two sets to the batch.         *)
LEMMA HandleReadKeeps ==
    ASSUME IInv, HandleRead
    PROVE  IInv'
<1> DEFINE due == {a \in M_timers : heap[a].due = 0}
<1>0. expired = {} /\ running = NoTimer /\ ~M_callingExpiredTimers
    BY DEF IInv, BatchOnlyInHandleRead, HandleRead
<1>1. expired' = due /\ toRun' = due /\ M_timers' = M_timers \ due
    BY DEF HandleRead
<1>2. TypeOK'
    <2>1. alarm' \in Ticks \union {Disarmed} /\ elapsed' \in Ticks
        BY DEF IInv, TypeOK, HandleRead, Ticks
    <2>2. M_activeTimers' \subseteq TimerIds /\ M_timers' \subseteq Addresses
        BY <1>1 DEF IInv, TypeOK, HandleRead
    <2>. QED  BY <1>1, <2>1, <2>2 DEF IInv, TypeOK, HandleRead
<1>3. SetsAgree'
    <2>1. M_activeTimers' = {IdOf(a) : a \in M_timers} \ {IdOf(a) : a \in due}
        BY <1>1 DEF IInv, SetsAgree, HandleRead
    <2>2. @ = {IdOf(a) : a \in M_timers \ due}
        BY DEF IdOf
    <2>3. \A a : IdOf(a)' = IdOf(a) /\ Live(a)' = Live(a)
        BY DEF HandleRead, IdOf, Live
    <2>4. M_activeTimers' = {IdOf(a)' : a \in M_timers'}
        BY <1>1, <2>1, <2>2, <2>3
    <2>5. \A a \in M_timers' \union expired' : Live(a)'
        BY <1>1, <2>3 DEF IInv, SetsAgree
    <2>. QED  BY <1>1, <2>4, <2>5 DEF SetsAgree
<1>4. QueuedTimersWait'
    BY <1>0, <1>1 DEF IInv, QueuedTimersWait, HandleRead, Live
<1>5. SequencesDistinct' /\ CancelledOnlyInBatch'
    BY <1>0 DEF IInv, SequencesDistinct, CancelledOnlyInBatch, HandleRead, Live, IdOf
<1>. QED  BY <1>2, <1>3, <1>4, <1>5
    DEF IInv, BatchOnlyInHandleRead, AlarmInTime, HandleRead

(* A callback of the batch starts or returns.                              *)
LEMMA CallbacksKeep ==
    ASSUME IInv, CallbackReturns \/ \E a \in Addresses : RunTimer(a)
    PROVE  IInv'
<1>0. /\ UNCHANGED <<heap, s_numCreated, setVars, M_cancelingTimers,
                     M_callingExpiredTimers, expired, elapsed, alarm, stale, queue, pc,
                     ids, cancelled>>
      /\ toRun' \subseteq toRun
      /\ ran' \subseteq Sequences0
      /\ running' = NoTimer \/ (running' \in toRun)
    BY DEF IInv, TypeOK, CallbackReturns, RunTimer, Timers
<1>1. TypeOK'
    BY <1>0 DEF IInv, TypeOK, setVars
<1>2. SetsAgree' /\ QueuedTimersWait'
    BY <1>0 DEF IInv, SetsAgree, QueuedTimersWait, setVars, Live, IdOf
<1>3. SequencesDistinct' /\ CancelledOnlyInBatch' /\ AlarmInTime'
    BY <1>0 DEF IInv, SequencesDistinct, CancelledOnlyInBatch, AlarmInTime, setVars, Live, IdOf
<1>4. BatchOnlyInHandleRead'
    BY <1>0 DEF IInv, TypeOK, BatchOnlyInHandleRead
<1>. QED  BY <1>1, <1>2, <1>3, <1>4 DEF IInv

(* reset(): a cancelled timer of the batch is deleted, and the alarm is    *)
(* set for the earliest of those that wait.                                *)
LEMMA ResetKeeps ==
    ASSUME IInv, Reset
    PROVE  IInv'
<1> DEFINE again == {a \in expired : Restarts(a)}
<1>0. /\ heap \in [Addresses -> Timers] /\ M_timers \subseteq Addresses
      /\ expired \subseteq Addresses /\ elapsed \in Ticks
    BY DEF IInv, TypeOK
<1>1. /\ M_timers' = M_timers \union again
      /\ expired' = {} /\ running' = NoTimer /\ toRun' = {}
      /\ M_activeTimers' = M_activeTimers \union {IdOf(a) : a \in again}
    BY DEF Reset
<1>2. \A a \in Addresses : heap'[a] =
         IF a \in again
         THEN [heap[a] EXCEPT !.due = Later(heap[a].interval - elapsed, 0)]
         ELSE IF a \in expired THEN Freed ELSE heap[a]
    BY DEF Reset
<1>3. heap' \in [Addresses -> Timers]
    <2>1. \A a \in Addresses : heap[a] \in Timers /\ heap[a].interval \in Ticks
        BY <1>0 DEF Timers
    <2>2. \A a \in Addresses : Later(heap[a].interval - elapsed, 0) \in Ticks
        BY <1>0, <2>1 DEF Later, Ticks
    <2>3. Freed \in Timers
        BY DEF Freed, Timers, Sequences0, Ticks
    <2>4. \A a \in Addresses : heap'[a] \in Timers
        BY <1>2, <2>1, <2>2, <2>3 DEF Timers
    <2>. QED  BY <2>4 DEF Reset
<1>4. /\ \A a \in again : heap'[a].seq = heap[a].seq
      /\ \A a \in expired \ again : heap'[a].seq = 0
      /\ \A a \in Addresses \ expired : heap'[a] = heap[a]
    <2>1. \A a \in Addresses : heap[a] \in Timers
        BY <1>0
    <2>2. \A a \in again : heap'[a] =
             [heap[a] EXCEPT !.due = Later(heap[a].interval - elapsed, 0)]
        BY <1>0, <1>2
    <2>3. \A a \in again : heap'[a].seq = heap[a].seq
        <3>1. \A a \in again : a \in Addresses
            BY <1>0
        <3>2. ASSUME NEW a \in again PROVE heap'[a].seq = heap[a].seq
            <4>1. heap[a] \in Timers
                BY <2>1, <3>1
            <4>. QED  BY <2>2, <4>1 DEF Timers
        <3>. QED  BY <3>2
    <2>4. \A a \in expired \ again : heap'[a].seq = 0
        <3>1. \A a \in expired \ again : heap'[a] = Freed
            BY <1>0, <1>2
        <3>2. Freed.seq = 0
            BY DEF Freed
        <3>. QED  BY <3>1, <3>2
    <2>. QED  BY <1>0, <1>2, <2>3, <2>4
<1>5. M_timers \intersect expired = {}
    BY DEF IInv, SetsAgree
<1>6. \A a \in M_timers' : IdOf(a)' = IdOf(a) /\ Live(a)' /\ Live(a)
    BY <1>0, <1>1, <1>4, <1>5 DEF IInv, SetsAgree, IdOf, Live
<1>7. /\ alarm' \in Ticks \union {Disarmed}
      /\ \A a \in M_timers' : alarm' # Disarmed /\ alarm' <= AlarmFor(heap'[a].due)
    <2>1. \A a \in M_timers' : heap'[a].due \in Ticks
        BY <1>0, <1>1, <1>3 DEF Timers
    <2>2. CASE M_timers' = {}
        BY <2>2 DEF Reset, IInv, TypeOK
    <2>3. CASE M_timers' # {}
        <3>1. alarm' = AlarmFor(Earliest(heap', M_timers'))
            BY <2>3 DEF Reset
        <3>2. PICK e \in M_timers' : Earliest(heap', M_timers') = heap'[e].due
            BY <2>1, <2>3, EarliestIsLeast DEF Ticks
        <3>3. \A a \in M_timers' : heap'[e].due <= heap'[a].due
            BY <2>1, <2>3, <3>2, EarliestIsLeast DEF Ticks
        <3>. QED  BY <2>1, <3>1, <3>2, <3>3 DEF AlarmFor, Later, Ticks, Disarmed
    <2>. QED  BY <2>2, <2>3
<1>8. TypeOK'
    <2>1. \A a \in again : IdOf(a) \in TimerIds
        BY <1>0 DEF IdOf, TimerIds, Timers
    <2>2. M_activeTimers' \subseteq TimerIds /\ M_timers' \subseteq Addresses
        BY <1>0, <1>1, <2>1 DEF IInv, TypeOK
    <2>3. elapsed' \in Ticks
        BY DEF Reset, Ticks
    <2>. QED  BY <1>1, <1>3, <1>7, <2>2, <2>3 DEF IInv, TypeOK, Reset
<1>9. SetsAgree'
    <2>1. M_activeTimers' = {IdOf(a) : a \in M_timers'}
        BY <1>1 DEF IInv, SetsAgree
    <2>2. M_activeTimers' = {IdOf(a)' : a \in M_timers'}
        BY <1>6, <2>1
    <2>. QED  BY <1>1, <1>6, <2>2 DEF SetsAgree
<1>10. QueuedTimersWait'
    <2>1. \A i \in 1 .. Len(queue) : queue[i].op = "add" => queue[i].id[1] \in Addresses
        BY QueueTyped DEF IInv
    <2>. QED  BY <1>1, <1>4, <2>1 DEF IInv, QueuedTimersWait, Live, Reset
<1>11. SequencesDistinct'
    <2>1. \A a \in Addresses : heap'[a].seq = heap[a].seq \/ heap'[a].seq = 0
        BY <1>4
    <2>2. UNCHANGED <<cancelled, s_numCreated>> /\ s_numCreated \in Nat
        BY DEF Reset, IInv, TypeOK, Sequences0
    <2>. QED  BY <2>1, <2>2 DEF IInv, SequencesDistinct, Live
<1>12. CancelledOnlyInBatch'
    <2>1. \A a \in again : IdOf(a) \notin M_cancelingTimers
        BY DEF Restarts
    <2>2. \A a \in Addresses : Live(a)' => heap'[a].seq \notin cancelled
        BY <1>0, <1>4, <2>1 DEF IInv, CancelledOnlyInBatch, Live
    <2>. QED  BY <2>2 DEF CancelledOnlyInBatch, Reset
<1>. QED  BY <1>1, <1>7, <1>8, <1>9, <1>10, <1>11, <1>12
    DEF IInv, BatchOnlyInHandleRead, AlarmInTime

LEMMA TickKeeps ==
    ASSUME IInv, Tick
    PROVE  IInv'
<1>0. heap \in [Addresses -> Timers] /\ M_timers \subseteq Addresses
    BY DEF IInv, TypeOK
<1>1. \A a \in Addresses : heap[a].due \in Ticks /\ heap[a] \in Timers
    BY <1>0 DEF Timers
<1>2. \A a \in Addresses : heap'[a] = [heap[a] EXCEPT !.due = Later(heap[a].due - 1, 0)]
    BY DEF Tick
<1>3. \A a \in Addresses : /\ heap'[a].seq = heap[a].seq
                            /\ heap'[a].due = Later(heap[a].due - 1, 0)
                            /\ heap'[a] \in Timers
    <2>1. \A a \in Addresses : Later(heap[a].due - 1, 0) \in Ticks
        BY <1>1 DEF Later, Ticks
    <2>2. ASSUME NEW a \in Addresses
          PROVE  /\ heap'[a].seq = heap[a].seq
                 /\ heap'[a].due = Later(heap[a].due - 1, 0)
                 /\ heap'[a] \in Timers
        <3>1. heap[a] \in Timers /\ Later(heap[a].due - 1, 0) \in Ticks
            BY <1>1, <2>1
        <3>. QED  BY <1>2, <3>1 DEF Timers
    <2>. QED  BY <2>2
<1>4. TypeOK'
    <2>1. heap' \in [Addresses -> Timers]
        BY <1>3 DEF Tick
    <2>2. elapsed' \in Ticks /\ alarm' \in Ticks \union {Disarmed}
        BY DEF Tick, IInv, TypeOK, Ticks, Disarmed
    <2>. QED  BY <2>1, <2>2 DEF Tick, IInv, TypeOK, setVars, batchVars
<1>5. SetsAgree'
    <2>1. \A a \in Addresses : IdOf(a)' = IdOf(a) /\ Live(a)' = Live(a)
        BY <1>3 DEF IdOf, Live
    <2>2. {IdOf(a)' : a \in M_timers} = {IdOf(a) : a \in M_timers}
        BY <1>0, <2>1
    <2>3. UNCHANGED <<M_timers, M_activeTimers, expired>> /\ expired \subseteq Addresses
        BY DEF Tick, setVars, batchVars, IInv, TypeOK
    <2>. QED  BY <1>0, <2>1, <2>2, <2>3 DEF IInv, SetsAgree
<1>6. QueuedTimersWait'
    <2>1. \A i \in 1 .. Len(queue) : queue[i].op = "add" => queue[i].id[1] \in Addresses
        BY QueueTyped DEF IInv
    <2>. QED  BY <1>3, <2>1 DEF IInv, QueuedTimersWait, Live, Tick, setVars, batchVars
<1>7. SequencesDistinct' /\ CancelledOnlyInBatch'
    BY <1>3 DEF IInv, SequencesDistinct, CancelledOnlyInBatch, Live, IdOf, Tick, setVars, batchVars
<1>8. AlarmInTime'
    <2>1. \A a \in M_timers : alarm # Disarmed /\ alarm <= AlarmFor(heap[a].due) =>
             alarm' # Disarmed /\ alarm' <= AlarmFor(heap'[a].due)
        BY <1>0, <1>1, <1>3 DEF Tick, AlarmFor, Later, Ticks, Disarmed, IInv, TypeOK
    <2>. QED  BY <2>1 DEF IInv, AlarmInTime, Tick, setVars, batchVars
<1>. QED  BY <1>4, <1>5, <1>6, <1>7, <1>8
    DEF IInv, BatchOnlyInHandleRead, Tick, batchVars
-----------------------------------------------------------------------------
(* new Timer: the address was not in use, the sequence number is new.      *)
LEMMA NewTimerFacts ==
    ASSUME IInv, NEW a \in Addresses, NEW delay \in Ticks, NEW interval \in Ticks,
           NewTimer(a, delay, interval)
    PROVE  /\ heap' \in [Addresses -> Timers]
           /\ s_numCreated' \in Sequences0 /\ s_numCreated' = s_numCreated + 1
           /\ <<a, s_numCreated'>> \in TimerIds
           /\ heap'[a].seq = s_numCreated' /\ Live(a)'
           /\ a \notin M_timers \union expired
           /\ \A i \in 1 .. Len(queue) : queue[i].op = "add" => queue[i].id[1] # a
           /\ \A b \in Addresses : b # a => heap'[b] = heap[b]
<1>0. heap \in [Addresses -> Timers] /\ s_numCreated \in Sequences0
    BY DEF IInv, TypeOK
<1>1. ~Live(a)
    BY DEF NewTimer
<1>2. s_numCreated' \in Sequences0 /\ s_numCreated' = s_numCreated + 1 /\ s_numCreated' # 0
    BY <1>0 DEF NewTimer, Sequences0
<1>3. [seq |-> s_numCreated + 1, due |-> delay, interval |-> interval] \in Timers
    BY <1>2 DEF Timers
<1>4. /\ heap' \in [Addresses -> Timers]
      /\ heap'[a] = [seq |-> s_numCreated + 1, due |-> delay, interval |-> interval]
      /\ \A b \in Addresses : b # a => heap'[b] = heap[b]
    BY <1>0, <1>3 DEF NewTimer
<1>5. heap'[a].seq = s_numCreated' /\ Live(a)'
    BY <1>2, <1>4 DEF Live
<1>6. a \notin M_timers \union expired
    BY <1>1 DEF IInv, SetsAgree
<1>7. \A i \in 1 .. Len(queue) : queue[i].op = "add" => queue[i].id[1] # a
    BY <1>1 DEF IInv, QueuedTimersWait
<1>. QED  BY <1>2, <1>4, <1>5, <1>6, <1>7 DEF TimerIds

LEMMA NewTimerKeepsSequences ==
    ASSUME IInv, NEW a \in Addresses, NEW delay \in Ticks, NEW interval \in Ticks,
           NewTimer(a, delay, interval), UNCHANGED <<batchVars, cancelled>>
    PROVE  SequencesDistinct' /\ CancelledOnlyInBatch'
<1>0. /\ s_numCreated' = s_numCreated + 1 /\ heap'[a].seq = s_numCreated'
      /\ \A b \in Addresses : b # a => heap'[b] = heap[b]
    BY NewTimerFacts
<1>1. /\ s_numCreated \in Nat /\ cancelled \subseteq Nat
      /\ \A b \in Addresses : heap[b].seq \in Nat
    BY DEF IInv, TypeOK, Sequences0, Timers
<1>2. \A b \in Addresses : b # a => heap'[b].seq <= s_numCreated /\ heap'[b].seq # heap'[a].seq
    BY <1>0, <1>1 DEF IInv, SequencesDistinct
<1>3. s_numCreated' \notin cancelled
    BY <1>0, <1>1 DEF IInv, SequencesDistinct
<1>4. SequencesDistinct'
    BY <1>0, <1>1, <1>2 DEF IInv, SequencesDistinct, Live
<1>5. CancelledOnlyInBatch'
    BY <1>0, <1>3 DEF IInv, CancelledOnlyInBatch, Live, IdOf, batchVars
<1>. QED  BY <1>4, <1>5

(* addTimer() in the loop thread.                                          *)
LEMMA AddTimerKeeps ==
    ASSUME IInv, NEW a \in Addresses, NEW delay \in Ticks, NEW interval \in Ticks,
           AddTimer(a, delay, interval)
    PROVE  IInv'
<1>0. NewTimer(a, delay, interval) /\ InsertAndArm(heap', a)
      /\ UNCHANGED <<batchVars, elapsed, queue, pc, ran, cancelled>>
      /\ (stale' = stale \/ stale' = TRUE)
    BY DEF AddTimer
<1>1. /\ heap' \in [Addresses -> Timers]
      /\ s_numCreated' \in Sequences0
      /\ <<a, s_numCreated'>> \in TimerIds
      /\ heap'[a].seq = s_numCreated' /\ Live(a)'
      /\ a \notin M_timers \union expired
      /\ \A i \in 1 .. Len(queue) : queue[i].op = "add" => queue[i].id[1] # a
      /\ \A b \in Addresses : b # a => heap'[b] = heap[b]
    BY <1>0, NewTimerFacts
<1>2. /\ M_timers' = M_timers \union {a}
      /\ M_activeTimers' = M_activeTimers \union {<<a, heap'[a].seq>>}
    BY <1>0 DEF InsertAndArm
<1>3. M_timers \subseteq Addresses /\ expired \subseteq Addresses
      /\ alarm \in Ticks \union {Disarmed}
    BY DEF IInv, TypeOK
<1>4. /\ alarm' \in Ticks \union {Disarmed}
      /\ (\A b \in M_timers : alarm # Disarmed /\ alarm <= AlarmFor(heap'[b].due)) =>
            \A b \in M_timers \union {a} :
               alarm' # Disarmed /\ alarm' <= AlarmFor(heap'[b].due)
    BY <1>0, <1>1, <1>3, InsertKeepsAlarm
<1>5. TypeOK'
    <2>1. ids' \subseteq TimerIds
        BY <1>1 DEF AddTimer, IInv, TypeOK
    <2>2. M_timers' \subseteq Addresses /\ M_activeTimers' \subseteq TimerIds
        BY <1>1, <1>2 DEF IInv, TypeOK
    <2>. QED  BY <1>0, <1>1, <1>4, <2>1, <2>2 DEF IInv, TypeOK, batchVars
<1>6. SetsAgree'
    <2>1. \A b \in M_timers \union expired : IdOf(b)' = IdOf(b) /\ Live(b)'
        BY <1>1, <1>3 DEF IInv, SetsAgree, IdOf, Live
    <2>2. IdOf(a)' = <<a, heap'[a].seq>>
        BY DEF IdOf
    <2>3. M_activeTimers' = {IdOf(b)' : b \in M_timers'}
        BY <1>2, <2>1, <2>2 DEF IInv, SetsAgree
    <2>4. expired' = expired
        BY <1>0 DEF batchVars
    <2>. QED  BY <1>1, <1>2, <2>1, <2>3, <2>4 DEF IInv, SetsAgree
<1>7. QueuedTimersWait'
    <2>1. \A i \in 1 .. Len(queue) : queue[i].id[1] \in Addresses
        BY QueueTyped DEF IInv
    <2>2. \A i \in 1 .. Len(queue) : queue[i].op = "add" =>
             heap'[queue[i].id[1]] = heap[queue[i].id[1]]
        BY <1>1, <2>1
    <2>. QED  BY <1>0, <1>1, <1>2, <2>2 DEF IInv, QueuedTimersWait, Live, batchVars
<1>8. SequencesDistinct' /\ CancelledOnlyInBatch'
    BY <1>0, NewTimerKeepsSequences
<1>9. AlarmInTime'
    <2>1. \A b \in M_timers : heap'[b] = heap[b]
        BY <1>1, <1>3
    <2>2. M_callingExpiredTimers' = M_callingExpiredTimers
        BY <1>0 DEF batchVars
    <2>. QED  BY <1>2, <1>4, <2>1, <2>2 DEF IInv, AlarmInTime
<1>. QED  BY <1>0, <1>5, <1>6, <1>7, <1>8, <1>9 DEF IInv, BatchOnlyInHandleRead, batchVars

(* addTimer() in another thread: the functor owns the new timer.           *)
LEMMA ThreadAddTimerKeeps ==
    ASSUME IInv, NEW t \in Threads, NEW a \in Addresses, NEW delay \in Ticks,
           NEW interval \in Ticks, ThreadAddTimer(t, a, delay, interval)
    PROVE  IInv'
<1> DEFINE F == [op : {"add", "cancel"}, id : TimerIds]
           functor == [op |-> "add", id |-> <<a, s_numCreated'>>]
<1>0. NewTimer(a, delay, interval)
      /\ UNCHANGED <<setVars, batchVars, elapsed, alarm, stale, ids, ran, cancelled>>
    BY DEF ThreadAddTimer
<1>1. /\ heap' \in [Addresses -> Timers]
      /\ s_numCreated' \in Sequences0
      /\ <<a, s_numCreated'>> \in TimerIds
      /\ Live(a)'
      /\ a \notin M_timers \union expired
      /\ \A i \in 1 .. Len(queue) : queue[i].op = "add" => queue[i].id[1] # a
      /\ \A b \in Addresses : b # a => heap'[b] = heap[b]
    BY <1>0, NewTimerFacts
<1>2. M_timers \subseteq Addresses /\ expired \subseteq Addresses
    BY DEF IInv, TypeOK
<1>3. queue \in Seq(F) /\ functor \in F
    BY <1>1 DEF IInv, TypeOK
<1>4. /\ queue' \in Seq(F)
      /\ Len(queue') = Len(queue) + 1 /\ Len(queue) \in Nat
      /\ \A i \in 1 .. Len(queue) : queue'[i] = queue[i]
      /\ queue'[Len(queue) + 1] = functor
    <2>1. queue' = Append(queue, functor)
        BY DEF ThreadAddTimer
    <2> HIDE DEF F, functor
    <2>. QED  BY <1>3, <2>1, AppendProperties
<1>5. TypeOK'
    <2>1. pc' \in [Threads -> TimerIds \union {Idle}]
        BY <1>1 DEF ThreadAddTimer, IInv, TypeOK
    <2>. QED  BY <1>0, <1>1, <1>4, <2>1 DEF IInv, TypeOK, setVars, batchVars
<1>6. SetsAgree'
    <2>1. \A b \in M_timers \union expired : IdOf(b)' = IdOf(b) /\ Live(b)'
        BY <1>1, <1>2 DEF IInv, SetsAgree, IdOf, Live
    <2>2. UNCHANGED <<M_timers, M_activeTimers, expired>>
        BY <1>0 DEF setVars, batchVars
    <2>3. M_activeTimers' = {IdOf(b)' : b \in M_timers'}
        BY <2>1, <2>2 DEF IInv, SetsAgree
    <2>. QED  BY <2>1, <2>2, <2>3 DEF IInv, SetsAgree
<1>7. QueuedTimersWait'
    <2>1. \A i \in 1 .. Len(queue) : queue[i].id[1] \in Addresses
        BY QueueTyped DEF IInv
    <2>2. \A i \in 1 .. Len(queue) : queue[i].op = "add" =>
             heap'[queue[i].id[1]] = heap[queue[i].id[1]]
        BY <1>1, <2>1
    <2>3. functor.op = "add" /\ functor.id[1] = a
        OBVIOUS
    <2>4. UNCHANGED <<M_timers, expired>>
        BY <1>0 DEF setVars, batchVars
    <2>5. \A i \in 1 .. Len(queue') : i \in 1 .. Len(queue) \/ i = Len(queue) + 1
        BY <1>4
    <2> HIDE DEF functor
    <2>. QED  BY <1>1, <1>4, <2>2, <2>3, <2>4, <2>5 DEF IInv, QueuedTimersWait, Live
<1>8. SequencesDistinct' /\ CancelledOnlyInBatch'
    BY <1>0, NewTimerKeepsSequences
<1>9. AlarmInTime'
    <2>1. \A b \in M_timers : heap'[b] = heap[b]
        BY <1>1, <1>2
    <2>. QED  BY <1>0, <2>1 DEF IInv, AlarmInTime, setVars, batchVars
<1>. QED  BY <1>0, <1>5, <1>6, <1>7, <1>8, <1>9 DEF IInv, BatchOnlyInHandleRead, batchVars
-----------------------------------------------------------------------------
(* A queue that loses its first functor, or none.                          *)
LEMMA ShorterQueueWaits ==
    ASSUME IInv, expired' = expired,
           queue' = queue \/ (queue # <<>> /\ queue' = Tail(queue)),
           \A i \in 1 .. Len(queue) :
              queue[i].op = "add" /\ (i # 1 \/ queue' = queue) =>
                 heap'[queue[i].id[1]].seq # 0 /\ queue[i].id[1] \notin M_timers'
    PROVE  /\ queue' \in Seq([op : {"add", "cancel"}, id : TimerIds])
           /\ QueuedTimersWait'
<1> DEFINE F == [op : {"add", "cancel"}, id : TimerIds]
<1>1. queue \in Seq(F)
    BY DEF IInv, TypeOK
<1> HIDE DEF F
<1>2. CASE queue' = queue
    BY <1>1, <1>2 DEF IInv, QueuedTimersWait, Live, F
<1>3. CASE queue # <<>> /\ queue' = Tail(queue)
    <2>1. /\ queue' \in Seq(F) /\ Len(queue') \in Nat
          /\ \A i \in 1 .. Len(queue') : i + 1 \in 1 .. Len(queue) /\ queue'[i] = queue[i + 1]
        BY <1>1, <1>3, QueueTail
    <2>2. ASSUME NEW i \in 1 .. Len(queue'), queue'[i].op = "add"
          PROVE  /\ heap'[queue'[i].id[1]].seq # 0
                 /\ queue'[i].id[1] \notin M_timers' \union expired'
                 /\ \A j \in 1 .. Len(queue') :
                       queue'[j].op = "add" /\ j # i => queue'[j].id[1] # queue'[i].id[1]
        <3>1. i + 1 \in 1 .. Len(queue) /\ i + 1 # 1 /\ queue'[i] = queue[i + 1]
              /\ queue[i + 1].op = "add"
            BY <2>1, <2>2
        <3>2. heap'[queue[i + 1].id[1]].seq # 0 /\ queue[i + 1].id[1] \notin M_timers'
            BY <3>1
        <3>3. /\ queue[i + 1].id[1] \notin expired
              /\ \A k \in 1 .. Len(queue) :
                    queue[k].op = "add" /\ k # i + 1 => queue[k].id[1] # queue[i + 1].id[1]
            BY <3>1 DEF IInv, QueuedTimersWait
        <3>4. \A j \in 1 .. Len(queue') : j # i => j + 1 # i + 1
            BY <2>1
        <3>5. \A j \in 1 .. Len(queue') :
                 queue'[j].op = "add" /\ j # i => queue'[j].id[1] # queue'[i].id[1]
            BY <2>1, <3>1, <3>3, <3>4
        <3>. QED  BY <3>1, <3>2, <3>3, <3>5
    <2>3. QueuedTimersWait'
        BY <2>2 DEF QueuedTimersWait, Live
    <2>. QED  BY <2>1, <2>3 DEF F
<1>. QED  BY <1>2, <1>3

(* addTimerInLoop() as a functor.                                          *)
LEMMA RunAddKeeps ==
    ASSUME IInv, RunAdd
    PROVE  IInv'
<1> DEFINE F == [op : {"add", "cancel"}, id : TimerIds]
           a == queue[1].id[1]
<1>0. queue \in Seq(F) /\ queue # <<>>
    BY DEF IInv, TypeOK, RunAdd
<1>1. /\ 1 \in 1 .. Len(queue) /\ Head(queue) = queue[1] /\ Tail(queue) \in Seq(F)
      /\ Len(Tail(queue)) \in Nat
      /\ \A i \in 1 .. Len(Tail(queue)) :
            i + 1 \in 1 .. Len(queue) /\ Tail(queue)[i] = queue[i + 1]
    <2> HIDE DEF F
    <2>. QED  BY <1>0, QueueTail
<1>2. queue[1].op = "add" /\ InsertAndArm(heap, a) /\ queue' = Tail(queue)
      /\ ~M_callingExpiredTimers
      /\ UNCHANGED <<heap, s_numCreated, batchVars, elapsed, stale, pc, ids, ran,
                     cancelled>>
    BY <1>1 DEF RunAdd
<1>3. a \in Addresses /\ Live(a) /\ a \notin M_timers \union expired
    BY <1>1, <1>2, QueueTyped DEF IInv, QueuedTimersWait
<1>4. heap \in [Addresses -> Timers] /\ M_timers \subseteq Addresses
      /\ alarm \in Ticks \union {Disarmed}
    BY DEF IInv, TypeOK
<1>5. /\ M_timers' = M_timers \union {a}
      /\ M_activeTimers' = M_activeTimers \union {IdOf(a)}
    BY <1>2 DEF InsertAndArm, IdOf
<1> HIDE DEF a
<1>6. /\ alarm' \in Ticks \union {Disarmed}
      /\ (\A b \in M_timers : alarm # Disarmed /\ alarm <= AlarmFor(heap[b].due)) =>
            \A b \in M_timers \union {a} :
               alarm' # Disarmed /\ alarm' <= AlarmFor(heap[b].due)
    BY <1>2, <1>3, <1>4, InsertKeepsAlarm
<1>7. TypeOK'
    <2>1. M_timers' \subseteq Addresses
        BY <1>3, <1>4, <1>5
    <2>2. IdOf(a) \in TimerIds
        BY <1>3, <1>4 DEF IdOf, TimerIds, Timers
    <2>3. M_activeTimers' \subseteq TimerIds
        BY <1>5, <2>2 DEF IInv, TypeOK
    <2>. QED  BY <1>1, <1>2, <1>6, <2>1, <2>3 DEF IInv, TypeOK, batchVars
<1>8. SetsAgree'
    <2>1. UNCHANGED <<heap, expired>>
        BY <1>2 DEF batchVars
    <2>2. M_activeTimers' = {IdOf(b) : b \in M_timers'}
        BY <1>5 DEF IInv, SetsAgree
    <2>. QED  BY <1>3, <1>5, <2>1, <2>2 DEF IInv, SetsAgree, IdOf, Live
<1>9. QueuedTimersWait'
    <2>1. UNCHANGED <<heap, expired>>
        BY <1>2 DEF batchVars
    <2>2. \A i \in 1 .. Len(queue) : queue[i].op = "add" /\ i # 1 =>
             queue[i].id[1] \notin M_timers'
        BY <1>1, <1>2, <1>5 DEF IInv, QueuedTimersWait, a
    <2>3. \A i \in 1 .. Len(queue) : queue[i].op = "add" => heap'[queue[i].id[1]].seq # 0
        BY <2>1 DEF IInv, QueuedTimersWait, Live
    <2>4. queue' # queue
        <3>1. Len(Tail(queue)) = Len(queue) - 1 /\ Len(queue) \in Nat
            BY <1>0, HeadTailProperties
        <3>. QED  BY <1>2, <3>1
    <2>. QED  BY <1>0, <1>2, <2>1, <2>2, <2>3, <2>4, ShorterQueueWaits
<1>10. SequencesDistinct' /\ CancelledOnlyInBatch'
    BY <1>2 DEF IInv, SequencesDistinct, CancelledOnlyInBatch, Live, IdOf, batchVars
<1>11. AlarmInTime'
    BY <1>2, <1>5, <1>6 DEF IInv, AlarmInTime, batchVars
<1>. QED  BY <1>2, <1>7, <1>8, <1>9, <1>10, <1>11 DEF IInv, BatchOnlyInHandleRead, batchVars

(* cancelInLoop(): a waiting timer is deleted; one of the batch is left    *)
(* for reset().                                                            *)
LEMMA CancelInLoopKeeps ==
    ASSUME IInv, NEW id \in TimerIds, CancelInLoop(id),
           UNCHANGED <<s_numCreated, M_callingExpiredTimers, expired, toRun,
                       running, elapsed, alarm, stale, pc, ids, ran>>,
           queue' = queue \/ (queue # <<>> /\ queue' = Tail(queue))
    PROVE  IInv'
<1> DEFINE a == id[1]
<1>0. /\ heap \in [Addresses -> Timers] /\ M_timers \subseteq Addresses
      /\ expired \subseteq Addresses /\ a \in Addresses /\ id[2] \in Sequences0
      /\ cancelled \subseteq Sequences0
    BY DEF IInv, TypeOK, TimerIds
<1>1. CASE id \in M_activeTimers
    <2>1. a \in M_timers /\ id = IdOf(a) /\ id[2] = heap[a].seq /\ Live(a)
        BY <1>1 DEF IInv, SetsAgree, IdOf
    <2>2. /\ M_timers' = M_timers \ {a} /\ M_activeTimers' = M_activeTimers \ {id}
          /\ cancelled' = cancelled \union {heap[a].seq}
          /\ M_cancelingTimers' = M_cancelingTimers
          /\ heap' = [heap EXCEPT ![a] = Freed]
        BY <1>1, <2>1 DEF CancelInLoop
    <2>3. Freed \in Timers /\ Freed.seq = 0
        BY DEF Freed, Timers, Sequences0, Ticks
    <2>4. /\ heap' \in [Addresses -> Timers]
          /\ heap'[a].seq = 0 /\ \A b \in Addresses : b # a => heap'[b] = heap[b]
        BY <1>0, <2>2, <2>3
    <2> HIDE DEF a
    <2>5. \A i \in 1 .. Len(queue) : /\ queue[i].id[1] \in Addresses
                                     /\ queue[i].op = "add" => queue[i].id[1] # a
        BY <2>1, QueueTyped DEF IInv, QueuedTimersWait
    <2>6. queue' \in Seq([op : {"add", "cancel"}, id : TimerIds]) /\ QueuedTimersWait'
        <3>1. \A i \in 1 .. Len(queue) : queue[i].op = "add" =>
                 heap'[queue[i].id[1]] = heap[queue[i].id[1]]
            BY <2>4, <2>5
        <3>2. \A i \in 1 .. Len(queue) : queue[i].op = "add" =>
                 heap'[queue[i].id[1]].seq # 0 /\ queue[i].id[1] \notin M_timers'
            BY <2>2, <3>1 DEF IInv, QueuedTimersWait, Live
        <3>. QED  BY <3>2, ShorterQueueWaits
    <2>7. TypeOK'
        <3>1. cancelled' \subseteq Sequences0
            BY <1>0, <2>1, <2>2
        <3>. QED  BY <2>2, <2>4, <2>6, <3>1 DEF IInv, TypeOK
    <2>8. SetsAgree'
        <3>1. \A b \in M_timers' \union expired : IdOf(b)' = IdOf(b) /\ Live(b)'
            BY <1>0, <2>1, <2>2, <2>4 DEF IInv, SetsAgree, IdOf, Live
        <3>2. M_activeTimers' = {IdOf(b) : b \in M_timers'}
            BY <2>1, <2>2 DEF IInv, SetsAgree, IdOf
        <3>3. M_activeTimers' = {IdOf(b)' : b \in M_timers'}
            BY <3>1, <3>2
        <3>. QED  BY <2>2, <3>1, <3>3 DEF IInv, SetsAgree
    <2>9. SequencesDistinct'
        BY <1>0, <2>1, <2>2, <2>4 DEF IInv, TypeOK, SequencesDistinct, Live, Sequences0
    <2>10. CancelledOnlyInBatch'
        <3>1. \A b \in Addresses : Live(b)' => b # a /\ Live(b) /\ heap'[b] = heap[b]
            BY <2>4 DEF Live
        <3>2. \A b \in Addresses : Live(b)' => heap[b].seq # heap[a].seq
            BY <1>0, <2>1, <3>1 DEF IInv, SequencesDistinct, a
        <3>. QED  BY <2>2, <3>1, <3>2 DEF IInv, CancelledOnlyInBatch, IdOf
    <2>11. AlarmInTime'
        <3>1. \A b \in M_timers' : b \in M_timers /\ heap'[b] = heap[b]
            BY <1>0, <2>2, <2>4
        <3>. QED  BY <3>1 DEF IInv, AlarmInTime
    <2>. QED  BY <2>6, <2>7, <2>8, <2>9, <2>10, <2>11 DEF IInv, BatchOnlyInHandleRead
<1>2. CASE id \notin M_activeTimers
    <2>1. /\ UNCHANGED <<M_timers, M_activeTimers, heap>>
          /\ M_cancelingTimers' = IF M_callingExpiredTimers
                                  THEN M_cancelingTimers \union {id} ELSE M_cancelingTimers
          /\ cancelled' = IF a \in expired /\ id = IdOf(a)
                          THEN cancelled \union {id[2]} ELSE cancelled
        BY <1>2 DEF CancelInLoop, setVars
    <2>2. queue' \in Seq([op : {"add", "cancel"}, id : TimerIds]) /\ QueuedTimersWait'
        <3>1. \A i \in 1 .. Len(queue) : queue[i].op = "add" =>
                 heap'[queue[i].id[1]].seq # 0 /\ queue[i].id[1] \notin M_timers'
            BY <2>1 DEF IInv, QueuedTimersWait, Live
        <3>. QED  BY <3>1, ShorterQueueWaits
    <2>3. TypeOK'
        <3>1. cancelled' \subseteq Sequences0 /\ M_cancelingTimers' \subseteq TimerIds
            BY <1>0, <2>1 DEF IInv, TypeOK
        <3>. QED  BY <2>1, <2>2, <3>1 DEF IInv, TypeOK
    <2>4. SetsAgree' /\ AlarmInTime'
        BY <2>1 DEF IInv, SetsAgree, AlarmInTime, IdOf, Live
    <2>5. CASE a \in expired /\ id = IdOf(a)
        <3>1. M_callingExpiredTimers /\ cancelled' = cancelled \union {heap[a].seq}
              /\ M_cancelingTimers' = M_cancelingTimers \union {IdOf(a)} /\ Live(a)
            BY <2>1, <2>5 DEF IInv, BatchOnlyInHandleRead, SetsAgree, IdOf
        <3> HIDE DEF a
        <3>2. \A b \in Addresses : Live(b) /\ b # a => heap[b].seq # heap[a].seq
            BY <1>0, <3>1 DEF IInv, SequencesDistinct
        <3>3. SequencesDistinct'
            BY <1>0, <2>1, <3>1 DEF IInv, SequencesDistinct, Live
        <3>4. CancelledOnlyInBatch'
            BY <2>1, <2>5, <3>1, <3>2 DEF IInv, CancelledOnlyInBatch, Live, IdOf
        <3>. QED  BY <2>2, <2>3, <2>4, <3>3, <3>4 DEF IInv, BatchOnlyInHandleRead
    <2>6. CASE ~(a \in expired /\ id = IdOf(a))
        <3>1. cancelled' = cancelled /\ M_cancelingTimers \subseteq M_cancelingTimers'
            BY <2>1, <2>6
        <3>2. SequencesDistinct' /\ CancelledOnlyInBatch'
            BY <2>1, <3>1 DEF IInv, SequencesDistinct, CancelledOnlyInBatch, Live, IdOf
        <3>. QED  BY <2>2, <2>3, <2>4, <3>2 DEF IInv, BatchOnlyInHandleRead
    <2>. QED  BY <2>5, <2>6
<1>. QED  BY <1>1, <1>2

(* The end of addTimer() and the beginning of cancel() in another thread.  *)
LEMMA AddTimerReturnsKeeps ==
    ASSUME IInv, NEW t \in Threads, AddTimerReturns(t)
    PROVE  IInv'
<1>1. pc[t] \in TimerIds
    BY DEF IInv, TypeOK, AddTimerReturns
<1>2. ids' \subseteq TimerIds
    <2>1. PICK seq \in IF Live(pc[t][1]) THEN {heap[pc[t][1]].seq} ELSE Sequences0 :
             ids' = ids \union {<<pc[t][1], seq>>}
        BY DEF AddTimerReturns
    <2>2. pc[t][1] \in Addresses
        BY <1>1 DEF TimerIds
    <2>3. seq \in Sequences0
        BY <2>1, <2>2 DEF IInv, TypeOK, Timers
    <2>. QED  BY <2>1, <2>2, <2>3 DEF IInv, TypeOK, TimerIds
<1>3. pc' \in [Threads -> TimerIds \union {Idle}]
    BY DEF IInv, TypeOK, AddTimerReturns
<1>4. TypeOK'
    BY <1>2, <1>3 DEF IInv, TypeOK, AddTimerReturns, setVars, batchVars
<1>5. SetsAgree' /\ QueuedTimersWait'
    BY DEF IInv, SetsAgree, QueuedTimersWait, AddTimerReturns, Live, IdOf, setVars, batchVars
<1>6. SequencesDistinct' /\ CancelledOnlyInBatch' /\ AlarmInTime' /\ BatchOnlyInHandleRead'
    BY DEF IInv, SequencesDistinct, CancelledOnlyInBatch, AlarmInTime, BatchOnlyInHandleRead,
           AddTimerReturns, Live, IdOf, setVars, batchVars
<1>. QED  BY <1>4, <1>5, <1>6 DEF IInv

LEMMA ThreadCancelKeeps ==
    ASSUME IInv, NEW t \in Threads, NEW id \in ids, ThreadCancel(t, id)
    PROVE  IInv'
<1> DEFINE F == [op : {"add", "cancel"}, id : TimerIds]
           functor == [op |-> "cancel", id |-> id]
<1>1. queue \in Seq(F) /\ functor \in F /\ functor.op # "add"
    BY DEF IInv, TypeOK
<1>2. queue' = Append(queue, functor)
    BY DEF ThreadCancel
<1> HIDE DEF F, functor
<1>3. /\ queue' \in Seq(F)
      /\ Len(queue') = Len(queue) + 1 /\ Len(queue) \in Nat
      /\ \A i \in 1 .. Len(queue) : queue'[i] = queue[i]
      /\ queue'[Len(queue) + 1] = functor
    BY <1>1, <1>2, AppendProperties
<1>4. TypeOK'
    BY <1>3 DEF IInv, TypeOK, ThreadCancel, setVars, batchVars, F
<1>5. QueuedTimersWait'
    <2>1. \A i \in 1 .. Len(queue') : queue'[i].op = "add" =>
             i \in 1 .. Len(queue) /\ queue'[i] = queue[i]
        BY <1>1, <1>3
    <2>. QED  BY <1>3, <2>1
        DEF IInv, QueuedTimersWait, ThreadCancel, Live, setVars, batchVars
<1>6. SetsAgree' /\ SequencesDistinct' /\ CancelledOnlyInBatch'
    BY DEF IInv, SetsAgree, SequencesDistinct, CancelledOnlyInBatch, ThreadCancel, Live, IdOf,
           setVars, batchVars
<1>7. AlarmInTime' /\ BatchOnlyInHandleRead'
    BY DEF IInv, AlarmInTime, BatchOnlyInHandleRead, ThreadCancel, setVars, batchVars
<1>. QED  BY <1>4, <1>5, <1>6, <1>7 DEF IInv

-----------------------------------------------------------------------------
(* Every step keeps the invariant.                                         *)
LEMMA NextKeeps == IInv /\ [Next]_vars => IInv'
<1> SUFFICES ASSUME IInv, [Next]_vars PROVE IInv'
    OBVIOUS
<1>1. CASE HandleRead
    BY <1>1, HandleReadKeeps
<1>2. CASE CallbackReturns \/ \E a \in Addresses : RunTimer(a)
    BY <1>2, CallbacksKeep
<1>3. CASE Reset
    BY <1>3, ResetKeeps
<1>4. CASE RunAdd
    BY <1>4, RunAddKeeps
<1>5. CASE RunCancel
    <2>1. Head(queue).id \in TimerIds
        BY <1>5, QueueTail, QueueTyped DEF RunCancel, IInv, TypeOK
    <2>. QED  BY <1>5, <2>1, CancelInLoopKeeps DEF RunCancel
<1>6. CASE Tick
    BY <1>6, TickKeeps
<1>7. CASE UserStep
    <2>1. ASSUME NEW id \in ids, Cancel(id) PROVE IInv'
        <3>1. id \in TimerIds
            BY DEF IInv, TypeOK
        <3>. QED  BY <2>1, <3>1, CancelInLoopKeeps DEF Cancel
    <2>. QED  BY <1>7, <2>1, AddTimerKeeps DEF UserStep
<1>8. CASE \E t \in Threads : ThreadStep(t)
    BY <1>8, ThreadAddTimerKeeps, AddTimerReturnsKeeps, ThreadCancelKeeps DEF ThreadStep
<1>9. CASE UNCHANGED vars
    BY <1>9 DEF vars, setVars, batchVars, IInv, TypeOK, SetsAgree, QueuedTimersWait,
        BatchOnlyInHandleRead, SequencesDistinct, CancelledOnlyInBatch, AlarmInTime, Live, IdOf
<1>. QED  BY <1>1, <1>2, <1>3, <1>4, <1>5, <1>6, <1>7, <1>8, <1>9
    DEF Next, TimerStep, FunctorStep

(* The inductive invariant holds in every behaviour of addTimer(),         *)
(* cancel() and handleRead().                                              *)
THEOREM Invariance == Spec => []IInv
BY InitIInv, NextKeeps, PTL DEF Spec

(* insert()/cancelInLoop()/getExpired(): the two sets hold the same live   *)
(* timers, none of which is in the batch.                                  *)
THEOREM SetsAgreeHolds == Spec => []SetsAgree
<1>1. IInv => SetsAgree
    BY DEF IInv
<1>. QED  BY <1>1, Invariance, PTL

(* resetTimerfd(): while timers wait, the timerfd is armed in time for the *)
(* earliest, whatever was added and cancelled meanwhile.                   *)
THEOREM ArmedForEarliestHolds == Spec => []ArmedForEarliest
<1>1. IInv => ArmedForEarliest
    <2> SUFFICES ASSUME IInv, ~M_callingExpiredTimers, M_timers # {}
                 PROVE  alarm # Disarmed /\ alarm <= AlarmFor(Earliest(heap, M_timers))
        BY DEF ArmedForEarliest
    <2>1. \A a \in M_timers : heap[a].due \in Nat
        BY DEF IInv, TypeOK, Timers, Ticks
    <2>2. PICK e \in M_timers : Earliest(heap, M_timers) = heap[e].due
        BY <2>1, EarliestIsLeast
    <2>. QED  BY <2>2 DEF IInv, AlarmInTime
<1>. QED  BY <1>1, Invariance, PTL

(* cancelInLoop()/reset(): no timer that waits was ever cancelled, in the  *)
(* middle of its own batch or otherwise.                                   *)
THEOREM CancelIsFinalHolds == Spec => []CancelIsFinal
<1>1. IInv => CancelIsFinal
    <2> SUFFICES ASSUME IInv, NEW id \in M_activeTimers PROVE id[2] \notin cancelled
        BY DEF CancelIsFinal
    <2>1. PICK a \in M_timers : id = IdOf(a)
        BY DEF IInv, SetsAgree
    <2>2. a \in Addresses /\ Live(a) /\ a \notin expired /\ id[2] = heap[a].seq
        BY <2>1 DEF IInv, TypeOK, SetsAgree, IdOf
    <2>. QED  BY <2>2 DEF IInv, CancelledOnlyInBatch
<1>. QED  BY <1>1, Invariance, PTL

=============================================================================
