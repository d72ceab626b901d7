------------------------ MODULE EventLoopThreadProofs ------------------------
(***************************************************************************)
(* What is proved of EventLoop and of EventLoopThread, for any owner,      *)
(* threads, functors and channels.  Of a loop: its typing, the absence of  *)
(* lost wakeups and the implementation of SerialExecutor.  Of the thread   *)
(* that holds one: the thread and its owner only ever do with the loop     *)
(* what EventLoop.tla allows, so that what is proved of a loop holds of    *)
(* this one.  The two safety properties of the destructor have an          *)
(* inductive invariant each, about how far the two threads have got.       *)
(***************************************************************************)
EXTENDS EventLoopThread, SequenceTheorems, TLAPS

(***************************************************************************)
(* EventLoop                                                               *)
(***************************************************************************)
(* The loop thread's locals agree with its position in loop().             *)
PhaseInv ==
    /\ lpc # "call" => running = NoFunctor /\ functors = <<>>
    /\ lpc # "handle" => M_currentActiveChannel = NoChannel
    /\ M_callingPendingFunctors => lpc = "call"
    /\ lpc = "call" => M_callingPendingFunctors

(* Outside the dispatch of events (which doPendingFunctors() follows), a   *)
(* pending functor is signalled, about to be signalled, or early.          *)
SignalInv ==
    (lpc # "handle" /\ ~wakeupFd /\ \A t \in Threads : pc[t] # "wakeup")
        => \A f \in Functors : Pending(f) => f \in early

IInv == TypeOK /\ PhaseInv /\ SignalInv

-----------------------------------------------------------------------------
(* The elements of a sequence after push_back().                           *)
LEMMA RangeOfAppend ==
    ASSUME NEW S, NEW s \in Seq(S), NEW e \in S
    PROVE  Range(Append(s, e)) = Range(s) \union {e}
  <1>1. /\ Append(s, e) \in Seq(S)
        /\ Len(Append(s, e)) = Len(s) + 1
        /\ \A i \in 1 .. Len(s) : Append(s, e)[i] = s[i]
        /\ Append(s, e)[Len(s) + 1] = e
    BY AppendProperties
  <1>2. /\ Len(s) \in Nat
        /\ DOMAIN s = 1 .. Len(s)
        /\ DOMAIN Append(s, e) = 1 .. Len(s) + 1
    BY <1>1, LenProperties
  <1>3. ASSUME NEW x \in Range(Append(s, e)) PROVE x \in Range(s) \union {e}
    BY <1>1, <1>2 DEF Range
  <1>4. ASSUME NEW x \in Range(s) \union {e} PROVE x \in Range(Append(s, e))
    BY <1>1, <1>2 DEF Range
  <1> QED
    BY <1>3, <1>4

LEMMA RangeOfEmpty == Range(<<>>) = {}
  BY DEF Range

-----------------------------------------------------------------------------
(* Every step keeps the types: no step of loop(), doPendingFunctors(),     *)
(* queueInLoop() or quit() leaves the state space of the declarations.     *)
LEMMA TypePreserved == TypeOK /\ [Next]_vars => TypeOK'
  <1> SUFFICES ASSUME TypeOK, [Next]_vars PROVE TypeOK'
    OBVIOUS
  <1> USE EventLoopAssumption DEF TypeOK, loopVars, queueVars
  <1>1. CASE EnterLoop
    BY <1>1 DEF EnterLoop
  <1>2. CASE TestQuit
    BY <1>2 DEF TestQuit
  <1>3. ASSUME NEW cs \in SUBSET (Channels \union {WakeupChannel}), Poll(cs)
        PROVE  TypeOK'
    BY <1>3 DEF Poll
  <1>4. CASE PollWakeup
    BY <1>3, <1>4 DEF PollWakeup
  <1>5. CASE PollIO
    BY <1>3, <1>5 DEF PollIO
  <1>6. CASE PollTimeout
    BY <1>3, <1>6 DEF PollTimeout
  <1>7. CASE HandleWakeup
    BY <1>7 DEF HandleWakeup
  <1>8. ASSUME NEW c \in Channels, HandleEvent(c) PROVE TypeOK'
    BY <1>8 DEF HandleEvent
  <1>9. CASE EventHandled
    BY <1>9 DEF EventHandled
  <1>10. CASE SwapFunctors
    BY <1>10 DEF SwapFunctors
  <1>11. CASE CallFunctor
    <2>1. Head(functors) \in Functors /\ Tail(functors) \in Seq(Functors)
      BY <1>11, HeadTailProperties DEF CallFunctor
    <2> QED
      BY <1>11, <2>1 DEF CallFunctor
  <1>12. CASE FunctorReturns
    BY <1>12 DEF FunctorReturns
  <1>13. CASE FunctorsDone
    BY <1>13 DEF FunctorsDone
  <1>14. ASSUME NEW f \in Functors, LoopQueueInLoop(f) PROVE TypeOK'
    <2>1. Append(M_pendingFunctors, f) \in Seq(Functors)
      BY AppendProperties
    <2>2. wakeupFd' \in BOOLEAN
      BY <1>14 DEF LoopQueueInLoop
    <2> QED
      BY <1>14, <2>1, <2>2 DEF LoopQueueInLoop, PushBack
  <1>15. CASE LoopQuit
    BY <1>15 DEF LoopQuit
  <1>16. ASSUME NEW t \in Threads, NEW f \in Functors, QueueInLoop(t, f)
         PROVE  TypeOK'
    <2>1. Append(M_pendingFunctors, f) \in Seq(Functors)
      BY AppendProperties
    <2> QED
      BY <1>16, <2>1 DEF QueueInLoop, PushBack
  <1>17. ASSUME NEW t \in Threads, Quit(t) PROVE TypeOK'
    BY <1>17 DEF Quit
  <1>18. ASSUME NEW t \in Threads, Wakeup(t) PROVE TypeOK'
    BY <1>18 DEF Wakeup
  <1>19. CASE UNCHANGED vars
    BY <1>19 DEF vars
  <1> QED
    BY <1>1, <1>2, <1>4, <1>5, <1>6, <1>7, <1>8, <1>9, <1>10, <1>11, <1>12,
       <1>13, <1>14, <1>15, <1>16, <1>17, <1>18, <1>19
       DEF Next, LoopStep, UserStep, ThreadStep

(* The loop thread's position determines which of its locals are in use.   *)
LEMMA PhasePreserved == TypeOK /\ PhaseInv /\ [Next]_vars => PhaseInv'
  <1> SUFFICES ASSUME TypeOK, PhaseInv, [Next]_vars PROVE PhaseInv'
    OBVIOUS
  <1> USE DEF PhaseInv, loopVars, queueVars
  <1>1. CASE EnterLoop
    BY <1>1 DEF EnterLoop
  <1>2. CASE TestQuit
    BY <1>2 DEF TestQuit
  <1>3. CASE PollWakeup \/ PollIO \/ PollTimeout
    BY <1>3 DEF PollWakeup, PollIO, PollTimeout, Poll
  <1>4. CASE HandleWakeup \/ EventHandled \/ \E c \in Channels : HandleEvent(c)
    BY <1>4 DEF HandleWakeup, EventHandled, HandleEvent
  <1>5. CASE SwapFunctors
    BY <1>5 DEF SwapFunctors
  <1>6. CASE CallFunctor \/ FunctorReturns
    BY <1>6 DEF CallFunctor, FunctorReturns
  <1>7. CASE FunctorsDone
    BY <1>7 DEF FunctorsDone
  <1>8. CASE LoopQuit \/ \E f \in Functors : LoopQueueInLoop(f)
    BY <1>8 DEF LoopQuit, LoopQueueInLoop
  <1>9. CASE \E t \in Threads : ThreadStep(t)
    BY <1>9 DEF ThreadStep, QueueInLoop, Quit, Wakeup
  <1>10. CASE UNCHANGED vars
    BY <1>10 DEF vars
  <1> QED
    BY <1>1, <1>2, <1>3, <1>4, <1>5, <1>6, <1>7, <1>8, <1>9, <1>10
       DEF Next, LoopStep, UserStep

(* The heart of the wakeup protocol: each way of adding a functor outside  *)
(* the dispatch phase signals it, or leaves a thread that will.            *)
LEMMA SignalPreserved == IInv /\ [Next]_vars => SignalInv'
  <1> SUFFICES ASSUME IInv, [Next]_vars PROVE SignalInv'
    OBVIOUS
  <1> USE DEF IInv, loopVars, queueVars
  <1>1. CASE EnterLoop
    BY <1>1 DEF EnterLoop, SignalInv, Pending
  <1>2. CASE TestQuit
    BY <1>2 DEF TestQuit, SignalInv, Pending
  <1>3. CASE PollWakeup \/ PollIO \/ PollTimeout
    BY <1>3 DEF PollWakeup, PollIO, PollTimeout, Poll, SignalInv
  <1>4. CASE HandleWakeup \/ EventHandled \/ \E c \in Channels : HandleEvent(c)
    BY <1>4 DEF HandleWakeup, EventHandled, HandleEvent, SignalInv
  <1>5. CASE SwapFunctors
    BY <1>5, RangeOfEmpty DEF SwapFunctors, SignalInv, Pending
  <1>6. CASE CallFunctor \/ FunctorReturns \/ FunctorsDone
    BY <1>6 DEF CallFunctor, FunctorReturns, FunctorsDone, SignalInv, Pending
  <1>7. ASSUME NEW f \in Functors, LoopQueueInLoop(f) PROVE SignalInv'
    <2>1. CASE lpc = "idle"
      <3>1. Range(M_pendingFunctors') = Range(M_pendingFunctors) \union {f}
        BY <1>7, RangeOfAppend DEF LoopQueueInLoop, PushBack, TypeOK
      <3>2. early' = early \union {f} /\ pc' = pc /\ lpc' = lpc
        BY <1>7, <2>1 DEF LoopQueueInLoop
      <3>3. ~wakeupFd' => ~wakeupFd
        BY <1>7 DEF LoopQueueInLoop
      <3> QED
        BY <2>1, <3>1, <3>2, <3>3 DEF SignalInv, Pending
    <2>2. CASE M_currentActiveChannel # NoChannel
      BY <1>7, <2>2 DEF LoopQueueInLoop, PhaseInv, SignalInv
    <2>3. CASE running # NoFunctor
      <3>1. M_callingPendingFunctors
        BY <2>3 DEF PhaseInv
      <3> QED
        BY <1>7, <3>1 DEF LoopQueueInLoop, SignalInv
    <2> QED
      BY <1>7, <2>1, <2>2, <2>3 DEF LoopQueueInLoop, InUserCode
  <1>8. CASE LoopQuit
    BY <1>8 DEF LoopQuit, SignalInv, Pending
  <1>9. ASSUME NEW t \in Threads, ThreadStep(t) PROVE SignalInv'
    <2>1. CASE Wakeup(t)
      BY <2>1 DEF Wakeup, SignalInv
    <2>2. CASE Quit(t) \/ \E f \in Functors : QueueInLoop(t, f)
      <3>1. pc'[t] = "wakeup"
        BY <2>2 DEF Quit, QueueInLoop, TypeOK
      <3> QED
        BY <3>1 DEF SignalInv
    <2> QED
      BY <1>9, <2>1, <2>2 DEF ThreadStep
  <1>10. CASE UNCHANGED vars
    BY <1>10 DEF vars, SignalInv, Pending
  <1> QED
    BY <1>1, <1>2, <1>3, <1>4, <1>5, <1>6, <1>7, <1>8, <1>9, <1>10
       DEF Next, LoopStep, UserStep

(* Nothing is pending before the first call.                               *)
LEMMA InitIInv == Init => IInv
  <1> SUFFICES ASSUME Init PROVE IInv
    OBVIOUS
  <1>1. TypeOK
    <2>1. <<>> \in Seq(Functors)
      BY EmptySeq
    <2> QED
      BY <2>1 DEF Init, TypeOK
  <1>2. PhaseInv
    BY DEF Init, PhaseInv
  <1>3. SignalInv
    BY RangeOfEmpty DEF Init, SignalInv, Pending
  <1> QED
    BY <1>1, <1>2, <1>3 DEF IInv

(* The inductive invariant holds in every reachable state.                 *)
THEOREM Invariance == Spec => []IInv
  <1>1. IInv /\ [Next]_vars => IInv'
    BY TypePreserved, PhasePreserved, SignalPreserved DEF IInv
  <1> QED
    BY InitIInv, <1>1, PTL DEF Spec

(* EventLoop's variables keep their declared types, for any threads,       *)
(* functors and channels.                                                  *)
THEOREM TypeCorrect == Spec => []TypeOK
  BY Invariance, PTL DEF IInv

(* queueInLoop()/wakeup(): for any number of threads and functors, the     *)
(* loop never blocks in poll() on a functor that nobody will signal.       *)
THEOREM NoLostWakeupHolds == Spec => []NoLostWakeup
  <1>1. IInv => NoLostWakeup
    BY DEF IInv, SignalInv, NoLostWakeup
  <1> QED
    BY Invariance, <1>1, PTL

-----------------------------------------------------------------------------
(* What is left to do: the rest of the batch, then the pending functors.   *)
todo == functors \o M_pendingFunctors

(* push_back() of a functor appends it to what is left to do.              *)
LEMMA PushBackSubmits ==
    ASSUME TypeOK, NEW f \in Functors, PushBack(f), functors' = functors
    PROVE  todo' = Append(todo, f)
  <1>1. /\ functors \in Seq(Functors)
        /\ M_pendingFunctors \in Seq(Functors)
        /\ <<f>> \in Seq(Functors)
    BY DEF TypeOK
  <1>2. M_pendingFunctors' = M_pendingFunctors \o <<f>>
    BY <1>1, AppendIsConcat DEF PushBack
  <1>3. todo \in Seq(Functors)
    BY <1>1, ConcatProperties DEF todo
  <1>4. Append(todo, f) = todo \o <<f>>
    BY <1>3, AppendIsConcat
  <1> QED
    BY <1>1, <1>2, <1>4, ConcatAssociative DEF todo

(* Taking the head of the batch takes the head of what is left to do.      *)
LEMMA CallFunctorTakesHead ==
    ASSUME TypeOK, CallFunctor
    PROVE  todo # <<>> /\ running' = Head(todo) /\ todo' = Tail(todo)
  <1>1. /\ functors \in Seq(Functors) /\ functors # <<>>
        /\ M_pendingFunctors \in Seq(Functors)
        /\ functors' = Tail(functors) /\ running' = Head(functors)
        /\ M_pendingFunctors' = M_pendingFunctors
    BY DEF TypeOK, CallFunctor, queueVars
  <1>2. /\ Head(functors) \in Functors
        /\ Tail(functors) \in Seq(Functors)
        /\ Len(Tail(functors)) = Len(functors) - 1
        /\ \A i \in 1 .. Len(Tail(functors)) : Tail(functors)[i] = functors[i + 1]
    BY <1>1, HeadTailProperties
  <1>3. /\ todo \in Seq(Functors)
        /\ Len(todo) = Len(functors) + Len(M_pendingFunctors)
        /\ \A i \in 1 .. Len(functors) + Len(M_pendingFunctors) :
              todo[i] = IF i <= Len(functors) THEN functors[i]
                        ELSE M_pendingFunctors[i - Len(functors)]
    BY <1>1, ConcatProperties DEF todo
  <1>4. Len(functors) \in Nat \ {0} /\ Len(M_pendingFunctors) \in Nat
    BY <1>1, EmptySeq, LenProperties
  <1>5. todo # <<>>
    BY <1>3, <1>4
  <1>6. Head(todo) = Head(functors)
    BY <1>3, <1>4, <1>1
  <1>7. /\ Tail(todo) \in Seq(Functors)
        /\ Len(Tail(todo)) = Len(todo) - 1
        /\ \A i \in 1 .. Len(Tail(todo)) : Tail(todo)[i] = todo[i + 1]
    BY <1>3, <1>5, HeadTailProperties
  <1>8. /\ todo' \in Seq(Functors)
        /\ Len(todo') = Len(Tail(functors)) + Len(M_pendingFunctors)
        /\ \A i \in 1 .. Len(Tail(functors)) + Len(M_pendingFunctors) :
              todo'[i] = IF i <= Len(Tail(functors)) THEN Tail(functors)[i]
                         ELSE M_pendingFunctors[i - Len(Tail(functors))]
    BY <1>1, <1>2, ConcatProperties DEF todo
  <1>9. Len(todo') = Len(Tail(todo))
    BY <1>2, <1>3, <1>4, <1>7, <1>8
  <1>10. ASSUME NEW i \in 1 .. Len(todo') PROVE todo'[i] = Tail(todo)[i]
    BY <1>2, <1>3, <1>4, <1>7, <1>8, <1>9
  <1> QED
    BY <1>1, <1>5, <1>6, <1>7, <1>8, <1>9, <1>10, SeqEqual

(* doPendingFunctors() moves functors from the queue to the batch without  *)
(* changing what is left to do: the previous batch is exhausted.           *)
LEMMA SwapKeepsTodo ==
    ASSUME TypeOK, PhaseInv, SwapFunctors
    PROVE  todo' = todo
  <1>1. functors = <<>> /\ M_pendingFunctors \in Seq(Functors)
    BY DEF TypeOK, PhaseInv, SwapFunctors
  <1>2. functors' = M_pendingFunctors /\ M_pendingFunctors' = <<>>
    BY DEF SwapFunctors
  <1> QED
    BY <1>1, <1>2, ConcatEmptySeq DEF todo

(* Every step of EventLoop is a step of SerialExecutor or changes nothing  *)
(* that SerialExecutor sees.                                               *)
LEMMA StepSimulation ==
    ASSUME TypeOK, PhaseInv, [Next]_vars
    PROVE  [Executor!Next]_(Executor!vars)
  <1> USE DEF Executor!vars, Executor!Next, loopVars, queueVars
  <1>1. CASE \/ EnterLoop \/ TestQuit \/ PollWakeup \/ PollIO \/ PollTimeout
             \/ HandleWakeup \/ EventHandled \/ FunctorsDone \/ LoopQuit
    BY <1>1 DEF EnterLoop, TestQuit, PollWakeup, PollIO, PollTimeout, Poll,
                HandleWakeup, EventHandled, FunctorsDone, LoopQuit
  <1>2. ASSUME NEW c \in Channels, HandleEvent(c)
        PROVE  UNCHANGED Executor!vars
    BY <1>2 DEF HandleEvent
  <1>3. CASE SwapFunctors
    BY <1>3, SwapKeepsTodo DEF SwapFunctors, todo
  <1>4. CASE CallFunctor
    <2>1. Executor!Start
      BY <1>4, CallFunctorTakesHead DEF Executor!Start, CallFunctor, todo
    <2> QED
      BY <2>1
  <1>5. CASE FunctorReturns
    <2>1. Executor!Finish
      BY <1>5 DEF Executor!Finish, FunctorReturns
    <2> QED
      BY <2>1
  <1>6. ASSUME NEW f \in Functors, PushBack(f), functors' = functors,
               running' = running
        PROVE  Executor!Submit(f)
    BY <1>6, PushBackSubmits DEF Executor!Submit, PushBack, todo
  <1>7. ASSUME NEW f \in Functors, LoopQueueInLoop(f)
        PROVE  Executor!Submit(f)
    BY <1>6, <1>7 DEF LoopQueueInLoop
  <1>8. ASSUME NEW t \in Threads, ThreadStep(t)
        PROVE  [Executor!Next]_(Executor!vars)
    <2>1. CASE Quit(t) \/ Wakeup(t)
      BY <2>1 DEF Quit, Wakeup
    <2>2. ASSUME NEW f \in Functors, QueueInLoop(t, f)
          PROVE  Executor!Submit(f)
      BY <1>6, <2>2 DEF QueueInLoop
    <2> QED
      BY <1>8, <2>1, <2>2 DEF ThreadStep
  <1>9. CASE UNCHANGED vars
    BY <1>9 DEF vars
  <1> QED
    BY <1>1, <1>2, <1>3, <1>4, <1>5, <1>7, <1>8, <1>9
       DEF Next, LoopStep, UserStep

(* queueInLoop()/doPendingFunctors(): the loop implements the serial       *)
(* executor: functors run at most once, one at a time, in queue order.     *)
THEOREM Refinement == Spec => ImplementsSerialExecutor
  <1>1. Init => Executor!Init
    BY ConcatEmptySeq, EmptySeq DEF Init, Executor!Init
  <1>2. TypeOK /\ PhaseInv /\ [Next]_vars => [Executor!Next]_(Executor!vars)
    BY StepSimulation
  <1> QED
    BY Invariance, <1>1, <1>2, PTL
       DEF Spec, IInv, ImplementsSerialExecutor, Executor!Spec

(***************************************************************************)
(* EventLoopThread                                                         *)
(***************************************************************************)
(* Each step of the thread, its owner or its users is a step of EventLoop  *)
(* or leaves the loop alone.                                               *)
LEMMA StepIsLoopStep == ThreadNext => [Next]_vars
  <1>. SUFFICES ASSUME ThreadNext PROVE [Next]_vars
    OBVIOUS
  <1>1. CASE ThreadFunc
    <2>1. CASE CallLoop
      BY <2>1 DEF CallLoop, Next, UserStep
    <2>2. CASE LoopRuns
      BY <2>2 DEF LoopRuns, Next
    <2>3. CASE ConstructLoop \/ CallbackReturns \/ Publish \/ ClearLoop \/ DestructLoop
      BY <2>3 DEF ConstructLoop, CallbackReturns, Publish, ClearLoop, DestructLoop
    <2>. QED
      BY <1>1, <2>1, <2>2, <2>3 DEF ThreadFunc
  <1>2. CASE LoopWaits
    BY <1>2 DEF LoopWaits, Next
  <1>3. CASE UserQueues
    BY <1>3 DEF UserQueues, Next, UserStep
  <1>4. CASE UserQuits
    BY <1>4 DEF UserQuits, Next, UserStep
  <1>5. CASE OwnerStep
    <2>1. CASE DestructorQuits
      BY <2>1, EventLoopThreadAssumption DEF DestructorQuits, Next, ThreadStep
    <2>2. CASE CheckLoop \/ ReturnLoop \/ Join
      BY <2>2 DEF CheckLoop, ReturnLoop, Join
    <2>. QED
      BY <1>5, <2>1, <2>2 DEF OwnerStep
  <1>6. CASE StartThread \/ SpuriousWakeup \/ TestLoop
    BY <1>6 DEF StartThread, SpuriousWakeup, TestLoop
  <1>7. ASSUME NEW t \in Threads, ThreadQueues(t) \/ ThreadQuits(t) \/ ThreadWakeup(t)
        PROVE [Next]_vars
    BY <1>7 DEF ThreadQueues, ThreadQuits, ThreadWakeup, Next, ThreadStep
  <1>. QED
    BY <1>1, <1>2, <1>3, <1>4, <1>5, <1>6, <1>7 DEF ThreadNext

(* EventLoopThread runs an EventLoop: seen from the loop's variables alone *)
(* its behaviours are those of EventLoop.                                  *)
THEOREM ThreadRunsLoop == ThreadSpec => Spec
  <1>1. ThreadInit => Init
    BY DEF ThreadInit
  <1>2. [ThreadNext]_allVars => [Next]_vars
    BY StepIsLoopStep DEF allVars
  <1>. QED
    BY <1>1, <1>2, PTL DEF ThreadSpec, Spec

(* queueInLoop(): no wakeup is lost by the loop of an EventLoopThread.     *)
THEOREM ThreadNoLostWakeup == ThreadSpec => []NoLostWakeup
  BY ThreadRunsLoop, NoLostWakeupHolds, PTL

(* doPendingFunctors(): the loop of an EventLoopThread is a serial         *)
(* executor.                                                               *)
THEOREM ThreadImplementsExecutor == ThreadSpec => ImplementsSerialExecutor
  BY ThreadRunsLoop, Refinement, PTL

-----------------------------------------------------------------------------
(* The inductive invariant.  M_loop is set exactly from publication to the *)
(* return of loop(), the owner is told of a loop only after that, and the  *)
(* loop does not return unless quit() was called: by a user, or by the     *)
(* destructor once it is past its own test.                                *)
Published  == M_loop <=> tpc \in {"loop", "clear"}
OwnerKnows ==
    /\ opc = "new" => tpc = "new"
    /\ opc \in {"return", "started"} => tpc \in {"loop", "clear", "destruct", "exited"}
QuitHasCause ==
    /\ (tpc = "clear" /\ lpc = "idle") => M_quit
    /\ M_quit => userQuit \/ opc \in {"join", "gone", "crashed"}
TestedLoop == opc = "quit" => M_loop \/ userQuit

DestructorInv ==
    /\ Published /\ OwnerKnows /\ QuitHasCause /\ TestedLoop
    /\ DeadLoopWindow /\ ThreadLeavesObject

LEMMA InitDestructorInv == ThreadInit => DestructorInv
  BY DEF ThreadInit, Init, DestructorInv, Published, OwnerKnows, QuitHasCause, TestedLoop,
         DeadLoopWindow, ThreadLeavesObject

(* What the loop does by itself never sets M_quit, and leaves loop() only  *)
(* when it is set.                                                         *)
LEMMA LoopKeepsQuit ==
  ASSUME LoopStep \/ PollIO \/ PollTimeout
  PROVE  M_quit' = M_quit /\ (lpc' = "idle" => M_quit)
  <1>1. CASE TestQuit
    BY <1>1 DEF TestQuit
  <1>2. CASE PollWakeup \/ PollIO \/ PollTimeout
    BY <1>2 DEF PollWakeup, PollIO, PollTimeout, Poll
  <1>3. CASE HandleWakeup
    BY <1>3 DEF HandleWakeup
  <1>4. CASE \E ch \in Channels : HandleEvent(ch)
    BY <1>4 DEF HandleEvent
  <1>5. CASE EventHandled
    BY <1>5 DEF EventHandled
  <1>6. CASE SwapFunctors \/ CallFunctor \/ FunctorReturns \/ FunctorsDone
    BY <1>6 DEF SwapFunctors, CallFunctor, FunctorReturns, FunctorsDone
  <1>. QED
    BY <1>1, <1>2, <1>3, <1>4, <1>5, <1>6 DEF LoopStep

LEMMA StepDestructorInv == DestructorInv /\ [ThreadNext]_allVars => DestructorInv'
  <1>. SUFFICES ASSUME DestructorInv, [ThreadNext]_allVars
                PROVE  DestructorInv'
    OBVIOUS
  <1>. USE DEF DestructorInv, Published, OwnerKnows, QuitHasCause, TestedLoop,
               DeadLoopWindow, ThreadLeavesObject
  <1>1. CASE ConstructLoop \/ CallbackReturns \/ Publish \/ ClearLoop \/ DestructLoop
    BY <1>1 DEF ConstructLoop, CallbackReturns, Publish, ClearLoop, DestructLoop, vars, loopVars
  <1>2. CASE CallLoop
    BY <1>2 DEF CallLoop, EnterLoop
  <1>3. CASE LoopRuns \/ LoopWaits
    BY <1>3, LoopKeepsQuit DEF LoopRuns, LoopWaits, InLoop, threadVars
  <1>4. CASE UserQueues
    BY <1>4 DEF UserQueues, LoopQueueInLoop, threadVars, loopVars
  <1>5. CASE UserQuits
    BY <1>5 DEF UserQuits, LoopQuit, loopVars
  <1>6. CASE CheckLoop \/ ReturnLoop \/ Join
    BY <1>6 DEF CheckLoop, ReturnLoop, Join, vars, loopVars
  <1>7. CASE DestructorQuits
    BY <1>7 DEF DestructorQuits, Exists, Quit, vars, loopVars
  <1>8. CASE StartThread \/ SpuriousWakeup \/ TestLoop
    BY <1>8 DEF StartThread, SpuriousWakeup, TestLoop, vars, loopVars
  <1>9. CASE \E t \in Threads : ThreadQueues(t) \/ ThreadQuits(t) \/ ThreadWakeup(t)
    BY <1>9 DEF ThreadQueues, ThreadQuits, ThreadWakeup, QueueInLoop, Quit, Wakeup,
                threadVars, loopVars
  <1>10. CASE UNCHANGED allVars
    BY <1>10 DEF allVars, threadVars, vars, loopVars
  <1>. QED
    BY <1>1, <1>2, <1>3, <1>4, <1>5, <1>6, <1>7, <1>8, <1>9, <1>10
       DEF ThreadNext, ThreadFunc, OwnerStep

LEMMA DestructorInvHolds == ThreadSpec => []DestructorInv
  BY InitDestructorInv, StepDestructorInv, PTL DEF ThreadSpec

(* ~EventLoopThread(): the destructor calls a destructed loop only if a    *)
(* user has quit it.                                                       *)
THEOREM DeadLoopWindowHolds == ThreadSpec => []DeadLoopWindow
  BY DestructorInvHolds, PTL DEF DestructorInv

(* ~EventLoopThread(): threadFunc() touches no member of an object that is *)
(* gone.                                                                   *)
THEOREM ThreadLeavesObjectHolds == ThreadSpec => []ThreadLeavesObject
  BY DestructorInvHolds, PTL DEF DestructorInv

=============================================================================
