-------------------------- MODULE ThreadPoolProofs --------------------------
(***************************************************************************)
(* Proofs about ThreadPool, for any number of workers and callers and any  *)
(* bound of the queue.                                                     *)
(*                                                                         *)
(* WakeupsCover counts the threads that were notified and have not got the *)
(* mutex yet.  It is inductive with the types and with the fact that a     *)
(* worker that start() has not created is nowhere.  The proof follows the  *)
(* counts: a step moves one thread from label to label and notifies one    *)
(* more at most.                                                           *)
(***************************************************************************)
EXTENDS ThreadPool, FiniteSetTheorems, SequenceTheorems, TLAPS

UnstartedIdle == \A w \in Workers \ M_threads : pc[w] = "idle"

(* A thread inside run() has a task to push; a worker outside its own loop *)
(* has one to execute.                                                     *)
InRun(t) == pc[t] \in {"run", "notFull", "wokenFull"}

TasksAtHand ==
    /\ \A t \in Threads : InRun(t) => arg[t] \in Tasks
    /\ \A w \in Workers : InRun(w) \/ pc[w] = "execute" => task[w] \in Tasks

IInv == TypeOK /\ UnstartedIdle /\ TasksAtHand /\ WakeupsCover

Count(p, label) == Cardinality({t \in Threads : p[t] = label})
Somebody(p, label) == \E t \in Threads : p[t] = label

-----------------------------------------------------------------------------
USE ThreadPoolAssumption

LEMMA CountType ==
    ASSUME NEW p, NEW label
    PROVE  Count(p, label) \in Nat
<1>1. IsFiniteSet(Threads)
    BY FS_Union DEF Threads
<1>2. IsFiniteSet({t \in Threads : p[t] = label})
    BY <1>1, FS_Subset
<1>. QED  BY <1>2, FS_CardinalityType DEF Count

(* One thread goes from its label to another.                              *)
LEMMA MoveCount ==
    ASSUME NEW p \in [Threads -> Labels], NEW t \in Threads, NEW m \in Labels, NEW label,
           NEW q \in [Threads -> Labels],
           q[t] = m, \A u \in Threads : u # t => q[u] = p[u]
    PROVE  /\ m = label /\ p[t] # label => Count(q, label) = Count(p, label) + 1
           /\ m # label /\ p[t] = label => Count(q, label) = Count(p, label) - 1
           /\ (m = label <=> p[t] = label) => Count(q, label) = Count(p, label)
<1> DEFINE before == {u \in Threads : p[u] = label}
           after  == {u \in Threads : q[u] = label}
<1>1. IsFiniteSet(before) /\ IsFiniteSet(after)
    <2>1. IsFiniteSet(Threads)
        BY FS_Union DEF Threads
    <2>. QED  BY <2>1, FS_Subset
<1>2. Cardinality(before) \in Nat /\ Cardinality(after) \in Nat
    BY <1>1, FS_CardinalityType
<1>3. Count(p, label) = Cardinality(before) /\ Count(q, label) = Cardinality(after)
    BY DEF Count
<1>4. CASE m = label /\ p[t] # label
    <2>1. after = before \union {t} /\ t \notin before
        BY <1>4
    <2> HIDE DEF before, after
    <2>. QED  BY <1>1, <1>2, <1>3, <1>4, <2>1, FS_AddElement
<1>5. CASE m # label /\ p[t] = label
    <2>1. after = before \ {t} /\ t \in before
        BY <1>5
    <2> HIDE DEF before, after
    <2>. QED  BY <1>1, <1>2, <1>3, <1>5, <2>1, FS_RemoveElement
<1>6. CASE m = label <=> p[t] = label
    <2>1. after = before
        BY <1>6
    <2> HIDE DEF before, after
    <2>. QED  BY <1>2, <1>3, <1>6, <2>1
<1>. QED  BY <1>4, <1>5, <1>6

(* notify(): at most one thread moves, and if somebody is still waiting,   *)
(* one did.                                                                *)
LEMMA NotifyFacts ==
    ASSUME NEW p \in [Threads -> Labels], NEW waiting \in Labels, NEW woken \in Labels,
           waiting # woken, Notify(p, waiting, woken)
    PROVE  /\ pc' \in [Threads -> Labels]
           /\ \A t \in Threads : pc'[t] = p[t] \/ (p[t] = waiting /\ pc'[t] = woken)
           /\ \A label \in Labels \ {waiting, woken} : Count(pc', label) = Count(p, label)
           /\ Count(pc', woken) >= Count(p, woken)
           /\ Somebody(pc', waiting) => Count(pc', woken) = Count(p, woken) + 1
<1>0. \A label : Count(p, label) \in Nat
    BY CountType
<1>1. CASE {t \in Threads : p[t] = waiting} = {}
    <2>1. pc' = p
        BY <1>1 DEF Notify
    <2>2. ~Somebody(pc', waiting)
        BY <1>1, <2>1 DEF Somebody
    <2>. QED  BY <1>0, <2>1, <2>2
<1>2. CASE {t \in Threads : p[t] = waiting} # {}
    <2>1. PICK t \in Threads : p[t] = waiting /\ pc' = [p EXCEPT ![t] = woken]
        BY <1>2 DEF Notify
    <2>2. /\ pc' \in [Threads -> Labels] /\ pc'[t] = woken /\ p[t] = waiting
          /\ \A u \in Threads : u # t => pc'[u] = p[u]
        BY <2>1
    <2>3. \A u \in Threads : pc'[u] = p[u] \/ (p[u] = waiting /\ pc'[u] = woken)
        BY <2>1, <2>2
    <2>4. ASSUME NEW label \in Labels \ {waiting, woken}
          PROVE  Count(pc', label) = Count(p, label)
        BY <2>2, MoveCount
    <2>5. Count(pc', woken) = Count(p, woken) + 1
        BY <2>2, MoveCount
    <2>. QED  BY <1>0, <2>2, <2>3, <2>4, <2>5
<1>. QED  BY <1>1, <1>2

(* WakeupsCover, with the labels and the length of the queue as parameters. *)
Cover(p, n) ==
    /\ Somebody(p, "notEmpty") => Count(p, "wokenEmpty") >= n
    /\ Somebody(p, "notFull") => Count(p, "wokenFull") >= MaxQueueSize - n

LEMMA CoverIsWakeupsCover == WakeupsCover <=> Cover(pc, Len(M_queue))
BY DEF WakeupsCover, At, Cover, Somebody, Count

LEMMA CoverIsWakeupsCoverNext == WakeupsCover' <=> Cover(pc', Len(M_queue'))
BY DEF WakeupsCover, At, Cover, Somebody, Count

(* A thread that neither gives up a notification nor begins to wait.       *)
LEMMA HarmlessMove ==
    ASSUME NEW p \in [Threads -> Labels], NEW t \in Threads, NEW m \in Labels,
           NEW q \in [Threads -> Labels],
           q[t] = m, \A u \in Threads : u # t => q[u] = p[u],
           p[t] \notin {"wokenEmpty", "wokenFull"}, m \notin {"notEmpty", "notFull"},
           NEW n \in Nat, Cover(p, n)
    PROVE  Cover(q, n)
<1>1. Count(p, "wokenEmpty") \in Nat /\ Count(p, "wokenFull") \in Nat
    BY CountType
<1>2. /\ Somebody(q, "notEmpty") => Somebody(p, "notEmpty")
      /\ Somebody(q, "notFull") => Somebody(p, "notFull")
    BY DEF Somebody
<1>3. Count(q, "wokenEmpty") >= Count(p, "wokenEmpty")
    <2>1. Count(q, "wokenEmpty") \in {Count(p, "wokenEmpty"), Count(p, "wokenEmpty") + 1}
        BY MoveCount
    <2>. QED  BY <1>1, <2>1
<1>4. Count(q, "wokenFull") >= Count(p, "wokenFull")
    <2>1. Count(q, "wokenFull") \in {Count(p, "wokenFull"), Count(p, "wokenFull") + 1}
        BY MoveCount
    <2>. QED  BY <1>1, <2>1
<1>5. Count(q, "wokenEmpty") \in Nat /\ Count(q, "wokenFull") \in Nat
    BY CountType
<1>. QED  BY <1>1, <1>2, <1>3, <1>4, <1>5 DEF Cover

(* A thread leaves take() or a wait for notEmpty while the queue is empty: *)
(* nobody who waits for a task is owed one.                                *)
LEMMA MoveOnEmpty ==
    ASSUME NEW p \in [Threads -> Labels], NEW t \in Threads, NEW m \in Labels,
           NEW q \in [Threads -> Labels],
           q[t] = m, \A u \in Threads : u # t => q[u] = p[u],
           p[t] # "wokenFull", m \notin {"notFull", "wokenFull"}, Cover(p, 0)
    PROVE  Cover(q, 0)
<1>1. Count(q, "wokenEmpty") \in Nat /\ Count(p, "wokenFull") \in Nat
    BY CountType
<1>2. Somebody(q, "notFull") => Somebody(p, "notFull")
    BY DEF Somebody
<1>3. Count(q, "wokenFull") = Count(p, "wokenFull")
    BY MoveCount
<1>. QED  BY <1>1, <1>2, <1>3 DEF Cover

(* A caller waits for notFull while the queue is full: no place is free.   *)
LEMMA MoveOnFull ==
    ASSUME NEW p \in [Threads -> Labels], NEW t \in Threads, NEW m \in Labels,
           NEW q \in [Threads -> Labels],
           q[t] = m, \A u \in Threads : u # t => q[u] = p[u],
           p[t] # "wokenEmpty", m \notin {"notEmpty", "wokenEmpty"},
           NEW n \in Nat, n >= MaxQueueSize, Cover(p, n)
    PROVE  Cover(q, n)
<1>1. Count(p, "wokenEmpty") \in Nat /\ Count(q, "wokenFull") \in Nat
    BY CountType
<1>2. Somebody(q, "notEmpty") => Somebody(p, "notEmpty")
    BY DEF Somebody
<1>3. Count(q, "wokenEmpty") = Count(p, "wokenEmpty")
    BY MoveCount
<1>4. MaxQueueSize - n <= 0
    OBVIOUS
<1>. QED  BY <1>1, <1>2, <1>3, <1>4 DEF Cover

(* take() removes a task: the worker uses up one wakeup at most, and the   *)
(* place it frees wakes a caller, if one waits.                            *)
LEMMA TakeKeepsCover ==
    ASSUME NEW p \in [Threads -> Labels], NEW t \in Threads,
           NEW q \in [Threads -> Labels],
           q[t] = "execute", \A u \in Threads : u # t => q[u] = p[u],
           p[t] \in {"take", "wokenEmpty"},
           IF MaxQueueSize > 0 THEN Notify(q, "notFull", "wokenFull") ELSE pc' = q,
           NEW n \in Nat, Cover(p, n + 1)
    PROVE  /\ pc' \in [Threads -> Labels]
           /\ \A u \in Threads : pc'[u] = "idle" <=> q[u] = "idle"
           /\ Cover(pc', n)
<1>1. /\ Count(p, "wokenEmpty") \in Nat /\ Count(p, "wokenFull") \in Nat
      /\ Count(q, "wokenEmpty") \in Nat /\ Count(pc', "wokenFull") \in Nat
    BY CountType
<1>2. /\ Count(q, "wokenEmpty") >= Count(p, "wokenEmpty") - 1
      /\ Count(q, "wokenFull") = Count(p, "wokenFull")
    <2>1. Count(q, "wokenEmpty") \in {Count(p, "wokenEmpty"), Count(p, "wokenEmpty") - 1}
        BY MoveCount DEF Labels
    <2>2. Count(q, "wokenFull") = Count(p, "wokenFull")
        BY MoveCount DEF Labels
    <2>. QED  BY <1>1, <2>1, <2>2
<1>3. /\ Somebody(q, "notEmpty") => Somebody(p, "notEmpty")
      /\ Somebody(q, "notFull") => Somebody(p, "notFull")
    BY DEF Somebody
<1>4. CASE MaxQueueSize > 0
    <2>1. Notify(q, "notFull", "wokenFull")
        BY <1>4
    <2>2. "notFull" \in Labels /\ "wokenFull" \in Labels /\ "wokenEmpty" \in Labels
        BY DEF Labels
    <2>3. /\ pc' \in [Threads -> Labels]
          /\ \A u \in Threads : pc'[u] = q[u] \/ (q[u] = "notFull" /\ pc'[u] = "wokenFull")
          /\ Count(pc', "wokenEmpty") = Count(q, "wokenEmpty")
          /\ Somebody(pc', "notFull") => Count(pc', "wokenFull") = Count(q, "wokenFull") + 1
        BY <2>1, <2>2, NotifyFacts
    <2>4. /\ Somebody(pc', "notEmpty") => Somebody(q, "notEmpty")
          /\ Somebody(pc', "notFull") => Somebody(q, "notFull")
        BY <2>3 DEF Somebody
    <2>. QED  BY <1>1, <1>2, <1>3, <2>3, <2>4 DEF Cover
<1>5. CASE ~(MaxQueueSize > 0)
    <2>1. pc' = q /\ MaxQueueSize - n <= 0
        BY <1>5
    <2>. QED  BY <1>1, <1>2, <1>3, <2>1 DEF Cover
<1>. QED  BY <1>4, <1>5

(* run() adds a task: the caller uses up one wakeup at most, and the task  *)
(* wakes a worker, if one waits.                                           *)
LEMMA PushKeepsCover ==
    ASSUME NEW p \in [Threads -> Labels], NEW t \in Threads,
           NEW q \in [Threads -> Labels],
           q[t] \in {"execute", "idle"}, \A u \in Threads : u # t => q[u] = p[u],
           p[t] \in {"run", "wokenFull"},
           Notify(q, "notEmpty", "wokenEmpty"),
           NEW n \in Nat, Cover(p, n)
    PROVE  /\ pc' \in [Threads -> Labels]
           /\ \A u \in Threads : pc'[u] = "idle" <=> q[u] = "idle"
           /\ Cover(pc', n + 1)
<1>1. /\ Count(p, "wokenEmpty") \in Nat /\ Count(p, "wokenFull") \in Nat
      /\ Count(q, "wokenFull") \in Nat /\ Count(pc', "wokenEmpty") \in Nat
    BY CountType
<1>2. /\ Count(q, "wokenFull") >= Count(p, "wokenFull") - 1
      /\ Count(q, "wokenEmpty") = Count(p, "wokenEmpty")
    <2>1. Count(q, "wokenFull") \in {Count(p, "wokenFull"), Count(p, "wokenFull") - 1}
        BY MoveCount DEF Labels
    <2>2. Count(q, "wokenEmpty") = Count(p, "wokenEmpty")
        BY MoveCount DEF Labels
    <2>. QED  BY <1>1, <2>1, <2>2
<1>3. /\ Somebody(q, "notEmpty") => Somebody(p, "notEmpty")
      /\ Somebody(q, "notFull") => Somebody(p, "notFull")
    BY DEF Somebody
<1>4. "notEmpty" \in Labels /\ "wokenFull" \in Labels /\ "wokenEmpty" \in Labels
    BY DEF Labels
<1>5. /\ pc' \in [Threads -> Labels]
      /\ \A u \in Threads : pc'[u] = q[u] \/ (q[u] = "notEmpty" /\ pc'[u] = "wokenEmpty")
      /\ Count(pc', "wokenFull") = Count(q, "wokenFull")
      /\ Somebody(pc', "notEmpty") => Count(pc', "wokenEmpty") = Count(q, "wokenEmpty") + 1
    BY <1>4, NotifyFacts
<1>6. /\ Somebody(pc', "notEmpty") => Somebody(q, "notEmpty")
      /\ Somebody(pc', "notFull") => Somebody(q, "notFull")
    BY <1>5 DEF Somebody
<1>. QED  BY <1>1, <1>2, <1>3, <1>5, <1>6 DEF Cover

-----------------------------------------------------------------------------
LEMMA InitIInv == Init => IInv
<1> SUFFICES ASSUME Init PROVE IInv
    OBVIOUS
<1>1. <<>> \in Seq(Tasks) /\ Len(<<>>) = 0
    BY EmptySeq
<1>2. TypeOK
    <2>1. M_queue \in Seq(Tasks) /\ (MaxQueueSize > 0 => Len(M_queue) <= MaxQueueSize)
        BY <1>1 DEF Init
    <2>2. pc \in [Threads -> Labels]
        BY DEF Init, Labels
    <2>. QED  BY <2>1, <2>2 DEF Init, TypeOK
<1>3. UnstartedIdle /\ TasksAtHand
    BY DEF Init, UnstartedIdle, TasksAtHand, InRun, Threads
<1>4. ~Somebody(pc, "notEmpty") /\ ~Somebody(pc, "notFull")
    BY DEF Init, Somebody
<1>. QED  BY <1>2, <1>3, <1>4, CoverIsWakeupsCover DEF IInv, Cover

(* take() removes the first task.                                          *)
LEMMA TakesPreserves ==
    ASSUME IInv, NEW w \in Workers, Takes(w)
    PROVE  IInv'
<1> DEFINE q == [pc EXCEPT ![w] = "execute"]
           n == Len(M_queue) - 1
<1>1. /\ Head(M_queue) \in Tasks /\ Tail(M_queue) \in Seq(Tasks)
      /\ n \in Nat /\ Len(Tail(M_queue)) = n /\ n + 1 = Len(M_queue)
    BY HeadTailProperties, LenProperties, EmptySeq DEF Takes, IInv, TypeOK
<1>2. /\ w \in Threads /\ pc \in [Threads -> Labels] /\ q \in [Threads -> Labels]
      /\ q[w] = "execute" /\ (\A u \in Threads : u # w => q[u] = pc[u])
      /\ pc[w] \in {"take", "wokenEmpty"}
    BY DEF Takes, IInv, TypeOK, Threads, Labels
<1>3. IF MaxQueueSize > 0 THEN Notify(q, "notFull", "wokenFull") ELSE pc' = q
    BY DEF Takes, TakeNotifies
<1>4. Cover(pc, n + 1)
    BY <1>1, CoverIsWakeupsCover DEF IInv
<1>5. \A u \in Threads : pc'[u] = q[u] \/ (q[u] = "notFull" /\ pc'[u] = "wokenFull")
    <2>1. CASE MaxQueueSize > 0
        <3>1. Notify(q, "notFull", "wokenFull") /\ "notFull" \in Labels /\ "wokenFull" \in Labels
            BY <1>3, <2>1 DEF Labels
        <3> HIDE DEF q
        <3>. QED  BY <1>2, <3>1, NotifyFacts
    <2>2. CASE ~(MaxQueueSize > 0)
        BY <1>3, <2>2
    <2>. QED  BY <2>1, <2>2
<1> HIDE DEF q, n
<1>6. /\ pc' \in [Threads -> Labels]
      /\ \A u \in Threads : pc'[u] = "idle" <=> q[u] = "idle"
      /\ Cover(pc', n)
    BY <1>1, <1>2, <1>3, <1>4, TakeKeepsCover
<1>7. /\ M_queue' = Tail(M_queue) /\ task' = [task EXCEPT ![w] = Head(M_queue)]
      /\ UNCHANGED <<M_running, M_threads, owner, arg, fresh, executed>>
    BY DEF Takes
<1>8. WakeupsCover'
    BY <1>1, <1>6, <1>7, CoverIsWakeupsCoverNext
<1>9. TypeOK'
    BY <1>1, <1>6, <1>7 DEF IInv, TypeOK, n
<1>10. UnstartedIdle'
    BY <1>2, <1>6, <1>7 DEF IInv, UnstartedIdle, Threads
<1>11. TasksAtHand'
    <2>1. ASSUME NEW t \in Threads, InRun(t)' PROVE arg'[t] \in Tasks
        BY <1>2, <1>5, <1>7, <2>1 DEF IInv, TasksAtHand, InRun
    <2>2. ASSUME NEW v \in Workers, InRun(v)' \/ pc'[v] = "execute" PROVE task'[v] \in Tasks
        <3>1. CASE v = w
            BY <1>1, <1>7, <3>1 DEF IInv, TypeOK
        <3>2. CASE v # w
            BY <1>2, <1>5, <1>7, <2>2, <3>2 DEF IInv, TypeOK, TasksAtHand, InRun, Threads
        <3>. QED  BY <3>1, <3>2
    <2>. QED  BY <2>1, <2>2 DEF TasksAtHand, InRun
<1>. QED  BY <1>8, <1>9, <1>10, <1>11 DEF IInv

(* run() adds the caller's task.                                           *)
LEMMA PushesPreserves ==
    ASSUME IInv, NEW t \in Threads, Pushes(t)
    PROVE  IInv'
<1> DEFINE q == [pc EXCEPT ![t] = IF t \in Workers THEN "execute" ELSE "idle"]
           n == Len(M_queue)
<1>1. arg[t] \in Tasks /\ n \in Nat
    BY LenProperties DEF Pushes, IInv, TypeOK, TasksAtHand, InRun
<1>2. /\ M_queue' = Append(M_queue, arg[t]) /\ arg' = [arg EXCEPT ![t] = NoTask]
      /\ ~isFull
      /\ UNCHANGED <<M_running, M_threads, owner, task, fresh, executed>>
    BY DEF Pushes
<1>3. M_queue' \in Seq(Tasks) /\ Len(M_queue') = n + 1
    BY <1>1, <1>2, AppendProperties DEF IInv, TypeOK
<1>4. /\ pc \in [Threads -> Labels] /\ q \in [Threads -> Labels]
      /\ q[t] \in {"execute", "idle"} /\ (t \in Workers => q[t] = "execute")
      /\ \A u \in Threads : u # t => q[u] = pc[u]
      /\ pc[t] \in {"run", "wokenFull"}
    BY DEF Pushes, IInv, TypeOK, Labels
<1>5. Notify(q, "notEmpty", "wokenEmpty")
    BY DEF Pushes, NotifyNotEmpty
<1>6. Cover(pc, n)
    BY CoverIsWakeupsCover DEF IInv
<1>7. "notEmpty" \in Labels /\ "wokenEmpty" \in Labels
    BY DEF Labels
<1> HIDE DEF q, n
<1>8. /\ pc' \in [Threads -> Labels]
      /\ \A u \in Threads : pc'[u] = "idle" <=> q[u] = "idle"
      /\ Cover(pc', n + 1)
    BY <1>1, <1>4, <1>5, <1>6, PushKeepsCover
<1>9. \A u \in Threads : pc'[u] = q[u] \/ (q[u] = "notEmpty" /\ pc'[u] = "wokenEmpty")
    BY <1>4, <1>5, <1>7, NotifyFacts
<1>10. WakeupsCover'
    BY <1>3, <1>8, CoverIsWakeupsCoverNext
<1>11. TypeOK'
    <2>1. MaxQueueSize > 0 => Len(M_queue') <= MaxQueueSize
        BY <1>1, <1>2, <1>3 DEF isFull, n
    <2>. QED  BY <1>2, <1>3, <1>8, <2>1 DEF IInv, TypeOK
<1>12. UnstartedIdle'
    BY <1>2, <1>4, <1>8 DEF IInv, UnstartedIdle, Threads
<1>13. TasksAtHand'
    <2>1. ASSUME NEW u \in Threads, InRun(u)' PROVE arg'[u] \in Tasks
        <3>1. u # t /\ InRun(u)
            BY <1>4, <1>9, <2>1 DEF InRun
        <3>. QED  BY <1>2, <3>1 DEF IInv, TypeOK, TasksAtHand
    <2>2. ASSUME NEW v \in Workers, InRun(v)' \/ pc'[v] = "execute" PROVE task'[v] \in Tasks
        BY <1>2, <1>4, <1>9, <2>2 DEF IInv, TasksAtHand, InRun, Threads
    <2>. QED  BY <2>1, <2>2 DEF TasksAtHand, InRun
<1>. QED  BY <1>10, <1>11, <1>12, <1>13 DEF IInv

(* A step of one thread that leaves the queue alone.                       *)
LEMMA MovePreservesCover ==
    ASSUME IInv, NEW t \in Threads, NEW m \in Labels, pc' = [pc EXCEPT ![t] = m],
           M_queue' = M_queue,
           \/ pc[t] \notin {"wokenEmpty", "wokenFull"} /\ m \notin {"notEmpty", "notFull"}
           \/ M_queue = <<>> /\ pc[t] # "wokenFull" /\ m \notin {"notFull", "wokenFull"}
           \/ isFull /\ pc[t] # "wokenEmpty" /\ m \notin {"notEmpty", "wokenEmpty"}
    PROVE  WakeupsCover' /\ pc' \in [Threads -> Labels]
<1>1. Len(M_queue) \in Nat /\ Cover(pc, Len(M_queue))
    BY LenProperties, CoverIsWakeupsCover DEF IInv, TypeOK
<1>2. /\ pc \in [Threads -> Labels] /\ pc' \in [Threads -> Labels]
      /\ pc'[t] = m /\ \A u \in Threads : u # t => pc'[u] = pc[u]
    BY DEF IInv, TypeOK
<1>3. ASSUME NEW q, q = pc' PROVE Cover(q, Len(M_queue))
    <2>1. /\ pc \in [Threads -> Labels] /\ q \in [Threads -> Labels]
          /\ q[t] = m /\ \A u \in Threads : u # t => q[u] = pc[u]
        BY <1>2, <1>3
    <2>2. CASE pc[t] \notin {"wokenEmpty", "wokenFull"} /\ m \notin {"notEmpty", "notFull"}
        BY ONLY <1>1, <2>1, <2>2, HarmlessMove, t \in Threads, m \in Labels
    <2>3. CASE M_queue = <<>> /\ pc[t] # "wokenFull" /\ m \notin {"notFull", "wokenFull"}
        <3>1. Len(M_queue) = 0
            BY <2>3
        <3>. QED  BY ONLY <1>1, <2>1, <2>3, <3>1, MoveOnEmpty, t \in Threads, m \in Labels
    <2>4. CASE isFull /\ pc[t] # "wokenEmpty" /\ m \notin {"notEmpty", "wokenEmpty"}
        <3>1. Len(M_queue) >= MaxQueueSize
            BY <2>4 DEF isFull
        <3>. QED  BY ONLY <1>1, <2>1, <2>4, <3>1, MoveOnFull, t \in Threads, m \in Labels
    <2>. QED  BY <2>2, <2>3, <2>4
<1>4. Cover(pc', Len(M_queue'))
    BY <1>3
<1>. QED  BY <1>2, <1>4, CoverIsWakeupsCoverNext

(* runInThread() and the wait of take().                                   *)
LEMMA WorkerPreserves ==
    ASSUME IInv, NEW w \in Workers,
           RunInThreadLoops(w) \/ TakeWaits(w) \/ TakesNothing(w) \/ Executes(w)
    PROVE  IInv'
<1>1. w \in Threads
    BY DEF Threads
<1>2. PICK m \in Labels :
         /\ pc' = [pc EXCEPT ![w] = m] /\ M_queue' = M_queue
         /\ m \in {"take", "exited", "notEmpty", "while"}
         /\ \/ pc[w] \in {"while", "execute"} /\ m # "notEmpty"
            \/ pc[w] \in {"take", "wokenEmpty"} /\ M_queue = <<>>
    <2>1. CASE RunInThreadLoops(w)
        BY <2>1 DEF RunInThreadLoops, Labels
    <2>2. CASE TakeWaits(w)
        BY <2>2 DEF TakeWaits, TakeMustWait, Labels
    <2>3. CASE TakesNothing(w)
        BY <2>3 DEF TakesNothing, Labels
    <2>4. CASE Executes(w)
        BY <2>4 DEF Executes, Labels
    <2>. QED  BY <2>1, <2>2, <2>3, <2>4
<1>3. WakeupsCover' /\ pc' \in [Threads -> Labels]
    BY <1>1, <1>2, MovePreservesCover
<1>4. /\ task' \in [Workers -> Tasks \union {NoTask}]
      /\ executed' \subseteq Tasks
      /\ \A v \in Workers : v # w => task'[v] = task[v]
      /\ UNCHANGED <<M_running, M_threads, M_queue, owner, arg, fresh>>
    BY DEF RunInThreadLoops, TakeWaits, TakesNothing, Executes, IInv, TypeOK, TasksAtHand, InRun
<1>5. TypeOK'
    BY <1>3, <1>4 DEF IInv, TypeOK
<1>6. UnstartedIdle'
    BY <1>1, <1>2, <1>4 DEF IInv, TypeOK, UnstartedIdle, Threads
<1>7. TasksAtHand'
    BY <1>1, <1>2, <1>4 DEF IInv, TypeOK, TasksAtHand, InRun, Threads
<1>. QED  BY <1>3, <1>5, <1>6, <1>7 DEF IInv

(* run(), up to its wait, and spurious wakeups.                            *)
LEMMA CallerPreserves ==
    ASSUME IInv, NEW t \in Threads,
           \/ \E x \in Tasks : t \in Producers /\ Run(t, x)
           \/ \E x \in Tasks : t \in Workers /\ RunFromTask(t, x)
           \/ RunWaits(t)
           \/ SpuriousWakeup(t)
    PROVE  IInv'
<1>1. PICK m \in Labels :
         /\ pc' = [pc EXCEPT ![t] = m] /\ M_queue' = M_queue
         /\ \/ m = "run" /\ pc[t] \in {"idle", "execute"} /\ (t \in Workers => pc[t] = "execute")
            \/ m = "notFull" /\ pc[t] \in {"run", "wokenFull"} /\ isFull
            \/ m = "wokenEmpty" /\ pc[t] = "notEmpty"
            \/ m = "wokenFull" /\ pc[t] = "notFull"
    <2>1. CASE \E x \in Tasks : t \in Producers /\ Run(t, x)
        BY <2>1 DEF Run, Labels
    <2>2. CASE \E x \in Tasks : t \in Workers /\ RunFromTask(t, x)
        BY <2>2 DEF RunFromTask, Labels
    <2>3. CASE RunWaits(t)
        BY <2>3 DEF RunWaits, Labels
    <2>4. CASE SpuriousWakeup(t)
        BY <2>4 DEF SpuriousWakeup, Labels
    <2>. QED  BY <2>1, <2>2, <2>3, <2>4
<1>2. WakeupsCover' /\ pc' \in [Threads -> Labels]
    BY <1>1, MovePreservesCover
<1>3. /\ arg' \in [Threads -> Tasks \union {NoTask}]
      /\ fresh' \subseteq Tasks
      /\ \A u \in Threads : u # t => arg'[u] = arg[u]
      /\ pc'[t] = "run" => arg'[t] \in Tasks
      /\ pc'[t] # "run" => arg'[t] = arg[t]
      /\ UNCHANGED <<M_running, M_threads, M_queue, owner, task, executed>>
    BY DEF Run, RunFromTask, RunWaits, SpuriousWakeup, IInv, TypeOK
<1>4. TypeOK'
    BY <1>2, <1>3 DEF IInv, TypeOK
<1>5. UnstartedIdle'
    BY <1>1, <1>3 DEF IInv, TypeOK, UnstartedIdle, Threads
<1>6. TasksAtHand'
    BY <1>1, <1>3 DEF IInv, TypeOK, TasksAtHand, InRun, Threads
<1>. QED  BY <1>2, <1>4, <1>5, <1>6 DEF IInv

(* start(), stop() and a call of run() without threads.                    *)
LEMMA OwnerPreserves ==
    ASSUME IInv, OwnerStep \/ Stop \/ \E p \in Producers, x \in Tasks : RunHere(p, x)
    PROVE  IInv'
<1>1. ASSUME UNCHANGED <<M_threads, M_queue, pc, task, arg>>,
             M_running' \in BOOLEAN, fresh' \subseteq Tasks, executed' \subseteq Tasks,
             owner' \in {"new", "starting", "started", "joining", "stopped"}
      PROVE  IInv'
    BY <1>1 DEF IInv, TypeOK, UnstartedIdle, TasksAtHand, InRun, WakeupsCover, At
<1>2. CASE Start
    BY <1>1, <1>2 DEF Start, IInv, TypeOK
<1>3. ASSUME NEW w \in Workers, StartThread(w) PROVE IInv'
    <2>1. /\ w \in Threads /\ "while" \in Labels /\ pc[w] = "idle"
          /\ pc' = [pc EXCEPT ![w] = "while"] /\ M_queue' = M_queue
        BY <1>3 DEF StartThread, IInv, UnstartedIdle, Threads, Labels
    <2>2. WakeupsCover' /\ pc' \in [Threads -> Labels]
        BY <2>1, MovePreservesCover
    <2>3. TypeOK'
        BY <1>3, <2>2 DEF StartThread, IInv, TypeOK
    <2>4. UnstartedIdle' /\ TasksAtHand'
        BY <1>3, <2>1 DEF StartThread, IInv, TypeOK, UnstartedIdle, TasksAtHand, InRun, Threads
    <2>. QED  BY <2>2, <2>3, <2>4 DEF IInv
<1>4. CASE Joined
    BY <1>1, <1>4 DEF Joined, IInv, TypeOK
<1>5. CASE Stop
    <2>1. /\ pc' = [t \in Threads |-> IF pc[t] = "notEmpty" THEN "wokenEmpty" ELSE pc[t]]
          /\ UNCHANGED <<M_threads, M_queue, task, arg, fresh, executed>>
        BY <1>5 DEF Stop, NotifyAll
    <2>2. ~Somebody(pc', "notEmpty")
        BY <2>1 DEF Somebody
    <2>3. Somebody(pc', "notFull") => Somebody(pc, "notFull")
        BY <2>1 DEF Somebody
    <2>4. Count(pc', "wokenFull") = Count(pc, "wokenFull")
        <3>1. {t \in Threads : pc'[t] = "wokenFull"} = {t \in Threads : pc[t] = "wokenFull"}
            BY <2>1
        <3>. QED  BY <3>1 DEF Count
    <2>5. Cover(pc, Len(M_queue))
        BY CoverIsWakeupsCover DEF IInv
    <2>6. Cover(pc', Len(M_queue'))
        BY <2>1, <2>2, <2>3, <2>4, <2>5 DEF Cover
    <2>7. WakeupsCover'
        BY <2>6, CoverIsWakeupsCoverNext
    <2>8. pc' \in [Threads -> Labels]
        BY <2>1 DEF IInv, TypeOK, Labels
    <2>9. TypeOK'
        BY <1>5, <2>1, <2>8 DEF Stop, IInv, TypeOK
    <2>10. UnstartedIdle' /\ TasksAtHand'
        BY <2>1 DEF IInv, TypeOK, UnstartedIdle, TasksAtHand, InRun, Threads
    <2>. QED  BY <2>7, <2>9, <2>10 DEF IInv
<1>6. ASSUME NEW p \in Producers, NEW x \in Tasks, RunHere(p, x) PROVE IInv'
    BY <1>1, <1>6 DEF RunHere, IInv, TypeOK
<1>. QED  BY <1>2, <1>3, <1>4, <1>5, <1>6 DEF OwnerStep

LEMMA StepIInv == IInv /\ [Next]_vars => IInv'
<1> SUFFICES ASSUME IInv, [Next]_vars PROVE IInv'
    OBVIOUS
<1>1. CASE OwnerStep \/ Stop
    BY <1>1, OwnerPreserves
<1>2. ASSUME NEW w \in Workers, WorkerStep(w) PROVE IInv'
    BY <1>2, WorkerPreserves, TakesPreserves DEF WorkerStep
<1>3. ASSUME NEW t \in Threads, RunStep(t) \/ SpuriousWakeup(t) PROVE IInv'
    BY <1>3, CallerPreserves, PushesPreserves DEF RunStep
<1>4. CASE CallerStep
    <2>1. ASSUME NEW p \in Producers, NEW x \in Tasks, RunHere(p, x) PROVE IInv'
        BY <2>1, OwnerPreserves
    <2>2. ASSUME NEW p \in Producers, NEW x \in Tasks, Run(p, x) PROVE IInv'
        BY <2>2, CallerPreserves DEF Threads
    <2>3. ASSUME NEW w \in Workers, NEW x \in Tasks, RunFromTask(w, x) PROVE IInv'
        BY <2>3, CallerPreserves DEF Threads
    <2>. QED  BY <1>4, <2>1, <2>2, <2>3 DEF CallerStep
<1>5. CASE UNCHANGED vars
    BY <1>5 DEF vars, IInv, TypeOK, UnstartedIdle, TasksAtHand, InRun, WakeupsCover, At
<1>. QED  BY <1>1, <1>2, <1>3, <1>4, <1>5 DEF Next

(* ThreadPool: the invariant holds in every reachable state.               *)
THEOREM Invariance == Spec => []IInv
BY InitIInv, StepIInv, PTL DEF Spec

(* run()/take(): one notify() for each push and each pop leaves no queued  *)
(* task and no free place without a woken thread while others wait, for    *)
(* any number of workers and callers and any bound of the queue.           *)
THEOREM WakeupsCoverHolds == Spec => []WakeupsCover
<1>1. IInv => WakeupsCover
    BY DEF IInv
<1>. QED  BY Invariance, <1>1, PTL
=============================================================================
