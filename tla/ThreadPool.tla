----------------------------- MODULE ThreadPool -----------------------------
(***************************************************************************)
(* ThreadPool (ThreadPool.cpp): a bounded queue of tasks between the       *)
(* threads that call run() and the pool's workers, on one mutex and two    *)
(* condition variables, and the owner that starts and stops the pool.      *)
(*                                                                         *)
(* A critical section is one step; Condition::wait() ends one and begins   *)
(* the next.  A thread in wait() has pc "notEmpty" or "notFull", one that  *)
(* was notified, or woke up spuriously, "wokenEmpty" or "wokenFull" until  *)
(* it has the mutex again.                                                 *)
(***************************************************************************)
EXTENDS Integers, Sequences, FiniteSets

CONSTANTS Workers,          \* the numThreads threads of start()
          Producers,        \* threads that call run()
          Tasks,            \* tasks, each passed to run() once at most
          NoTask,           \* an empty Task
          MaxQueueSize      \* setMaxQueueSize(): 0 is unbounded

ASSUME ThreadPoolAssumption ==
    /\ MaxQueueSize \in Nat
    /\ NoTask \notin Tasks
    /\ IsFiniteSet(Workers) /\ IsFiniteSet(Producers)
    /\ Workers \intersect Producers = {}

VARIABLES
    M_running,
    M_threads,      \* workers that start() has created
    M_queue,
    owner,          \* where the owner is
    pc,             \* where each worker and producer is
    task,           \* per worker: the Task it executes
    arg,            \* per thread: the Task it passes to run()
    fresh,          \* tasks not yet passed to run()
    executed        \* history: tasks that have returned

vars == <<M_running, M_threads, M_queue, owner, pc, task, arg, fresh, executed>>

Threads == Workers \union Producers
(* Where a thread is in runInThread(), take() and run().                   *)
Labels  == {"idle", "while", "take", "notEmpty", "wokenEmpty", "execute", "run",
            "notFull", "wokenFull", "exited"}

TypeOK ==
    /\ M_running \in BOOLEAN
    /\ M_threads \subseteq Workers
    /\ M_queue \in Seq(Tasks)
    /\ MaxQueueSize > 0 => Len(M_queue) <= MaxQueueSize
    /\ owner \in {"new", "starting", "started", "joining", "stopped"}
    /\ pc \in [Threads -> Labels]
    /\ task \in [Workers -> Tasks \union {NoTask}]
    /\ arg \in [Threads -> Tasks \union {NoTask}]
    /\ fresh \subseteq Tasks
    /\ executed \subseteq Tasks

Init ==
    /\ M_running = FALSE
    /\ M_threads = {}
    /\ M_queue = <<>>
    /\ owner = "new"
    /\ pc = [t \in Threads |-> "idle"]
    /\ task = [w \in Workers |-> NoTask]
    /\ arg = [t \in Threads |-> NoTask]
    /\ fresh = Tasks
    /\ executed = {}

At(label) == {t \in Threads : pc[t] = label}

(* Condition::notify() wakes one of the threads in wait(), if there is one. *)
Notify(p, waiting, woken) ==
    IF {t \in Threads : p[t] = waiting} = {}
    THEN pc' = p
    ELSE \E t \in Threads : p[t] = waiting /\ pc' = [p EXCEPT ![t] = woken]

NotifyAll(waiting, woken) ==
    pc' = [t \in Threads |-> IF pc[t] = waiting THEN woken ELSE pc[t]]

NotifyNothing(p) == pc' = p   \* fault: run() does not notify

NotifyNotEmpty(p) == Notify(p, "notEmpty", "wokenEmpty")

isFull == MaxQueueSize > 0 /\ Len(M_queue) >= MaxQueueSize

-----------------------------------------------------------------------------
(* The owner: start(), stop() and the joins.                               *)

Start ==
    /\ owner = "new"
    /\ owner' = IF Workers = {} THEN "started" ELSE "starting"
    /\ M_running' = TRUE
    /\ UNCHANGED <<M_threads, M_queue, pc, task, arg, fresh, executed>>

StartThread(w) ==
    /\ owner = "starting"
    /\ w \notin M_threads
    /\ M_threads' = M_threads \union {w}
    /\ pc' = [pc EXCEPT ![w] = "while"]
    /\ owner' = IF M_threads' = Workers THEN "started" ELSE owner
    /\ UNCHANGED <<M_running, M_queue, task, arg, fresh, executed>>

Stop ==
    /\ owner = "started"
    /\ owner' = "joining"
    /\ M_running' = FALSE
    /\ NotifyAll("notEmpty", "wokenEmpty")
    /\ UNCHANGED <<M_threads, M_queue, task, arg, fresh, executed>>

Joined ==
    /\ owner = "joining"
    /\ \A w \in M_threads : pc[w] = "exited"
    /\ owner' = "stopped"
    /\ UNCHANGED <<M_running, M_threads, M_queue, pc, task, arg, fresh, executed>>

-----------------------------------------------------------------------------
(* runInThread() and take().                                               *)

RunInThreadLoops(w) ==
    /\ pc[w] = "while"
    /\ pc' = [pc EXCEPT ![w] = IF M_running THEN "take" ELSE "exited"]
    /\ UNCHANGED <<M_running, M_threads, M_queue, owner, task, arg, fresh, executed>>

(* Fault: the queue alone is looked at.                                    *)
TakeMustWaitAlways == M_queue = <<>>

TakeMustWait == M_queue = <<>> /\ M_running

(* Fault: notFull is notified only when the queue was full.                *)
TakeNotifiesWhenFull == isFull

TakeNotifies == MaxQueueSize > 0

TakeWaits(w) ==
    /\ pc[w] \in {"take", "wokenEmpty"}
    /\ TakeMustWait
    /\ pc' = [pc EXCEPT ![w] = "notEmpty"]
    /\ UNCHANGED <<M_running, M_threads, M_queue, owner, task, arg, fresh, executed>>

Takes(w) ==
    /\ pc[w] \in {"take", "wokenEmpty"}
    /\ M_queue # <<>>
    /\ task' = [task EXCEPT ![w] = Head(M_queue)]
    /\ M_queue' = Tail(M_queue)
    /\ LET p == [pc EXCEPT ![w] = "execute"] IN
       IF TakeNotifies THEN Notify(p, "notFull", "wokenFull") ELSE pc' = p
    /\ UNCHANGED <<M_running, M_threads, owner, arg, fresh, executed>>

(* The pool was stopped: take() returns an empty Task.                     *)
TakesNothing(w) ==
    /\ pc[w] \in {"take", "wokenEmpty"}
    /\ M_queue = <<>> /\ ~TakeMustWait
    /\ pc' = [pc EXCEPT ![w] = "while"]
    /\ UNCHANGED <<M_running, M_threads, M_queue, owner, task, arg, fresh, executed>>

Executes(w) ==
    /\ pc[w] = "execute"
    /\ executed' = executed \union {task[w]}
    /\ task' = [task EXCEPT ![w] = NoTask]
    /\ pc' = [pc EXCEPT ![w] = "while"]
    /\ UNCHANGED <<M_running, M_threads, M_queue, owner, arg, fresh>>

-----------------------------------------------------------------------------
(* run().  M_threads is read without the mutex, so that nobody may call    *)
(* run() while start() fills it.                                           *)

(* No thread: the task is executed in the caller.                          *)
RunHere(p, x) ==
    /\ pc[p] = "idle"
    /\ owner # "starting" /\ M_threads = {}
    /\ x \in fresh
    /\ fresh' = fresh \ {x}
    /\ executed' = executed \union {x}
    /\ UNCHANGED <<M_running, M_threads, M_queue, owner, pc, task, arg>>

Run(p, x) ==
    /\ pc[p] = "idle"
    /\ owner # "starting" /\ M_threads # {}
    /\ x \in fresh
    /\ fresh' = fresh \ {x}
    /\ arg' = [arg EXCEPT ![p] = x]
    /\ pc' = [pc EXCEPT ![p] = "run"]
    /\ UNCHANGED <<M_running, M_threads, M_queue, owner, task, executed>>

(* A task that calls run(): it goes on executing when the task is pushed.  *)
RunFromTask(w, x) ==
    /\ pc[w] = "execute"
    /\ owner # "starting"
    /\ x \in fresh
    /\ fresh' = fresh \ {x}
    /\ arg' = [arg EXCEPT ![w] = x]
    /\ pc' = [pc EXCEPT ![w] = "run"]
    /\ UNCHANGED <<M_running, M_threads, M_queue, owner, task, executed>>

RunWaits(t) ==
    /\ pc[t] \in {"run", "wokenFull"}
    /\ isFull
    /\ pc' = [pc EXCEPT ![t] = "notFull"]
    /\ UNCHANGED <<M_running, M_threads, M_queue, owner, task, arg, fresh, executed>>

Pushes(t) ==
    /\ pc[t] \in {"run", "wokenFull"}
    /\ ~isFull
    /\ M_queue' = Append(M_queue, arg[t])
    /\ NotifyNotEmpty([pc EXCEPT ![t] = IF t \in Workers THEN "execute" ELSE "idle"])
    /\ arg' = [arg EXCEPT ![t] = NoTask]
    /\ UNCHANGED <<M_running, M_threads, owner, task, fresh, executed>>

-----------------------------------------------------------------------------
(* wait() may return although nobody has notified.                         *)
SpuriousWakeup(t) ==
    /\ pc[t] \in {"notEmpty", "notFull"}
    /\ pc' = [pc EXCEPT ![t] = IF pc[t] = "notEmpty" THEN "wokenEmpty" ELSE "wokenFull"]
    /\ UNCHANGED <<M_running, M_threads, M_queue, owner, task, arg, fresh, executed>>

WorkerStep(w) ==
    \/ RunInThreadLoops(w)
    \/ TakeWaits(w)
    \/ Takes(w)
    \/ TakesNothing(w)
    \/ Executes(w)

RunStep(t) == RunWaits(t) \/ Pushes(t)

OwnerStep ==
    \/ Start
    \/ \E w \in Workers : StartThread(w)
    \/ Joined

CallerStep ==
    \/ \E p \in Producers, x \in Tasks : RunHere(p, x) \/ Run(p, x)
    \/ \E w \in Workers, x \in Tasks : RunFromTask(w, x)

Next ==
    \/ OwnerStep
    \/ Stop
    \/ \E w \in Workers : WorkerStep(w)
    \/ \E t \in Threads : RunStep(t) \/ SpuriousWakeup(t)
    \/ CallerStep

Spec == Init /\ [][Next]_vars

(* Every thread that can run does; tasks return.  Nobody has to call       *)
(* stop() or run(), and no spurious wakeup is relied upon.                 *)
FairSpec ==
    /\ Spec
    /\ WF_vars(OwnerStep)
    /\ \A w \in Workers : WF_vars(WorkerStep(w))
    /\ \A t \in Threads : WF_vars(RunStep(t))

-----------------------------------------------------------------------------
(* run()/take(): while workers wait for notEmpty, each queued task has a   *)
(* worker that was woken for it; while callers wait for notFull, each free *)
(* place has a caller that was woken for it.  One notify() for each push   *)
(* and pop is enough, whatever overtakes the threads it wakes.             *)
WakeupsCover ==
    /\ At("notEmpty") # {} => Cardinality(At("wokenEmpty")) >= Len(M_queue)
    /\ At("notFull") # {} =>
          Cardinality(At("wokenFull")) >= MaxQueueSize - Len(M_queue)

(* Every worker left is in a task that waits for a place in the queue of   *)
(* its own pool: only they could make one.                                 *)
AllWorkersInRun ==
    /\ \A w \in M_threads : pc[w] \in {"notFull", "exited"}
    /\ \E w \in M_threads : pc[w] = "notFull"

(* run(): a task that was queued is executed, unless stop() is called or   *)
(* every worker is stuck in run() itself: nothing else stalls the pool.    *)
QueuedTasksRun ==
    \A x \in Tasks :
        (\E i \in DOMAIN M_queue : M_queue[i] = x)
            ~> (x \in executed \/ ~M_running \/ AllWorkersInRun)

(* stop(): joins every worker and returns, whatever is queued or running,  *)
(* unless the workers left are stuck in run() themselves.                  *)
StopReturns == (owner = "joining") ~> (owner = "stopped" \/ AllWorkersInRun)

(* run(): "Could block if maxQueueSize > 0", but not for good: a caller    *)
(* that waits for notFull goes on, unless stop() is called or every worker *)
(* is stuck in run() as well.                                              *)
CallersUnblock ==
    \A t \in Threads :
        (pc[t] = "notFull") ~> (pc[t] # "notFull" \/ ~M_running \/ AllWorkersInRun)

=============================================================================
