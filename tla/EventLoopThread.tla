--------------------------- MODULE EventLoopThread ---------------------------
(***************************************************************************)
(* EventLoopThread (EventLoopThread.cpp) and the Thread (Thread.cpp) under *)
(* it, composed with the EventLoop that threadFunc() keeps on its stack.   *)
(*                                                                         *)
(* The owner, one of the Threads of EventLoop, constructs the object,      *)
(* calls startLoop() and destructs it.  The loop exists while threadFunc() *)
(* runs: it is constructed, given to the user's callback, published in     *)
(* M_loop under M_mutex, run, and destructed.  User code in the loop       *)
(* thread calls the loop directly, and may quit() it; so may the other     *)
(* threads, with the loop that startLoop() returned, as long as it exists  *)
(* and the owner has not begun to destruct the object.                     *)
(***************************************************************************)
EXTENDS EventLoop

CONSTANT Owner

ASSUME EventLoopThreadAssumption == Owner \in Threads

VARIABLES
    M_loop,        \* TRUE iff it points to the loop of threadFunc()
    tpc,           \* where threadFunc() is
    opc,           \* where the owner is
    returned,      \* what startLoop() returned: "none", "NULL" or "loop"
    userQuit,      \* history: user code called quit()
    lostQuit,      \* history: loop() was entered with M_quit set, and reset it
    touched        \* history: calls on a loop that no longer exists

threadVars == <<M_loop, tpc, opc, returned, userQuit, lostQuit, touched>>
allVars    == <<vars, threadVars>>

(* The EventLoop object exists.                                            *)
Exists == tpc \in {"callback", "publish", "loop", "clear", "destruct"}

ThreadTypeOK ==
    /\ TypeOK
    /\ M_loop \in BOOLEAN
    /\ tpc \in {"new", "started", "exited"} \/ Exists
    /\ opc \in {"new", "check", "wait", "return", "started", "quit", "join", "gone",
                "crashed"}
    /\ returned \in {"none", "NULL", "loop"}
    /\ userQuit \in BOOLEAN /\ lostQuit \in BOOLEAN
    /\ touched \subseteq {"quit", "wakeup"}

ThreadInit ==
    /\ Init
    /\ M_loop = FALSE
    /\ tpc = "new"
    /\ opc = "new"
    /\ returned = "none"
    /\ userQuit = FALSE /\ lostQuit = FALSE
    /\ touched = {}

-----------------------------------------------------------------------------
(* The new thread: startThread(), runInThread() and threadFunc().          *)

ConstructLoop ==
    /\ tpc = "started"
    /\ tpc' = "callback"
    /\ UNCHANGED <<vars, M_loop, opc, returned, userQuit, lostQuit, touched>>

CallbackReturns ==
    /\ tpc = "callback"
    /\ tpc' = "publish"
    /\ UNCHANGED <<vars, M_loop, opc, returned, userQuit, lostQuit, touched>>

(* Fault: M_loop = &loop without M_cond.notify().                          *)
PublishSilently ==
    /\ tpc = "publish"
    /\ M_loop' = TRUE
    /\ tpc' = "loop"
    /\ UNCHANGED <<vars, opc, returned, userQuit, lostQuit, touched>>

(* M_loop = &loop; M_cond.notify(), in one critical section.               *)
Publish ==
    /\ tpc = "publish"
    /\ M_loop' = TRUE
    /\ opc' = IF opc = "wait" THEN "check" ELSE opc
    /\ tpc' = "loop"
    /\ UNCHANGED <<vars, returned, userQuit, lostQuit, touched>>

CallLoop ==
    /\ tpc = "loop" /\ ~M_looping
    /\ EnterLoop
    /\ lostQuit' = (lostQuit \/ M_quit)
    /\ tpc' = "clear"
    /\ UNCHANGED <<M_loop, opc, returned, userQuit, touched>>

InLoop == tpc = "clear" /\ lpc # "idle"

(* loop() has returned: M_loop = NULL, without M_mutex.                    *)
ClearLoop ==
    /\ tpc = "clear" /\ lpc = "idle"
    /\ M_loop' = FALSE
    /\ tpc' = "destruct"
    /\ UNCHANGED <<vars, opc, returned, userQuit, lostQuit, touched>>

DestructLoop ==
    /\ tpc = "destruct"
    /\ tpc' = "exited"
    /\ UNCHANGED <<vars, M_loop, opc, returned, userQuit, lostQuit, touched>>

(* loop() runs, and user code in it and in M_callback.                     *)
LoopRuns  == InLoop /\ LoopStep /\ UNCHANGED threadVars
LoopWaits == InLoop /\ (PollIO \/ PollTimeout) /\ UNCHANGED threadVars

UserQueues ==
    /\ InLoop \/ tpc = "callback"
    /\ \E f \in Functors : LoopQueueInLoop(f)
    /\ UNCHANGED threadVars

UserQuits ==
    /\ InLoop \/ tpc = "callback"
    /\ LoopQuit
    /\ userQuit' = TRUE
    /\ UNCHANGED <<M_loop, tpc, opc, returned, lostQuit, touched>>

-----------------------------------------------------------------------------
(* The owner: startLoop(), then the destructor.                            *)

StartThread ==
    /\ opc = "new"
    /\ opc' = "check"
    /\ tpc' = "started"
    /\ UNCHANGED <<vars, M_loop, returned, userQuit, lostQuit, touched>>

(* while(loop == NULL) M_cond.wait(), in the critical section.             *)
CheckLoop ==
    /\ opc = "check"
    /\ opc' = IF M_loop THEN "return" ELSE "wait"
    /\ UNCHANGED <<vars, M_loop, tpc, returned, userQuit, lostQuit, touched>>

(* pthread_cond_wait(3) may return without a notification.                 *)
SpuriousWakeup ==
    /\ opc = "wait"
    /\ opc' = "check"
    /\ UNCHANGED <<vars, M_loop, tpc, returned, userQuit, lostQuit, touched>>

(* return M_loop, after the critical section.                              *)
ReturnLoop ==
    /\ opc = "return"
    /\ returned' = IF M_loop THEN "loop" ELSE "NULL"
    /\ opc' = "started"
    /\ UNCHANGED <<vars, M_loop, tpc, userQuit, lostQuit, touched>>

(* Fault: the destructor does not test M_loop.                             *)
TestNothing ==
    /\ opc \in {"new", "started"}
    /\ pc[Owner] = "run"
    /\ opc' = "quit"
    /\ UNCHANGED <<vars, M_loop, tpc, returned, userQuit, lostQuit, touched>>

(* ~EventLoopThread(), if(M_loop != NULL).  Without a join(), ~Thread()    *)
(* detaches the thread.                                                    *)
TestLoop ==
    /\ opc \in {"new", "started"}
    /\ pc[Owner] = "run"
    /\ opc' = IF M_loop THEN "quit" ELSE "gone"
    /\ UNCHANGED <<vars, M_loop, tpc, returned, userQuit, lostQuit, touched>>

(* Fault: the destructor does not quit() the loop.                         *)
DestructorQuitsNothing ==
    /\ opc = "quit"
    /\ opc' = "join"
    /\ UNCHANGED <<vars, M_loop, tpc, returned, userQuit, lostQuit, touched>>

(* M_loop->quit(), up to its wakeup().  M_loop is read again: when it is   *)
(* NULL by now, or what was read has been destructed, the program crashes  *)
(* or the call is without effect.                                          *)
DestructorQuits ==
    /\ opc = "quit"
    /\ \/ /\ Exists /\ M_loop
          /\ Quit(Owner)
          /\ opc' = "join"
          /\ UNCHANGED touched
       \/ /\ ~(Exists /\ M_loop)
          /\ touched' = touched \union {"quit"}
          /\ opc' \in {"join", "crashed"}
          /\ UNCHANGED vars
    /\ UNCHANGED <<M_loop, tpc, returned, userQuit, lostQuit>>

(* Fault: the destructor does not join() the thread.                       *)
JoinAtOnce ==
    /\ opc = "join" /\ pc[Owner] = "run"
    /\ opc' = "gone"
    /\ UNCHANGED <<vars, M_loop, tpc, returned, userQuit, lostQuit, touched>>

Join ==
    /\ opc = "join" /\ pc[Owner] = "run"
    /\ tpc = "exited"
    /\ opc' = "gone"
    /\ UNCHANGED <<vars, M_loop, tpc, returned, userQuit, lostQuit, touched>>

-----------------------------------------------------------------------------
(* Threads with the loop that startLoop() returned.                        *)
MayUse == opc = "started" /\ returned = "loop" /\ Exists

ThreadQueues(t) ==
    /\ MayUse
    /\ \E f \in Functors : QueueInLoop(t, f)
    /\ UNCHANGED threadVars

ThreadQuits(t) ==
    /\ MayUse
    /\ Quit(t)
    /\ userQuit' = TRUE
    /\ UNCHANGED <<M_loop, tpc, opc, returned, lostQuit, touched>>

(* The wakeup() of a quit() or queueInLoop(): the loop may be gone.        *)
ThreadWakeup(t) ==
    /\ opc # "crashed"
    /\ Wakeup(t)
    /\ touched' = IF Exists THEN touched ELSE touched \union {"wakeup"}
    /\ UNCHANGED <<M_loop, tpc, opc, returned, userQuit, lostQuit>>

-----------------------------------------------------------------------------
ThreadFunc ==
    \/ ConstructLoop \/ CallbackReturns \/ Publish
    \/ CallLoop \/ LoopRuns
    \/ ClearLoop \/ DestructLoop

OwnerStep ==
    \/ CheckLoop \/ ReturnLoop
    \/ DestructorQuits \/ Join

ThreadNext ==
    \/ ThreadFunc
    \/ LoopWaits
    \/ UserQueues \/ UserQuits
    \/ OwnerStep
    \/ StartThread \/ SpuriousWakeup \/ TestLoop
    \/ \E t \in Threads : ThreadQueues(t) \/ ThreadQuits(t) \/ ThreadWakeup(t)

ThreadSpec == ThreadInit /\ [][ThreadNext]_allVars

(* Both threads are scheduled, and so are those that owe a wakeup().       *)
(* Neither spurious wakeups nor I/O nor the poll timeout are counted on.   *)
ThreadFairSpec ==
    /\ ThreadSpec
    /\ WF_allVars(ThreadFunc)
    /\ WF_allVars(OwnerStep)
    /\ \A t \in Threads : WF_allVars(ThreadWakeup(t))

-----------------------------------------------------------------------------
(* startLoop(): however the new thread races with it, it returns, and it   *)
(* returns the loop, unless user code quits the loop: M_loop may then be   *)
(* NULL again before the owner looks, and nobody notifies it.              *)
StartLoopReturns ==
    opc = "check" ~> (opc = "started" /\ returned = "loop") \/ userQuit

(* ~EventLoopThread(): it returns, even if poll() would block forever,     *)
(* unless a quit() came before the thread's entry to loop(), which forgets *)
(* it: the destructor's own after startLoop(), or that of user code, in    *)
(* the init callback too.                                                  *)
DestructorReturns == opc \in {"quit", "join"} ~> (opc \in {"gone", "crashed"} \/ lostQuit)

(* ~EventLoopThread(): a loop that ends on its own may be gone when the    *)
(* destructor calls it ("still a tiny chance to call destructed object");  *)
(* otherwise only the wakeup() of a call made while it existed may come    *)
(* too late.                                                               *)
DeadLoopWindow == "quit" \in touched => userQuit

(* ~EventLoopThread(): when the object is gone, threadFunc() does not      *)
(* touch its members any more, joined or not.                              *)
ThreadLeavesObject ==
    opc = "gone" => tpc \in {"new", "destruct", "exited"}

=============================================================================
