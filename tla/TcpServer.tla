------------------------------ MODULE TcpServer ------------------------------
(***************************************************************************)
(* TcpServer (TcpServer.cpp) with its Acceptor (Acceptor.cpp) and its      *)
(* EventLoopThreadPool (EventLoopThreadPool.cpp): connections are accepted *)
(* in the base loop, dealt out to the I/O loops, closed there, removed     *)
(* from M_connections in the base loop and destroyed in their own loop.    *)
(* The server is destructed in the base loop's thread while the I/O loops  *)
(* run.                                                                    *)
(*                                                                         *)
(* A loop alternates between events and functors (EventLoop): a functor    *)
(* queued after the swap waits for the next iteration, and a quit() is     *)
(* seen when the batch is done.  A functor that an ended loop has not run  *)
(* is destructed with it, and so is its reference to the connection.  Of a *)
(* TcpConnection only what concerns its owner is kept: its state, its loop *)
(* and the references to it; TcpConnection.tla has the rest.               *)
(***************************************************************************)
EXTENDS Integers, Sequences, FiniteSets

CONSTANTS NumThreads,   \* setThreadNum()
          MaxConns,     \* bound: peers that connect
          MaxFds        \* descriptors left for connections (EMFILE beyond)

ASSUME TcpServerAssumption ==
    NumThreads \in Nat /\ MaxConns \in Nat \ {0} /\ MaxFds \in Nat \ {0}

Base      == 0
IoLoops   == 1 .. NumThreads
Loops     == IoLoops \union {Base}
Undefined == NumThreads + 1              \* no loop at all
Conns     == 1 .. MaxConns
NoConn    == 0

VARIABLES
    server,          \* "alive"; ~TcpServer(): "connections", "pool", "acceptor"; "gone"
    joining,         \* ~EventLoopThreadPool(): the thread being ended, or 0
    M_listenning,
    M_idleFd,        \* Acceptor: open or not
    M_next,          \* EventLoopThreadPool, of M_loops[0 ..]
    M_nextConnId,
    M_connections,
    conn,            \* TcpConnection: its state and its loop
    queue,           \* EventLoop: pending functors, of each loop
    phase, batch,    \* EventLoop: where loop() is; functors left in this batch
    quit,            \* EventLoop: M_quit
    closing,         \* of each loop: the connection in handleClose(), before
                     \* its M_closeCallback
    peers,           \* peers that wait to be accepted
    connected,       \* history: peers that ever connected
    late,            \* history: connections closed when their server was being
                     \* destructed, or whose removal was still queued then
    dropped,         \* history: connections with a functor that never ran
    touched,         \* history: connections that called a server that is gone
    aborted          \* the assertion or the undefined value that ends the program

serverVars == <<server, joining, M_nextConnId, M_connections>>
acceptVars == <<M_listenning, M_idleFd, M_next, peers, connected>>
loopVars   == <<queue, phase, batch, quit>>
history    == <<late, dropped, touched>>
vars       == <<serverVars, acceptVars, conn, loopVars, closing, history, aborted>>

Functors == [f : {"connectEstablished", "connectDestroyed", "removeConnectionInLoop"},
             c : Conns]

TypeOK ==
    /\ server \in {"alive", "connections", "pool", "acceptor", "gone"}
    /\ joining \in 0 .. NumThreads
    /\ M_listenning \in BOOLEAN /\ M_idleFd \in BOOLEAN
    /\ M_next \in Nat /\ (NumThreads > 0 => M_next < NumThreads)
    /\ M_nextConnId \in 1 .. MaxConns + 1
    /\ M_connections \subseteq 1 .. M_nextConnId - 1
    /\ conn \in [Conns -> [state : {"none", "kConnecting", "kConnected", "kDisconnected"},
                           loop : Loops \union {Undefined}]]
    /\ queue \in [Loops -> Seq(Functors)]
    /\ phase \in [Loops -> {"none", "events", "functors", "ended"}]
    /\ batch \in [Loops -> Nat]
    /\ quit \in [Loops -> BOOLEAN]
    /\ closing \in [Loops -> Conns \union {NoConn}]
    /\ peers \in 0 .. connected /\ connected \in 0 .. MaxConns
    /\ late \subseteq Conns /\ dropped \subseteq Conns /\ touched \subseteq Conns
    /\ aborted \in {"no", "connectEstablished", "removeConnectionInLoop", "getNextLoop",
                    "gone"}

Init ==
    /\ server = "alive" /\ joining = 0
    /\ M_listenning = FALSE
    /\ M_idleFd = TRUE
    /\ M_next = 0
    /\ M_nextConnId = 1
    /\ M_connections = {}
    /\ conn = [c \in Conns |-> [state |-> "none", loop |-> Base]]
    /\ queue = [l \in Loops |-> <<>>]
    /\ phase = [l \in Loops |-> IF l = Base THEN "events" ELSE "none"]
    /\ batch = [l \in Loops |-> 0]
    /\ quit = [l \in Loops |-> FALSE]
    /\ closing = [l \in Loops |-> NoConn]
    /\ peers = 0 /\ connected = 0
    /\ late = {} /\ dropped = {} /\ touched = {}
    /\ aborted = "no"

-----------------------------------------------------------------------------
(* References to a connection: the map, functors, and the guard of         *)
(* handleClose().  Without one it is destructed, and its descriptor closed.*)

Queued(l, c)  == \E i \in DOMAIN queue[l] : queue[l][i].c = c
Removal(c)    == [f |-> "removeConnectionInLoop", c |-> c]
Created       == 1 .. M_nextConnId - 1
Referenced(c) ==
    \/ c \in M_connections
    \/ \E l \in Loops : Queued(l, c) \/ closing[l] = c

FdsInUse == Cardinality({c \in Created : Referenced(c)})

-----------------------------------------------------------------------------
(* loop() of every loop.  The thread of a loop is free for its next step   *)
(* unless it is in handleClose() or, in the base loop, in ~TcpServer().    *)

Free(l) ==
    /\ closing[l] = NoConn
    /\ l = Base => server \in {"alive", "gone"}

Swap(l) ==
    /\ Free(l)
    /\ phase[l] = "events"
    /\ phase' = [phase EXCEPT ![l] = "functors"]
    /\ batch' = [batch EXCEPT ![l] = Len(queue[l])]
    /\ UNCHANGED <<serverVars, acceptVars, conn, queue, quit, closing, history, aborted>>

(* while(!M_quit); an ended loop is destructed with its functors.          *)
TestQuit(l) ==
    /\ Free(l)
    /\ phase[l] = "functors" /\ batch[l] = 0
    /\ IF quit[l]
       THEN /\ phase' = [phase EXCEPT ![l] = "ended"]
            /\ dropped' = dropped \union {c \in Conns : Queued(l, c)}
            /\ queue' = [queue EXCEPT ![l] = <<>>]
       ELSE /\ phase' = [phase EXCEPT ![l] = "events"]
            /\ UNCHANGED <<dropped, queue>>
    /\ UNCHANGED <<serverVars, acceptVars, conn, batch, quit, closing, late, touched,
                   aborted>>

(* The next functor of the batch of l is f, for connection c.              *)
Runs(l, f, c) ==
    /\ Free(l)
    /\ batch[l] > 0
    /\ Head(queue[l]) = [f |-> f, c |-> c]
    /\ batch' = [batch EXCEPT ![l] = @ - 1]

-----------------------------------------------------------------------------
(* TcpConnection, as its owner sees it.                                    *)

ConnectEstablished(l, c) ==
    /\ Runs(l, "connectEstablished", c)
    /\ queue' = [queue EXCEPT ![l] = Tail(@)]
    /\ IF conn[c].state = "kConnecting"
       THEN conn' = [conn EXCEPT ![c].state = "kConnected"] /\ UNCHANGED aborted
       ELSE aborted' = "connectEstablished" /\ UNCHANGED conn
    /\ UNCHANGED <<serverVars, acceptVars, phase, quit, closing, history>>

ConnectDestroyed(l, c) ==
    /\ Runs(l, "connectDestroyed", c)
    /\ queue' = [queue EXCEPT ![l] = Tail(@)]
    /\ conn' = [conn EXCEPT ![c].state = "kDisconnected"]
    /\ UNCHANGED <<serverVars, acceptVars, phase, quit, closing, history, aborted>>

(* Fault: handleClose() without setState(kDisconnected).                   *)
HandleCloseStaysConnected(l, c) ==
    /\ Free(l)
    /\ phase[l] \in {"events", "functors"}
    /\ conn[c].loop = l /\ conn[c].state = "kConnected"
    /\ closing' = [closing EXCEPT ![l] = c]
    /\ UNCHANGED <<serverVars, acceptVars, conn, loopVars, history, aborted>>

(* handleClose() up to the user's connection callback: at end of file or   *)
(* POLLHUP in the dispatch, in forceCloseInLoop() among the functors.      *)
HandleClose(l, c) ==
    /\ Free(l)
    /\ phase[l] \in {"events", "functors"}
    /\ conn[c].loop = l /\ conn[c].state = "kConnected"
    /\ conn' = [conn EXCEPT ![c].state = "kDisconnected"]
    /\ closing' = [closing EXCEPT ![l] = c]
    /\ UNCHANGED <<serverVars, acceptVars, loopVars, history, aborted>>

-----------------------------------------------------------------------------
(* TcpServer::removeConnection(), which M_closeCallback calls in the       *)
(* connection's loop, and removeConnectionInLoop().                        *)

RemoveConnection(l) ==
    /\ closing[l] # NoConn
    /\ closing' = [closing EXCEPT ![l] = NoConn]
    /\ IF server = "gone"
       THEN touched' = touched \union {closing[l]} /\ UNCHANGED <<queue, late>>
       ELSE /\ queue' = [queue EXCEPT ![Base] = Append(@, Removal(closing[l]))]
            /\ late' = IF server = "alive" THEN late ELSE late \union {closing[l]}
            /\ UNCHANGED touched
    /\ UNCHANGED <<serverVars, acceptVars, conn, phase, batch, quit, dropped, aborted>>

(* Fault: the connection stays in the map.                                 *)
RemoveConnectionInLoopKeeps(c) ==
    /\ Runs(Base, "removeConnectionInLoop", c)
    /\ queue' = [queue EXCEPT ![Base] = Tail(@),
                              ![conn[c].loop] =
                                  Append(@, [f |-> "connectDestroyed", c |-> c])]
    /\ UNCHANGED <<serverVars, acceptVars, conn, phase, quit, closing, history, aborted>>

(* On a server that is gone, the call reads freed memory: the program ends *)
(* there, or goes on.                                                      *)
RemoveConnectionInLoop(c) ==
    /\ Runs(Base, "removeConnectionInLoop", c)
    /\ IF server = "gone" \/ c \notin M_connections
       THEN /\ queue' = [queue EXCEPT ![Base] = Tail(@)]
            /\ IF server = "gone"
               THEN touched' = touched \union {c} /\ aborted' \in {"no", "gone"}
               ELSE aborted' = "removeConnectionInLoop" /\ UNCHANGED touched
            /\ UNCHANGED M_connections
       ELSE /\ M_connections' = M_connections \ {c}
            /\ queue' = [queue EXCEPT ![Base] = Tail(@),
                                      ![conn[c].loop] =
                                          Append(@, [f |-> "connectDestroyed", c |-> c])]
            /\ UNCHANGED <<touched, aborted>>
    /\ UNCHANGED <<server, joining, M_nextConnId, acceptVars, conn, phase, quit,
                   closing, late, dropped>>

-----------------------------------------------------------------------------
(* start(), in the base loop's thread: the pool's loops are running when   *)
(* it returns (EventLoopThread.tla), and the acceptor listens.             *)
Start ==
    /\ Free(Base)
    /\ server = "alive" /\ ~M_listenning
    /\ phase' = [l \in Loops |-> IF l = Base THEN phase[l] ELSE "events"]
    /\ M_listenning' = TRUE
    /\ UNCHANGED <<serverVars, M_idleFd, M_next, peers, connected, conn, queue, batch,
                   quit, closing, history, aborted>>

PeerConnects ==
    /\ M_listenning /\ connected < MaxConns
    /\ connected' = connected + 1
    /\ peers' = peers + 1
    /\ UNCHANGED <<serverVars, M_listenning, M_idleFd, M_next, conn, loopVars, closing,
                   history, aborted>>

(* getNextLoop(): M_loops[M_next], and the new M_next.  Without I/O loops  *)
(* the function ends without a return: its value is undefined.  It may     *)
(* happen to be M_baseLoop; the model does not go on from there.           *)
GetNextLoop == IF NumThreads > 0 THEN {M_next + 1} ELSE {Base, Undefined}
AdvanceNext == IF M_next + 1 >= NumThreads THEN 0 ELSE M_next + 1

(* Fault: an edge-triggered poller, which reports the first peer only.     *)
ReadableOnce ==
    /\ Free(Base)
    /\ server = "alive" /\ phase[Base] = "events"
    /\ peers = 1

(* The pollers are level-triggered: the listening socket is reported while *)
(* a peer waits.                                                           *)
Readable ==
    /\ Free(Base)
    /\ server = "alive" /\ phase[Base] = "events"
    /\ peers > 0

(* Acceptor::handleRead(), when accept(2) succeeds, with newConnection().  *)
NewConnection(c) ==
    /\ Readable
    /\ FdsInUse < MaxFds
    /\ c = M_nextConnId
    /\ peers' = peers - 1
    /\ M_nextConnId' = M_nextConnId + 1
    /\ M_next' = AdvanceNext
    /\ M_connections' = M_connections \union {c}
    /\ \E l \in GetNextLoop :
          /\ conn' = [conn EXCEPT ![c] = [state |-> "kConnecting", loop |-> l]]
          /\ queue' = IF l \in IoLoops
                      THEN [queue EXCEPT ![l] =
                               Append(@, [f |-> "connectEstablished", c |-> c])]
                      ELSE queue
    /\ aborted' = IF NumThreads = 0 THEN "getNextLoop" ELSE aborted
    /\ UNCHANGED <<server, joining, M_listenning, M_idleFd, connected, phase, batch,
                   quit, closing, history>>

(* sockets::accept(): setNonBlockAndCloseOnExec(-1) comes before errno is  *)
(* saved, and fcntl(2) sets it to EBADF.                                   *)
ErrnoAfterAccept(errno) == "EBADF"

(* Acceptor::handleRead(), when no descriptor is left: the connection is   *)
(* accepted in place of M_idleFd and closed, if errno is still EMFILE.     *)
AcceptFails ==
    /\ Readable
    /\ FdsInUse >= MaxFds
    /\ peers' = IF ErrnoAfterAccept("EMFILE") = "EMFILE" /\ M_idleFd THEN peers - 1
                                                                    ELSE peers
    /\ UNCHANGED <<serverVars, M_listenning, M_idleFd, M_next, connected, conn, loopVars,
                   closing, history, aborted>>

-----------------------------------------------------------------------------
(* ~TcpServer(), in user code of the base loop: the connections, then the  *)
(* members, among them M_threadPool and last M_acceptor.                   *)

Destruct ==
    /\ Free(Base)
    /\ server = "alive"
    /\ server' = "connections"
    /\ late' = late \union {c \in Conns : Queued(Base, c) \/ \E l \in Loops : closing[l] = c}
    /\ UNCHANGED <<joining, M_nextConnId, M_connections, acceptVars, conn, loopVars,
                   closing, dropped, touched, aborted>>

(* Fault: the destructor leaves the connections to their shared_ptr.       *)
DestroyConnectionForgotten(c) ==
    /\ server = "connections"
    /\ c \in M_connections
    /\ M_connections' = M_connections \ {c}
    /\ UNCHANGED <<server, joining, M_nextConnId, acceptVars, conn, loopVars, closing,
                   history, aborted>>

DestroyConnection(c) ==
    /\ server = "connections"
    /\ c \in M_connections
    /\ M_connections' = M_connections \ {c}
    /\ queue' = [queue EXCEPT ![conn[c].loop] =
                    Append(@, [f |-> "connectDestroyed", c |-> c])]
    /\ UNCHANGED <<server, joining, M_nextConnId, acceptVars, conn, phase, batch, quit,
                   closing, history, aborted>>

(* Each EventLoopThread of the pool in turn: quit() and join().            *)
QuitLoop ==
    /\ \/ server = "connections" /\ M_connections = {}
       \/ server = "pool" /\ phase[joining] \in {"none", "ended"}
    /\ joining < NumThreads
    /\ server' = "pool"
    /\ joining' = joining + 1
    /\ quit' = [quit EXCEPT ![joining + 1] = TRUE]
    /\ UNCHANGED <<M_nextConnId, M_connections, acceptVars, conn, queue, phase, batch,
                   closing, history, aborted>>

(* Fault: the last thread is not joined.                                   *)
DestructAcceptorAtOnce ==
    /\ server = "pool" /\ joining = NumThreads
    /\ server' = "gone"
    /\ M_listenning' = FALSE
    /\ M_idleFd' = FALSE
    /\ UNCHANGED <<joining, M_nextConnId, M_connections, M_next, peers, connected, conn,
                   loopVars, closing, history, aborted>>

DestructAcceptor ==
    /\ \/ server = "pool" /\ joining = NumThreads /\ phase[joining] \in {"none", "ended"}
       \/ server = "connections" /\ M_connections = {} /\ NumThreads = 0
    /\ server' = "gone"
    /\ M_listenning' = FALSE
    /\ M_idleFd' = FALSE
    /\ UNCHANGED <<joining, M_nextConnId, M_connections, M_next, peers, connected, conn,
                   loopVars, closing, history, aborted>>

-----------------------------------------------------------------------------
LoopStep(l) ==
    \/ Swap(l)
    \/ TestQuit(l)
    \/ \E c \in Conns : ConnectEstablished(l, c) \/ ConnectDestroyed(l, c)
    \/ RemoveConnection(l)
    \/ \E c \in Conns : l = Base /\ RemoveConnectionInLoop(c)

DestructorStep ==
    \/ \E c \in Conns : DestroyConnection(c)
    \/ QuitLoop
    \/ DestructAcceptor

Next ==
    /\ aborted = "no"
    /\ \/ \E l \in Loops : LoopStep(l) \/ \E c \in Conns : HandleClose(l, c)
       \/ Start \/ PeerConnects \/ AcceptFails
       \/ \E c \in Conns : NewConnection(c)
       \/ Destruct \/ DestructorStep

Spec == Init /\ [][Next]_vars

(* Every loop goes on; a readable listening socket is reported again and   *)
(* again; the destructor, once begun, goes on.  Peers need not do anything.*)
FairSpec ==
    /\ Spec
    /\ \A l \in Loops : WF_vars(aborted = "no" /\ LoopStep(l))
    /\ SF_vars(aborted = "no" /\ (AcceptFails \/ \E c \in Conns : NewConnection(c)))
    /\ WF_vars(aborted = "no" /\ DestructorStep)

-----------------------------------------------------------------------------
(* ~TcpConnection(): assert(M_state == kDisconnected).  Whoever drops the  *)
(* last reference, a connection is not destructed before connectDestroyed()*)
(* or handleClose() has run, unless its loop, quit by ~TcpServer() just    *)
(* after its last swap, threw the functor away.                            *)
DestructedDisconnected ==
    \A c \in Created \ dropped : conn[c].state = "kDisconnected" \/ Referenced(c)

(* connectEstablished() and removeConnectionInLoop(): their assertions     *)
(* hold.  Each connection is established once, before anything else        *)
(* happens to it, and erased from the map once.                            *)
ServerAssertionsHold == aborted \in {"no", "gone"}

(* ~TcpServer(): the loops are joined before the server is gone, so that   *)
(* no connection calls it from its own loop; what was queued in the base   *)
(* loop by then still has its address.                                     *)
DeadServerWindow == touched \subseteq late

(* handleClose()/removeConnection()/removeConnectionInLoop(): a connection *)
(* that goes down gives its descriptor back, also when the server is       *)
(* destructed meanwhile, unless that ends the program.                     *)
ClosedIsDestructed ==
    \A c \in Conns :
        conn[c].state = "kDisconnected" ~> (~Referenced(c) \/ aborted = "gone")

(* handleRead(): it accepts one peer for each report ("FIXME loop until no *)
(* more"); still, as long as descriptors come free again and again, every  *)
(* peer that waits is accepted, or the server is destructed.               *)
PeersAreAccepted ==
    []<>(FdsInUse < MaxFds) => \A n \in 1 .. MaxConns :
        (peers >= n /\ M_listenning) ~> (peers < n \/ server # "alive")

-----------------------------------------------------------------------------
(* What a comment of the code says and the code does not keep (README,     *)
(* section 4.3).                                                           *)

(* setThreadNum(): "0 means all I/O in loop's thread".                     *)
ZeroThreadsUseBaseLoop ==
    NumThreads = 0 => \A c \in Created : conn[c].loop = Base

(* Acceptor::handleRead(): "The special problem of accept()ing when you    *)
(* can't" (Acceptor.cpp:63).  A peer that waits when no descriptor is left *)
(* is taken with the idle one, unless a descriptor comes free first.       *)
IdleFdTakesPeers ==
    (M_listenning /\ peers > 0 /\ FdsInUse >= MaxFds) ~>
        (peers = 0 \/ FdsInUse < MaxFds \/ server # "alive")

=============================================================================
