------------------------------ MODULE TcpClient ------------------------------
(***************************************************************************)
(* TcpClient (TcpClient.cpp), composed with its Connector: the connection  *)
(* that the connector hands over is established, lost, removed and, with   *)
(* M_retry, replaced by a new one, while other threads call connect() and  *)
(* stop(); the client is destructed in the loop thread, with or without a  *)
(* connection.                                                             *)
(*                                                                         *)
(* Of a TcpConnection only what concerns its owner is kept: its state, its *)
(* close callback and the references to it.  They are M_connection, the    *)
(* users' pointers, functors, and the guard of handleClose().  Connector   *)
(* and client bind raw pointers to themselves: a functor of a connector    *)
(* that is gone ends the program.                                          *)
(***************************************************************************)
EXTENDS Connector

CONSTANT MaxConns          \* bound: connections made

ASSUME TcpClientAssumption == MaxConns \in Nat \ {0}

Conns  == 1 .. MaxConns
NoConn == 0

VARIABLES
    client,           \* "alive" or "gone"
    M_retry,
    clientConnect,    \* TcpClient::M_connect
    M_connection,
    M_nextConnId,
    conn,             \* TcpConnection: its state and its M_closeCallback
    held,             \* connections that users have a pointer to
    closing,          \* the connection in handleClose(), before M_closeCallback
    restarting,       \* removeConnection(): between its test and restart()
    calling,          \* per thread: in connect() or stop(), before the connector's
    keeper,           \* the timer of ~TcpClient() that holds M_connector
    (* History: *)
    raced,            \* restart() undid the connector's stop()
    shared,           \* when the client went, a functor that does not close the
                      \* connection had the only other pointer to it
    letGo,            \* users dropped a pointer to the open connection, and the
                      \* client was gone
    abandoned,        \* ~TcpClient() dropped the connector and left functors of it
    slow,             \* the keeper did, a second was too short
    touched           \* something called the client when it was gone

connVars   == <<M_connection, M_nextConnId, conn, held, closing>>
clientVars == <<client, M_retry, clientConnect, restarting, calling, keeper>>
history    == <<raced, shared, letGo, abandoned, slow, touched>>
vars       == <<connectorVars, connVars, clientVars, history>>

Open(i) == conn[i].state \in {"kConnected", "kDisconnecting"}

TypeOK ==
    /\ ConnectorTypeOK
    /\ c.queue \in Seq([f : ConnectorFunctors, of : {0}]
                    \union [f : {"forceCloseInLoop", "connectDestroyed", "writeComplete"},
                            of : Conns])
    /\ aborted \in {"no", "startInLoop", "connecting", "handleWrite", "removeConnection",
                    "freed", "~Connector", "~TcpConnection"}
    /\ client \in {"alive", "gone"}
    /\ M_retry \in BOOLEAN /\ clientConnect \in BOOLEAN
    /\ M_nextConnId \in 1 .. MaxConns + 1
    /\ M_connection \in 0 .. M_nextConnId - 1
    /\ conn \in [Conns -> [state : {"none", "kConnected", "kDisconnecting", "kDisconnected"},
                           callback : {"removeConnection", "detail"}]]
    /\ held \subseteq Conns
    /\ closing \in Conns \union {NoConn}
    /\ restarting \in BOOLEAN /\ keeper \in {"none", "set", "due"}
    /\ calling \in [Threads -> {"none", "connect", "stop"}]
    /\ raced \in BOOLEAN /\ abandoned \in BOOLEAN /\ slow \in BOOLEAN
    /\ touched \in BOOLEAN /\ shared \subseteq Conns /\ letGo \subseteq Conns

Init ==
    /\ ConnectorInit
    /\ client = "alive"
    /\ M_retry \in BOOLEAN          \* enableRetry() was called, or not
    /\ clientConnect = TRUE
    /\ M_connection = NoConn
    /\ M_nextConnId = 1
    /\ conn = [i \in Conns |-> [state |-> "none", callback |-> "removeConnection"]]
    /\ held = {}
    /\ closing = NoConn
    /\ restarting = FALSE /\ keeper = "none"
    /\ calling = [t \in Threads |-> "none"]
    /\ raced = FALSE /\ abandoned = FALSE /\ slow = FALSE /\ touched = FALSE
    /\ shared = {} /\ letGo = {}

-----------------------------------------------------------------------------
OfConn(f, i) == [f |-> f, of |-> i]
Push(f)      == c' = [c EXCEPT !.queue = Append(@, f)]

InQueue(f, i) == \E k \in DOMAIN c.queue : c.queue[k] = OfConn(f, i)
ConnFunctors  == {"connectDestroyed", "forceCloseInLoop", "writeComplete"}

Referenced(i) ==
    \/ M_connection = i \/ i \in held \/ closing = i
    \/ \E f \in ConnFunctors : InQueue(f, i)

(* What holds the connector: the client, the timer of ~TcpClient() and     *)
(* the retry timers.                                                       *)
ConnectorHeld  == client = "alive" \/ keeper # "none"
ConnectorAlive == ConnectorHeld \/ c.timers > 0

(* The loop thread is neither in a user's callback nor in removeConnection.*)
LoopReady == closing = NoConn /\ ~restarting

-----------------------------------------------------------------------------
(* The connector's steps in the loop.                                      *)

(* poll() returns: some of the timers are due, the keeper among them.      *)
Poll ==
    /\ LoopReady
    /\ \E ripe \in 0 .. c.timers : PollReturns(ripe)
    /\ keeper' \in {keeper} \union (IF keeper = "set" THEN {"due"} ELSE {})
    /\ UNCHANGED <<connVars, client, M_retry, clientConnect, restarting, calling, history>>

ConnectorRuns ==
    /\ LoopReady
    /\ \/ DoPendingFunctors /\ keeper # "due"
       \/ RetryTimer(ConnectorHeld)
       \/ ConnectorAlive /\ (RunStartInLoop \/ RunStopInLoop \/ ResetChannel)
    /\ UNCHANGED <<connVars, clientVars, history>>

(* newConnection(): the connection is established at once.                 *)
NewConnection ==
    /\ M_nextConnId <= MaxConns
    /\ conn' = [conn EXCEPT ![M_nextConnId].state = "kConnected"]
    /\ M_connection' = M_nextConnId
    /\ M_nextConnId' = M_nextConnId + 1
    /\ touched' = (touched \/ client = "gone")

(* handleWrite() of the connector, with its M_newConnectionCallback.       *)
Writable ==
    /\ LoopReady
    /\ WriteEvent
    /\ IF c'.connections > c.connections
       THEN NewConnection
       ELSE UNCHANGED <<conn, M_connection, M_nextConnId, touched>>
    /\ UNCHANGED <<held, closing, clientVars, raced, shared, letGo, abandoned, slow>>

SocketFails == LoopReady /\ ErrorEvent /\ UNCHANGED <<connVars, clientVars, history>>

(* A functor of the connector runs and the connector is gone.              *)
StrayFunctor ==
    /\ LoopReady /\ LoopIsFree
    /\ batch > 0 /\ Head(c.queue).f \in ConnectorFunctors
    /\ ~ConnectorAlive
    /\ aborted' = "freed"
    /\ UNCHANGED <<M_connect, c, phase, batch, pollout, pc, counts, connVars, clientVars,
                   history>>

-----------------------------------------------------------------------------
(* The connection.  Its first event or functor comes after resetChannel,   *)
(* which was queued earlier.                                               *)

(* handleClose(), up to the user's connection callback.                    *)
Closes(i) ==
    /\ conn' = [conn EXCEPT ![i].state = "kDisconnected"]
    /\ closing' = i

HandleClose(i) ==
    /\ LoopReady /\ Polled
    /\ c.M_channel = "none"
    /\ Open(i)
    /\ Closes(i)
    /\ UNCHANGED <<connectorVars, M_connection, M_nextConnId, held, clientVars, history>>

RunForceClose(i) ==
    /\ LoopReady
    /\ RunsFunctor("forceCloseInLoop") /\ Head(c.queue).of = i
    /\ c' = [c EXCEPT !.queue = Tail(@)]
    /\ IF Open(i) THEN Closes(i) ELSE UNCHANGED <<conn, closing>>
    /\ UNCHANGED <<M_connect, phase, pollout, pc, counts, aborted, M_connection,
                   M_nextConnId, held, clientVars, history>>

RunConnectDestroyed(i) ==
    /\ LoopReady
    /\ RunsFunctor("connectDestroyed") /\ Head(c.queue).of = i
    /\ c' = [c EXCEPT !.queue = Tail(@)]
    /\ conn' = [conn EXCEPT ![i].state = "kDisconnected"]
    /\ UNCHANGED <<M_connect, phase, pollout, pc, counts, aborted, M_connection,
                   M_nextConnId, held, closing, clientVars, history>>

(* ~TcpConnection() asserts M_state == kDisconnected.                      *)
DropsPointer(i) ==
    aborted' = IF Open(i) /\ ~Referenced(i)' THEN "~TcpConnection" ELSE aborted

RunWriteComplete(i) ==
    /\ LoopReady
    /\ RunsFunctor("writeComplete") /\ Head(c.queue).of = i
    /\ c' = [c EXCEPT !.queue = Tail(@)]
    /\ UNCHANGED <<M_connect, phase, pollout, pc, counts, connVars, clientVars, history>>
    /\ DropsPointer(i)

(* A send() in the loop thread that write(2) takes at once.                *)
SendCompletes ==
    /\ LoopReady /\ LoopIsFree
    /\ \E i \in Conns :
        /\ M_connection = i /\ conn[i].state = "kConnected"
        /\ ~InQueue("writeComplete", i)
        /\ Push(OfConn("writeComplete", i))
    /\ UNCHANGED <<M_connect, phase, batch, pollout, pc, counts, aborted, connVars,
                   clientVars, history>>

-----------------------------------------------------------------------------
(* The connection is closed: for the connector, its socket is gone.        *)
HandedBack(d) == [d EXCEPT !.connections = @ - 1, !.sockets = @ - 1]

(* TcpClient::removeConnection(), up to restart().                         *)
RemoveConnection ==
    /\ closing # NoConn
    /\ conn[closing].callback = "removeConnection"
    /\ closing' = NoConn
    /\ touched' = (touched \/ client = "gone")
    /\ IF M_connection = closing
       THEN /\ M_connection' = NoConn
            /\ c' = [HandedBack(c) EXCEPT
                        !.queue = Append(@, OfConn("connectDestroyed", closing))]
            /\ restarting' = (M_retry /\ clientConnect)
            /\ UNCHANGED aborted
       ELSE /\ aborted' = "removeConnection"
            /\ UNCHANGED <<c, M_connection, restarting>>
    /\ UNCHANGED <<M_connect, phase, batch, pollout, pc, counts, M_nextConnId, conn, held,
                   client, M_retry, clientConnect, calling, keeper, raced, shared, letGo,
                   abandoned, slow>>

(* detail::removeConnection(): connectDestroyed() at once.                 *)
DetailRemoveConnection ==
    /\ closing # NoConn
    /\ conn[closing].callback = "detail"
    /\ closing' = NoConn
    /\ c' = HandedBack(c)
    /\ UNCHANGED <<M_connect, phase, batch, pollout, pc, counts, aborted, M_connection,
                   M_nextConnId, conn, held, clientVars, history>>

RestartConnector ==
    /\ restarting
    /\ restarting' = FALSE
    /\ Restart
    /\ raced' = (raced \/ ~M_connect)
    /\ UNCHANGED <<connVars, client, M_retry, clientConnect, calling, keeper, shared, letGo,
                   abandoned, slow, touched>>

-----------------------------------------------------------------------------
(* connect(), stop() and disconnect().  In the loop thread users call them *)
(* in callbacks and functors.  Another thread sets the client's M_connect, *)
(* then the connector's, then queues the connector's functor.  Users make  *)
(* one call after the other, in any order; they do not wait for the        *)
(* functors.                                                               *)

NoCallBegun == \A t \in Threads : calling[t] = "none"

Unaffected == <<connVars, client, M_retry, restarting, keeper, history>>

ConnectInLoop ==
    /\ client = "alive" /\ ~restarting /\ NoCallBegun
    /\ LoopStart
    /\ clientConnect' = TRUE
    /\ UNCHANGED <<Unaffected, calling>>

StopInLoopThread ==
    /\ client = "alive" /\ ~restarting /\ NoCallBegun
    /\ LoopStop
    /\ clientConnect' = FALSE
    /\ UNCHANGED <<Unaffected, calling>>

BeginCall(t, call) ==
    /\ client = "alive" /\ NoCallBegun
    /\ pc[t] = "idle"
    /\ calls < MaxCalls
    /\ clientConnect' = (call = "connect")
    /\ calling' = [calling EXCEPT ![t] = call]
    /\ UNCHANGED <<connectorVars, Unaffected>>

(* M_connector->start() or stop(), up to its functor.                      *)
CallConnector(t) ==
    /\ \/ calling[t] = "connect" /\ Start(t)
       \/ calling[t] = "stop" /\ Stop(t)
    /\ calling' = [calling EXCEPT ![t] = "none"]
    /\ UNCHANGED <<Unaffected, clientConnect>>

QueueElsewhere(t) == Queues(t) /\ UNCHANGED <<Unaffected, clientConnect, calling>>

(* disconnect(): shutdown(), of which the peer's close follows.            *)
Disconnect ==
    /\ client = "alive" /\ Running
    /\ clientConnect' = FALSE
    /\ conn' = IF M_connection # NoConn /\ conn[M_connection].state = "kConnected"
               THEN [conn EXCEPT ![M_connection].state = "kDisconnecting"] ELSE conn
    /\ UNCHANGED <<connectorVars, M_connection, M_nextConnId, held, closing, client,
                   M_retry, restarting, calling, keeper, history>>

(* connection(): users keep a pointer, and drop it when they like.         *)
Hold ==
    /\ client = "alive" /\ Running
    /\ M_connection \in Conns \ held
    /\ held' = held \union {M_connection}
    /\ UNCHANGED <<connectorVars, M_connection, M_nextConnId, conn, closing, clientVars,
                   history>>

Release(i) ==
    /\ Running
    /\ i \in held
    /\ held' = held \ {i}
    /\ letGo' = IF Open(i) /\ client = "gone" THEN letGo \union {i} ELSE letGo
    /\ UNCHANGED <<M_connect, c, phase, batch, pollout, pc, counts, M_connection,
                   M_nextConnId, conn, closing, clientVars, raced, shared, abandoned, slow,
                   touched>>
    /\ DropsPointer(i)

-----------------------------------------------------------------------------
(* ~TcpClient(), in user code of the loop thread, when no other thread is  *)
(* in a call of the client.                                                *)

MayDestruct ==
    /\ client = "alive"
    /\ LoopIsFree /\ ~restarting
    /\ NoCallBegun /\ \A t \in Threads : pc[t] = "idle"
    /\ client' = "gone"

(* With a connection, M_connector goes with the client.                    *)
DropsConnector ==
    /\ aborted' = IF DestructorFails(c) THEN "~Connector" ELSE aborted
    /\ abandoned' = (abandoned \/ ConnectorFunctorQueued)

Unique(i) == i \notin held /\ closing # i /\ \A f \in ConnFunctors : ~InQueue(f, i)

(* Fault: the close callback is not replaced.                              *)
DestructKeepsCallback(i) ==
    /\ MayDestruct
    /\ M_connection = i
    /\ M_connection' = NoConn
    /\ IF Unique(i) /\ Open(i)
       THEN /\ conn' = [conn EXCEPT ![i].state = "kDisconnecting"]
            /\ Push(OfConn("forceCloseInLoop", i))
       ELSE UNCHANGED <<conn, c>>
    /\ DropsConnector
    /\ shared' = IF InQueue("writeComplete", i) /\ i \notin held THEN shared \union {i}
                                                                  ELSE shared
    /\ UNCHANGED <<M_connect, phase, batch, pollout, pc, counts, M_nextConnId, held, closing,
                   M_retry, clientConnect, restarting, calling, keeper, raced, letGo,
                   slow, touched>>

(* Fault: the connection is not closed.                                    *)
DestructLeavesOpen(i) ==
    /\ MayDestruct
    /\ M_connection = i
    /\ M_connection' = NoConn
    /\ conn' = [conn EXCEPT ![i].callback = "detail"]
    /\ DropsConnector
    /\ shared' = IF InQueue("writeComplete", i) /\ i \notin held THEN shared \union {i}
                                                                  ELSE shared
    /\ UNCHANGED <<M_connect, c, phase, batch, pollout, pc, counts, M_nextConnId, held,
                   closing, M_retry, clientConnect, restarting, calling, keeper, raced,
                   letGo, slow, touched>>

(* With a connection: its close callback is replaced, and it is closed if  *)
(* nobody else has it.                                                     *)
DestructConnected(i) ==
    /\ MayDestruct
    /\ M_connection = i
    /\ M_connection' = NoConn
    /\ IF Unique(i) /\ Open(i)
       THEN /\ conn' = [conn EXCEPT ![i] = [state |-> "kDisconnecting", callback |-> "detail"]]
            /\ Push(OfConn("forceCloseInLoop", i))
       ELSE /\ conn' = [conn EXCEPT ![i].callback = "detail"]
            /\ UNCHANGED c
    /\ DropsConnector
    /\ shared' = IF InQueue("writeComplete", i) /\ i \notin held THEN shared \union {i}
                                                                  ELSE shared
    /\ UNCHANGED <<M_connect, phase, batch, pollout, pc, counts, M_nextConnId, held, closing,
                   M_retry, clientConnect, restarting, calling, keeper, raced, letGo,
                   slow, touched>>

(* Fault: the connector is not stopped.                                    *)
DestructUnconnectedRunning ==
    /\ MayDestruct
    /\ M_connection = NoConn
    /\ keeper' = "set"
    /\ UNCHANGED <<connectorVars, connVars, M_retry, clientConnect, restarting, calling,
                   history>>

(* Without: M_connector->stop(), and a timer keeps the connector for a     *)
(* second ("FIXME: HACK").                                                 *)
DestructUnconnected ==
    /\ MayDestruct
    /\ M_connection = NoConn
    /\ M_connect' = FALSE
    /\ Push(Functor("stopInLoop"))
    /\ keeper' = "set"
    /\ UNCHANGED <<phase, batch, pollout, pc, counts, aborted, connVars, M_retry,
                   clientConnect, restarting, calling, history>>

(* The second is over, and with it the connector.                          *)
KeeperExpires ==
    /\ LoopReady /\ Polled
    /\ keeper = "due"
    /\ keeper' = "none"
    /\ slow' = (slow \/ ConnectorFunctorQueued)
    /\ aborted' = IF DestructorFails(c) THEN "~Connector" ELSE aborted
    /\ UNCHANGED <<M_connect, c, phase, batch, pollout, pc, counts, connVars, client, M_retry,
                   clientConnect, restarting, calling, raced, shared, letGo, abandoned, touched>>

-----------------------------------------------------------------------------
ClientLoopStep ==
    \/ Poll \/ ConnectorRuns \/ Writable
    \/ \E i \in Conns : RunForceClose(i) \/ RunConnectDestroyed(i) \/ RunWriteComplete(i)
    \/ RemoveConnection \/ DetailRemoveConnection \/ RestartConnector
    \/ StrayFunctor \/ KeeperExpires

UserStep ==
    \/ ConnectInLoop \/ StopInLoopThread \/ Disconnect
    \/ SendCompletes
    \/ Hold \/ \E i \in Conns : Release(i)
    \/ DestructUnconnected \/ \E i \in Conns : DestructConnected(i)

Next ==
    /\ Running
    /\ \/ ClientLoopStep
       \/ SocketFails \/ \E i \in Conns : HandleClose(i)
       \/ UserStep
       \/ \E t \in Threads :
             \/ \E call \in {"connect", "stop"} : BeginCall(t, call)
             \/ CallConnector(t) \/ QueueElsewhere(t)

Spec == Init /\ [][Next]_vars

(* loop() goes on, an attempt ends with POLLOUT or POLLERR, and the time   *)
(* of a retry timer comes.                                                 *)
FairSpec ==
    /\ Spec
    /\ WF_vars(ClientLoopStep)
    /\ SF_vars(Writable \/ SocketFails)
    /\ SF_vars(c.timers > 0 /\ Poll /\ c'.ripe = c.timers)
    /\ \A t \in Threads : WF_vars(CallConnector(t) \/ QueueElsewhere(t))

-----------------------------------------------------------------------------
(* stop(): when it is the last call, the attempts and the timers end,      *)
(* whatever was going on; the exception is that the connection broke just  *)
(* then and restart() undid what stop() had set.                           *)
StopSettles ==
    <>[](lastCall # "start") =>
        <>[](raced \/ aborted # "no" \/ (c.timers = 0 /\ c.M_state # "kConnecting"))

(* ~TcpClient(): neither the connector nor a connection calls the client   *)
(* that bound itself to their callbacks, in whatever state it went.        *)
DeadClientUntouched == ~touched

(* ~Connector(): no channel with callbacks to a connector that is gone is  *)
(* left in the poller, unless the loop needed more than the second of the  *)
(* keeper for the functors of stop().                                      *)
DeadConnectorUnregistered == ~ConnectorAlive => c.M_channel # "registered" \/ slow

(* ~TcpConnection(): assert(M_state == kDisconnected).  A connection that  *)
(* outlives its client is closed before the last pointer to it goes.  The  *)
(* exceptions: unique() took a functor's pointer for somebody else's, and  *)
(* it was somebody else's, who dropped it before the connection was down.  *)
OrphanEndsDisconnected ==
    \A i \in 1 .. M_nextConnId - 1 : Open(i) => Referenced(i) \/ i \in shared \union letGo

(* resetChannel is to run in this iteration: the client was destructed in  *)
(* the one in which its connection was established.                        *)
ResetChannelDue ==
    phase = "events" \/ \E k \in 1 .. batch : c.queue[k].f = "resetChannel"

(* The assertions hold, and no functor meets a connector that is gone, in  *)
(* every order of calls, events, timers and functors, but for              *)
(*   startInLoop()       start() before the last attempt has ended;        *)
(*   connecting()        the same, or a restart() that undid a stop():     *)
(*                       stopInLoop() then sets a timer, which overtakes   *)
(*                       resetChannel;                                     *)
(*   a functor, freed    ~TcpClient() or its keeper left it behind;        *)
(*   ~Connector()        the same, with resetChannel on its way;           *)
(*   ~TcpConnection()    see OrphanEndsDisconnected.                       *)
(* handleWrite() and removeConnection() have no exception.                 *)
ClientAssertionsHold ==
    /\ aborted \notin {"handleWrite", "removeConnection"}
    /\ aborted = "startInLoop" => overlapped
    /\ aborted = "connecting" => overlapped \/ raced
    /\ aborted = "freed" => abandoned \/ slow
    /\ aborted = "~Connector" => slow \/ (abandoned /\ ResetChannelDue)
    /\ aborted = "~TcpConnection" => shared \union letGo # {}

-----------------------------------------------------------------------------
(* What an assertion of the code says and the code does not keep (README,  *)
(* section 4.3).                                                           *)

(* ~TcpConnection() asserts M_state == kDisconnected: ~TcpClient() closes  *)
(* its connection only if unique() says that nobody else has it, and whose *)
(* pointer it is then goes when they like.                                 *)
ConnectionEndsDisconnected == aborted # "~TcpConnection"

=============================================================================
