--------------------------- MODULE TcpServerProofs ---------------------------
(***************************************************************************)
(* Proofs about TcpServer, for any number of I/O loops, connections and    *)
(* descriptors.                                                            *)
(*                                                                         *)
(* The assertions of the server depend on the order of the functors in two *)
(* queues, the connection's loop and the base loop.  The invariant says    *)
(* for each functor which connection it may be about and in which state    *)
(* and where that connection then is; the map, handleClose() and the queue *)
(* of the base loop hand a connection on to one another.                   *)
(***************************************************************************)
EXTENDS TcpServer, SequenceTheorems, TLAPS

Destruction(c) == [f |-> "connectDestroyed", c |-> c]

(* The functors of a queue; in a queue, connectDestroyed is the only one   *)
(* that others of the same connection may precede.                         *)
Items(q)   == {q[i] : i \in 1 .. Len(q)}
InOrder(q) == \A i, j \in 1 .. Len(q) :
                 i < j /\ q[i].c = q[j].c => q[j].f = "connectDestroyed"

(* A connection that was accepted belongs to an I/O loop for good.         *)
ConnsHaveLoops ==
    \A c \in Conns :
        /\ c \in Created => conn[c].state # "none" /\ conn[c].loop \in IoLoops
        /\ c \notin Created => conn[c].state = "none"

(* The base loop has removals of connections that are down, an I/O loop    *)
(* what concerns its own connections.                                      *)
FunctorsBelong ==
    \A l \in Loops : \A x \in Items(queue[l]) :
        /\ x.c \in Created
        /\ IF x.f = "removeConnectionInLoop"
           THEN l = Base /\ conn[x.c].state = "kDisconnected"
           ELSE l = conn[x.c].loop
        /\ x.f = "connectEstablished" => conn[x.c].state = "kConnecting"

FunctorsInOrder == \A l \in Loops : InOrder(queue[l])

BatchIsQueued == \A l \in Loops : batch[l] <= Len(queue[l])

(* A connection in handleClose() is down and its removal not yet queued.   *)
ClosingBeforeRemoval ==
    \A l \in Loops : closing[l] # NoConn =>
        /\ closing[l] \in Created
        /\ conn[closing[l]].loop = l /\ conn[closing[l]].state = "kDisconnected"
        /\ phase[l] \in {"events", "functors"}
        /\ \A x \in Items(queue[Base]) : x.c # closing[l]

(* While the server lives, M_connections has whatever is not yet removed.  *)
MapIsComplete ==
    server = "alive" =>
        /\ \A c \in Created : conn[c].state # "kDisconnected" => c \in M_connections
        /\ \A l \in Loops : closing[l] # NoConn => closing[l] \in M_connections
        /\ \A x \in Items(queue[Base]) : x.c \in M_connections

(* Later, connectDestroyed has taken the place of the map.                 *)
DestructionIsQueued ==
    \A c \in Created \ dropped :
        \/ conn[c].state = "kDisconnected"
        \/ c \in M_connections
        \/ Destruction(c) \in Items(queue[conn[c].loop])

RemovalsAreLate ==
    server # "alive" => \A x \in Items(queue[Base]) : x.c \in late

Over(l) == phase[l] \in {"none", "ended"}

LoopsAreJoined ==
    /\ server = "pool" => \A l \in 1 .. joining - 1 : Over(l)
    /\ server \in {"acceptor", "gone"} => \A l \in IoLoops : Over(l)
    /\ server \in {"alive", "connections"} => joining = 0

Core ==
    /\ aborted \in {"no", "gone"}
    /\ ConnsHaveLoops
    /\ FunctorsBelong
    /\ FunctorsInOrder
    /\ BatchIsQueued
    /\ ClosingBeforeRemoval
    /\ MapIsComplete
    /\ DestructionIsQueued
    /\ RemovalsAreLate
    /\ LoopsAreJoined

(* Without I/O loops the first connection ends the program.                *)
IInv ==
    /\ TypeOK
    /\ DestructedDisconnected
    /\ DeadServerWindow
    /\ IF aborted = "getNextLoop" THEN NumThreads = 0 ELSE Core

(* What every step preserves as long as the program goes on.               *)
Good == TypeOK /\ DeadServerWindow /\ Core

-----------------------------------------------------------------------------
(* The loops, and the functors that wait in them.                          *)

LEMMA LoopFacts ==
    /\ Base \in Loops /\ Base \notin IoLoops
    /\ \A l \in IoLoops : l \in Loops /\ l # Base
    /\ \A l \in Loops : l # Base => l \in IoLoops
    /\ NoConn \notin Conns
  BY TcpServerAssumption DEF Base, Loops, IoLoops, NoConn, Conns

LEMMA QueueFacts ==
    ASSUME TypeOK
    PROVE  /\ Created \subseteq Conns
           /\ \A l \in Loops :
                /\ queue[l] \in Seq(Functors) /\ Len(queue[l]) \in Nat
                /\ \A x \in Items(queue[l]) : x.c \in Conns
                /\ \A c : Queued(l, c) <=> \E x \in Items(queue[l]) : x.c = c
  <1>1. Created \subseteq Conns
    BY TcpServerAssumption DEF TypeOK, Created, Conns
  <1>2. ASSUME NEW l \in Loops
        PROVE  /\ queue[l] \in Seq(Functors) /\ Len(queue[l]) \in Nat
               /\ Items(queue[l]) \subseteq Functors
               /\ \A c : Queued(l, c) <=> \E x \in Items(queue[l]) : x.c = c
    <2>1. queue[l] \in Seq(Functors)
      BY DEF TypeOK
    <2>2. Items(queue[l]) \subseteq Functors
      BY <2>1 DEF Items
    <2>3. \A c : Queued(l, c) <=> \E x \in Items(queue[l]) : x.c = c
      BY <2>1 DEF Items, Queued
    <2>. QED  BY <2>1, <2>2, <2>3
  <1>3. \A x \in Functors : x.c \in Conns
    BY DEF Functors
  <1>. QED  BY <1>1, <1>2, <1>3

(* Runs(): the functor at the head goes, the others stay in order.         *)
LEMMA RunsFacts ==
    ASSUME TypeOK, BatchIsQueued, FunctorsInOrder,
           NEW l \in Loops, NEW f, NEW c, Runs(l, f, c)
    PROVE  /\ Tail(queue[l]) \in Seq(Functors)
           /\ Items(queue[l]) = Items(Tail(queue[l])) \union {[f |-> f, c |-> c]}
           /\ \A x \in Items(Tail(queue[l])) : x.c = c => x.f = "connectDestroyed"
           /\ InOrder(Tail(queue[l]))
           /\ batch' \in [Loops -> Nat]
           /\ \A m \in Loops : m # l => batch'[m] = batch[m]
           /\ batch'[l] <= Len(Tail(queue[l]))
  <1>. DEFINE q == queue[l]
              F == [f |-> f, c |-> c]
  <1>1. q \in Seq(Functors) /\ Len(q) \in Nat
    BY QueueFacts
  <1>2. batch \in [Loops -> Nat] /\ batch[l] \in Nat /\ batch[l] > 0 /\ batch[l] <= Len(q)
    BY DEF TypeOK, Runs, BatchIsQueued
  <1>3. Len(q) > 0 /\ q # <<>>
    BY <1>1, <1>2
  <1>4. q[1] = F /\ F.c = c
    BY <1>1, <1>3 DEF Runs
  <1>5. /\ Tail(q) \in Seq(Functors) /\ Len(Tail(q)) = Len(q) - 1
        /\ \A i \in 1 .. Len(q) - 1 : Tail(q)[i] = q[i + 1]
    BY <1>1, <1>3, HeadTailProperties
  <1>6. batch' = [batch EXCEPT ![l] = batch[l] - 1] /\ batch[l] - 1 \in Nat
    BY <1>2 DEF Runs
  <1>7. /\ batch' \in [Loops -> Nat] /\ batch'[l] = batch[l] - 1
        /\ \A m \in Loops : m # l => batch'[m] = batch[m]
    BY <1>2, <1>6
  <1>8. InOrder(q)
    BY DEF FunctorsInOrder
  <1>. HIDE DEF q, F
  <1>9. InOrder(Tail(q))
    BY <1>1, <1>5, <1>8 DEF InOrder
  <1>10. ASSUME NEW x \in Items(Tail(q))
         PROVE  x \in Items(q) /\ (x.c = c => x.f = "connectDestroyed")
    <2>1. PICK i \in 1 .. Len(q) - 1 : x = Tail(q)[i]
      BY <1>5 DEF Items
    <2>2. x = q[i + 1] /\ i + 1 \in 1 .. Len(q) /\ 1 \in 1 .. Len(q) /\ 1 < i + 1
      BY <1>1, <1>5, <2>1
    <2>. QED  BY <1>4, <1>8, <2>2 DEF Items, InOrder
  <1>11. ASSUME NEW x \in Items(q), x # F PROVE x \in Items(Tail(q))
    <2>1. PICK i \in 1 .. Len(q) : x = q[i]
      BY DEF Items
    <2>2. i - 1 \in 1 .. Len(q) - 1 /\ (i - 1) + 1 = i
      BY <1>1, <1>4, <1>11, <2>1
    <2>3. x = Tail(q)[i - 1]
      BY <1>5, <2>1, <2>2
    <2>. QED  BY <1>5, <2>2, <2>3 DEF Items
  <1>12. F \in Items(q)
    BY <1>1, <1>3, <1>4 DEF Items
  <1>13. batch'[l] <= Len(Tail(q))
    BY <1>1, <1>2, <1>5, <1>7
  <1>14. Items(q) = Items(Tail(q)) \union {F}
    BY <1>10, <1>11, <1>12
  <1>. QED  BY <1>5, <1>7, <1>9, <1>10, <1>13, <1>14 DEF q, F

(* Append(): a functor comes last.                                         *)
LEMMA AppendFacts ==
    ASSUME NEW q \in Seq(Functors), NEW x \in Functors, InOrder(q),
           x.f = "connectDestroyed" \/ \A y \in Items(q) : y.c # x.c
    PROVE  /\ Append(q, x) \in Seq(Functors)
           /\ Len(q) \in Nat /\ Len(Append(q, x)) = Len(q) + 1
           /\ Items(Append(q, x)) = Items(q) \union {x}
           /\ InOrder(Append(q, x))
  <1>. DEFINE r == Append(q, x)
  <1>1. /\ r \in Seq(Functors) /\ Len(q) \in Nat /\ Len(r) = Len(q) + 1
        /\ \A i \in 1 .. Len(q) : r[i] = q[i]
        /\ r[Len(q) + 1] = x
    BY AppendProperties
  <1>. HIDE DEF r
  <1>2. \A i \in 1 .. Len(r) : i \in 1 .. Len(q) \/ i = Len(q) + 1
    BY <1>1
  <1>3. 1 .. Len(q) \subseteq 1 .. Len(r) /\ Len(q) + 1 \in 1 .. Len(r)
    BY <1>1
  <1>4. Items(r) = Items(q) \union {x}
    BY <1>1, <1>2, <1>3 DEF Items
  <1>5. ASSUME NEW i \in 1 .. Len(r), NEW j \in 1 .. Len(r), i < j, r[i].c = r[j].c
        PROVE  r[j].f = "connectDestroyed"
    <2>1. i \in 1 .. Len(q) /\ r[i] = q[i] /\ q[i] \in Items(q)
      BY <1>1, <1>2, <1>5 DEF Items
    <2>2. CASE j \in 1 .. Len(q)
      BY <1>1, <1>5, <2>1, <2>2 DEF InOrder
    <2>3. CASE j = Len(q) + 1
      BY <1>1, <1>5, <2>1, <2>3
    <2>. QED  BY <1>2, <2>2, <2>3
  <1>6. InOrder(r)
    BY <1>5 DEF InOrder
  <1>. QED  BY <1>1, <1>4, <1>6 DEF r

(* Core is enough for DestructedDisconnected: a connection that is not     *)
(* down is in the map, or its connectDestroyed() waits in its loop.        *)
LEMMA CoreReferences ==
    ASSUME TypeOK, Core PROVE DestructedDisconnected
  <1>. SUFFICES ASSUME NEW c \in Created \ dropped, conn[c].state # "kDisconnected",
                       c \notin M_connections
                PROVE  Referenced(c)
    BY DEF DestructedDisconnected, Referenced
  <1>. DEFINE l == conn[c].loop
  <1>1. c \in Conns /\ l \in Loops
    BY QueueFacts, LoopFacts DEF Core, ConnsHaveLoops
  <1>2. Destruction(c) \in Items(queue[l]) /\ Destruction(c).c = c
    BY DEF Core, DestructionIsQueued, Destruction
  <1>3. Queued(l, c)
    BY <1>1, <1>2, QueueFacts
  <1>. QED  BY <1>1, <1>3 DEF Referenced

-----------------------------------------------------------------------------
(* Steps that move no functor and no connection.                           *)

LEMMA FunctorsStay ==
    ASSUME Core, conn' = conn, queue' = queue, M_nextConnId' = M_nextConnId
    PROVE  ConnsHaveLoops' /\ FunctorsBelong' /\ FunctorsInOrder'
  BY DEF Core, ConnsHaveLoops, FunctorsBelong, FunctorsInOrder, Created

LEMMA LoopsStayOver ==
    ASSUME TypeOK, LoopsAreJoined, server' = server, joining' = joining,
           \A l \in Loops : Over(l) => Over(l)'
    PROVE  LoopsAreJoined'
  <1>1. /\ \A l \in 1 .. joining - 1 : l \in Loops
        /\ \A l \in IoLoops : l \in Loops
    BY TcpServerAssumption DEF TypeOK, Loops, IoLoops
  <1>. QED  BY <1>1 DEF LoopsAreJoined

LEMMA SwapStep ==
    ASSUME Good, aborted = "no", NEW l \in Loops, Swap(l)
    PROVE  Good'
  <1>. USE DEF Good, Core
  <1>1. /\ server' = server /\ joining' = joining /\ M_nextConnId' = M_nextConnId
        /\ M_connections' = M_connections /\ conn' = conn /\ queue' = queue
        /\ closing' = closing /\ late' = late /\ dropped' = dropped /\ touched' = touched
        /\ aborted' = aborted
    BY DEF Swap, serverVars, history
  <1>2. /\ \A m \in Loops : m # l => phase'[m] = phase[m] /\ batch'[m] = batch[m]
        /\ phase[l] = "events" /\ phase'[l] = "functors" /\ batch'[l] = Len(queue[l])
        /\ phase' \in [Loops -> {"none", "events", "functors", "ended"}]
        /\ batch' \in [Loops -> Nat]
    BY QueueFacts DEF Swap, TypeOK
  <1>3. TypeOK'
    BY <1>1, <1>2 DEF TypeOK, Swap, acceptVars
  <1>4. ConnsHaveLoops' /\ FunctorsBelong' /\ FunctorsInOrder'
    BY <1>1, FunctorsStay
  <1>5. BatchIsQueued'
    BY <1>1, <1>2, QueueFacts DEF BatchIsQueued
  <1>6. ClosingBeforeRemoval'
    BY <1>1, <1>2 DEF ClosingBeforeRemoval, Created, Swap, Free
  <1>7. MapIsComplete' /\ DestructionIsQueued' /\ RemovalsAreLate'
    BY <1>1 DEF MapIsComplete, DestructionIsQueued, RemovalsAreLate, Created
  <1>8. LoopsAreJoined'
    BY <1>1, <1>2, LoopsStayOver DEF Over
  <1>9. DeadServerWindow' /\ aborted' \in {"no", "gone"}
    BY <1>1 DEF DeadServerWindow
  <1>. QED  BY <1>3, <1>4, <1>5, <1>6, <1>7, <1>8, <1>9

(* start() runs while the server lives; the loops it starts have never     *)
(* closed a connection.                                                    *)
LEMMA StartStep ==
    ASSUME Good, aborted = "no", Start
    PROVE  Good'
  <1>. USE DEF Good, Core
  <1>1. /\ server' = server /\ joining' = joining /\ M_nextConnId' = M_nextConnId
        /\ M_connections' = M_connections /\ conn' = conn /\ queue' = queue
        /\ closing' = closing /\ late' = late /\ dropped' = dropped /\ touched' = touched
        /\ aborted' = aborted /\ batch' = batch /\ server = "alive"
    BY DEF Start, serverVars, history
  <1>2. /\ phase' \in [Loops -> {"none", "events", "functors", "ended"}]
        /\ \A l \in Loops : phase'[l] = IF l = Base THEN phase[l] ELSE "events"
    BY DEF Start, TypeOK
  <1>3. TypeOK'
    BY <1>1, <1>2 DEF TypeOK, Start
  <1>4. ConnsHaveLoops' /\ FunctorsBelong' /\ FunctorsInOrder'
    BY <1>1, FunctorsStay
  <1>5. BatchIsQueued' /\ MapIsComplete' /\ DestructionIsQueued' /\ RemovalsAreLate'
    BY <1>1 DEF BatchIsQueued, MapIsComplete, DestructionIsQueued, RemovalsAreLate, Created
  <1>6. ClosingBeforeRemoval'
    BY <1>1, <1>2 DEF ClosingBeforeRemoval, Created
  <1>7. LoopsAreJoined' /\ DeadServerWindow' /\ aborted' \in {"no", "gone"}
    BY <1>1 DEF LoopsAreJoined, DeadServerWindow
  <1>. QED  BY <1>3, <1>4, <1>5, <1>6, <1>7

(* The listening socket alone.                                             *)
LEMMA PeerStep ==
    ASSUME Good, aborted = "no", PeerConnects \/ AcceptFails
    PROVE  Good'
  <1>. USE DEF Good, Core
  <1>1. /\ server' = server /\ joining' = joining /\ M_nextConnId' = M_nextConnId
        /\ M_connections' = M_connections /\ conn' = conn /\ queue' = queue
        /\ closing' = closing /\ late' = late /\ dropped' = dropped /\ touched' = touched
        /\ aborted' = aborted /\ batch' = batch /\ phase' = phase /\ quit' = quit
        /\ M_listenning' = M_listenning /\ M_idleFd' = M_idleFd /\ M_next' = M_next
    BY DEF PeerConnects, AcceptFails, serverVars, history, loopVars
  <1>2. peers' \in 0 .. connected' /\ connected' \in 0 .. MaxConns
    <2>1. CASE PeerConnects
      BY <2>1, TcpServerAssumption DEF PeerConnects, TypeOK
    <2>2. CASE AcceptFails
      BY <2>2, TcpServerAssumption DEF AcceptFails, TypeOK, ErrnoAfterAccept
    <2>. QED  BY <2>1, <2>2
  <1>3. TypeOK'
    BY <1>1, <1>2 DEF TypeOK
  <1>4. ConnsHaveLoops' /\ FunctorsBelong' /\ FunctorsInOrder'
    BY <1>1, FunctorsStay
  <1>5. BatchIsQueued' /\ MapIsComplete' /\ DestructionIsQueued' /\ RemovalsAreLate'
    BY <1>1 DEF BatchIsQueued, MapIsComplete, DestructionIsQueued, RemovalsAreLate, Created
  <1>6. ClosingBeforeRemoval' /\ LoopsAreJoined' /\ DeadServerWindow'
    BY <1>1 DEF ClosingBeforeRemoval, LoopsAreJoined, Over, DeadServerWindow, Created
  <1>. QED  BY <1>1, <1>3, <1>4, <1>5, <1>6

-----------------------------------------------------------------------------
(* ~TcpServer().                                                           *)

(* Destruct: whatever waits for the base loop is late from here on.        *)
LEMMA DestructStep ==
    ASSUME Good, aborted = "no", Destruct
    PROVE  Good'
  <1>. USE DEF Good, Core
  <1>1. /\ joining' = joining /\ M_nextConnId' = M_nextConnId
        /\ M_connections' = M_connections /\ conn' = conn /\ queue' = queue
        /\ closing' = closing /\ dropped' = dropped /\ touched' = touched
        /\ aborted' = aborted /\ batch' = batch /\ phase' = phase /\ quit' = quit
        /\ server = "alive" /\ server' = "connections"
    BY DEF Destruct, loopVars
  <1>2. late' \subseteq Conns /\ late \subseteq late'
    BY DEF Destruct, TypeOK
  <1>3. TypeOK'
    BY <1>1, <1>2 DEF TypeOK, Destruct, acceptVars
  <1>4. ConnsHaveLoops' /\ FunctorsBelong' /\ FunctorsInOrder'
    BY <1>1, FunctorsStay
  <1>5. BatchIsQueued' /\ MapIsComplete' /\ DestructionIsQueued' /\ ClosingBeforeRemoval'
    BY <1>1 DEF BatchIsQueued, MapIsComplete, DestructionIsQueued, ClosingBeforeRemoval,
                Created
  <1>6. RemovalsAreLate'
    <2>. SUFFICES ASSUME NEW x \in Items(queue[Base]) PROVE x.c \in late'
      BY <1>1 DEF RemovalsAreLate
    <2>1. x.c \in Conns /\ Queued(Base, x.c)
      BY QueueFacts, LoopFacts
    <2>. QED  BY <2>1 DEF Destruct
  <1>7. LoopsAreJoined' /\ DeadServerWindow'
    BY <1>1, <1>2 DEF LoopsAreJoined, DeadServerWindow
  <1>. QED  BY <1>1, <1>3, <1>4, <1>5, <1>6, <1>7

(* quit() and join() of the next thread: the one before it is over.        *)
LEMMA QuitLoopStep ==
    ASSUME Good, aborted = "no", QuitLoop
    PROVE  Good'
  <1>. USE DEF Good, Core
  <1>1. /\ M_nextConnId' = M_nextConnId
        /\ M_connections' = M_connections /\ conn' = conn /\ queue' = queue
        /\ closing' = closing /\ late' = late /\ dropped' = dropped /\ touched' = touched
        /\ aborted' = aborted /\ batch' = batch /\ phase' = phase
        /\ server # "alive" /\ server' = "pool" /\ joining' = joining + 1
    BY DEF QuitLoop, history
  <1>2. joining' \in 0 .. NumThreads /\ quit' \in [Loops -> BOOLEAN]
    <2>1. joining' \in 0 .. NumThreads
      BY TcpServerAssumption DEF QuitLoop, TypeOK
    <2>2. quit' = [quit EXCEPT ![joining + 1] = TRUE] /\ quit \in [Loops -> BOOLEAN]
      BY DEF QuitLoop, TypeOK
    <2>3. quit' \in [Loops -> BOOLEAN]
      BY <2>2
    <2>. QED  BY <2>1, <2>3
  <1>3. TypeOK'
    BY <1>1, <1>2 DEF TypeOK, QuitLoop, acceptVars
  <1>4. ConnsHaveLoops' /\ FunctorsBelong' /\ FunctorsInOrder'
    BY <1>1, FunctorsStay
  <1>5. BatchIsQueued' /\ MapIsComplete' /\ DestructionIsQueued' /\ ClosingBeforeRemoval'
    BY <1>1 DEF BatchIsQueued, MapIsComplete, DestructionIsQueued, ClosingBeforeRemoval,
                Created
  <1>6. RemovalsAreLate' /\ DeadServerWindow'
    BY <1>1 DEF RemovalsAreLate, DeadServerWindow
  <1>7. LoopsAreJoined'
    <2>1. ASSUME NEW l \in 1 .. joining PROVE Over(l)
      <3>1. joining \in Nat /\ server = "pool" /\ Over(joining)
        BY TcpServerAssumption DEF TypeOK, QuitLoop, LoopsAreJoined, Over
      <3>2. l = joining \/ l \in 1 .. joining - 1
        BY <3>1
      <3>. QED  BY <3>1, <3>2 DEF LoopsAreJoined
    <2>2. 1 .. joining' - 1 = 1 .. joining
      BY <1>1, TcpServerAssumption DEF TypeOK
    <2>3. \A l \in 1 .. joining' - 1 : Over(l)'
      BY <1>1, <2>1, <2>2 DEF Over
    <2>. QED  BY <1>1, <2>3 DEF LoopsAreJoined
  <1>. QED  BY <1>1, <1>3, <1>4, <1>5, <1>6, <1>7

(* The acceptor goes last, when every loop is over.                        *)
LEMMA DestructAcceptorStep ==
    ASSUME Good, aborted = "no", DestructAcceptor
    PROVE  Good'
  <1>. USE DEF Good, Core
  <1>1. /\ M_nextConnId' = M_nextConnId /\ joining' = joining
        /\ M_connections' = M_connections /\ conn' = conn /\ queue' = queue
        /\ closing' = closing /\ late' = late /\ dropped' = dropped /\ touched' = touched
        /\ aborted' = aborted /\ batch' = batch /\ phase' = phase /\ quit' = quit
        /\ server # "alive" /\ server' = "gone"
    BY DEF DestructAcceptor, history, loopVars
  <1>2. TypeOK'
    BY <1>1 DEF TypeOK, DestructAcceptor
  <1>3. ConnsHaveLoops' /\ FunctorsBelong' /\ FunctorsInOrder'
    BY <1>1, FunctorsStay
  <1>4. BatchIsQueued' /\ MapIsComplete' /\ DestructionIsQueued' /\ ClosingBeforeRemoval'
    BY <1>1 DEF BatchIsQueued, MapIsComplete, DestructionIsQueued, ClosingBeforeRemoval,
                Created
  <1>5. RemovalsAreLate' /\ DeadServerWindow'
    BY <1>1 DEF RemovalsAreLate, DeadServerWindow
  <1>6. LoopsAreJoined'
    <2>1. ASSUME NEW l \in IoLoops PROVE Over(l)
      <3>1. CASE server = "pool" /\ joining = NumThreads
        <4>1. l = joining \/ l \in 1 .. joining - 1
          BY <3>1, TcpServerAssumption DEF IoLoops
        <4>. QED  BY <3>1, <4>1 DEF DestructAcceptor, LoopsAreJoined, Over
      <3>2. CASE NumThreads = 0
        BY <3>2 DEF IoLoops
      <3>. QED  BY <3>1, <3>2 DEF DestructAcceptor
    <2>. QED  BY <1>1, <2>1 DEF LoopsAreJoined, Over
  <1>. QED  BY <1>1, <1>2, <1>3, <1>4, <1>5, <1>6

-----------------------------------------------------------------------------
(* The loops.                                                              *)

(* A loop that ends drops its functors; dropped records whose they were.   *)
LEMMA TestQuitStep ==
    ASSUME Good, aborted = "no", NEW l \in Loops, TestQuit(l)
    PROVE  Good'
  <1>. USE DEF Good, Core
  <1>1. /\ server' = server /\ joining' = joining /\ M_nextConnId' = M_nextConnId
        /\ M_connections' = M_connections /\ conn' = conn /\ batch' = batch
        /\ closing' = closing /\ late' = late /\ touched' = touched
        /\ aborted' = aborted /\ quit' = quit
        /\ closing[l] = NoConn /\ batch[l] = 0 /\ phase[l] = "functors"
    BY DEF TestQuit, serverVars, Free
  <1>2. /\ phase' \in [Loops -> {"none", "events", "functors", "ended"}]
        /\ \A m \in Loops : m # l => phase'[m] = phase[m]
    BY DEF TestQuit, TypeOK
  <1>3. \/ queue' = queue /\ dropped' = dropped
        \/ /\ dropped' = dropped \union {c \in Conns : Queued(l, c)}
           /\ queue' = [queue EXCEPT ![l] = <<>>]
    BY DEF TestQuit
  <1>4. /\ queue' \in [Loops -> Seq(Functors)]
        /\ \A m \in Loops : m # l => queue'[m] = queue[m]
        /\ queue'[l] = queue[l] \/ queue'[l] = <<>>
        /\ dropped \subseteq dropped' /\ dropped' \subseteq Conns
    <2>1. <<>> \in Seq(Functors)
      BY EmptySeq
    <2>. QED  BY <1>3, <2>1 DEF TypeOK
  <1>5. Items(<<>>) = {} /\ InOrder(<<>>) /\ Len(<<>>) = 0
    <2>1. Len(<<>>) = 0 /\ 1 .. 0 = {}
      BY EmptySeq
    <2>. QED  BY <2>1 DEF Items, InOrder
  <1>6. \A m \in Loops : Items(queue'[m]) \subseteq Items(queue[m]) /\ InOrder(queue'[m])
    BY <1>4, <1>5 DEF FunctorsInOrder
  <1>7. TypeOK'
    BY <1>1, <1>2, <1>4 DEF TypeOK, TestQuit, acceptVars
  <1>8. ConnsHaveLoops' /\ FunctorsInOrder'
    BY <1>1, <1>6 DEF ConnsHaveLoops, FunctorsInOrder, Created
  <1>9. FunctorsBelong'
    BY <1>1, <1>6 DEF FunctorsBelong, Created
  <1>10. BatchIsQueued'
    <2>1. \A m \in Loops : m # l => batch'[m] <= Len(queue'[m])
      BY <1>1, <1>4 DEF BatchIsQueued
    <2>2. batch'[l] <= Len(queue'[l])
      BY <1>1, <1>4, <1>5 DEF BatchIsQueued
    <2>. QED  BY <2>1, <2>2 DEF BatchIsQueued
  <1>11. ClosingBeforeRemoval'
    BY <1>1, <1>2, <1>6, LoopFacts DEF ClosingBeforeRemoval, Created
  <1>12. MapIsComplete' /\ RemovalsAreLate'
    BY <1>1, <1>6, LoopFacts DEF MapIsComplete, RemovalsAreLate, Created
  <1>13. DestructionIsQueued'
    <2>. SUFFICES ASSUME NEW c \in Created, c \notin dropped', conn[c].state # "kDisconnected",
                         c \notin M_connections
                  PROVE  Destruction(c) \in Items(queue'[conn[c].loop])
      BY <1>1 DEF DestructionIsQueued, Created
    <2>1. c \in Conns /\ conn[c].loop \in Loops
      BY QueueFacts, LoopFacts DEF ConnsHaveLoops
    <2>2. Destruction(c) \in Items(queue[conn[c].loop]) /\ Destruction(c).c = c
      BY <1>4 DEF DestructionIsQueued, Destruction
    <2>3. conn[c].loop = l => Queued(l, c)
      BY <2>1, <2>2, QueueFacts
    <2>. QED  BY <1>3, <1>4, <2>1, <2>2, <2>3
  <1>14. LoopsAreJoined'
    BY <1>1, <1>2, LoopsStayOver DEF Over
  <1>15. DeadServerWindow'
    BY <1>1 DEF DeadServerWindow
  <1>. QED  BY <1>1, <1>7, <1>8, <1>9, <1>10, <1>11, <1>12, <1>13, <1>14, <1>15

(* handleClose(): the connection was up, so that its removal is not queued.*)
LEMMA HandleCloseStep ==
    ASSUME Good, aborted = "no", NEW l \in Loops, NEW c \in Conns, HandleClose(l, c)
    PROVE  Good'
  <1>. USE DEF Good, Core
  <1>1. /\ server' = server /\ joining' = joining /\ M_nextConnId' = M_nextConnId
        /\ M_connections' = M_connections /\ batch' = batch /\ queue' = queue
        /\ late' = late /\ touched' = touched /\ dropped' = dropped
        /\ aborted' = aborted /\ quit' = quit /\ phase' = phase
        /\ phase[l] \in {"events", "functors"} /\ conn[c].loop = l /\ conn[c].state = "kConnected"
    BY DEF HandleClose, serverVars, loopVars, history
  <1>2. /\ conn' \in [Conns -> [state : {"none", "kConnecting", "kConnected", "kDisconnected"},
                                loop : Loops \union {Undefined}]]
        /\ \A d \in Conns : /\ conn'[d].loop = conn[d].loop
                            /\ d # c => conn'[d].state = conn[d].state
        /\ conn'[c].state = "kDisconnected"
    BY DEF HandleClose, TypeOK
  <1>3. /\ closing' \in [Loops -> Conns \union {NoConn}] /\ closing'[l] = c
        /\ \A m \in Loops : m # l => closing'[m] = closing[m]
    BY DEF HandleClose, TypeOK
  <1>4. c \in Created
    BY <1>1 DEF ConnsHaveLoops
  <1>5. TypeOK'
    BY <1>1, <1>2, <1>3 DEF TypeOK, HandleClose, acceptVars
  <1>6. ConnsHaveLoops' /\ FunctorsInOrder' /\ BatchIsQueued'
    BY <1>1, <1>2, <1>4 DEF ConnsHaveLoops, FunctorsInOrder, BatchIsQueued, Created
  <1>7. FunctorsBelong'
    BY <1>1, <1>2, QueueFacts DEF FunctorsBelong, Created
  <1>8. ASSUME NEW x \in Items(queue[Base]) PROVE x.c # c
    BY <1>1, LoopFacts, QueueFacts DEF FunctorsBelong, ConnsHaveLoops
  <1>9. ClosingBeforeRemoval'
    BY <1>1, <1>2, <1>3, <1>4, <1>8, QueueFacts DEF ClosingBeforeRemoval, Created
  <1>10. MapIsComplete'
    BY <1>1, <1>2, <1>3, <1>4, QueueFacts DEF MapIsComplete, Created
  <1>11. DestructionIsQueued'
    BY <1>1, <1>2, QueueFacts DEF DestructionIsQueued, Created
  <1>12. RemovalsAreLate' /\ LoopsAreJoined' /\ DeadServerWindow'
    BY <1>1 DEF RemovalsAreLate, LoopsAreJoined, Over, DeadServerWindow
  <1>. QED  BY <1>1, <1>5, <1>6, <1>7, <1>9, <1>10, <1>11, <1>12

(* removeConnection(): the loop that calls it is not over, so that the     *)
(* server is not gone; the removal is queued once.                         *)
LEMMA RemoveConnectionStep ==
    ASSUME Good, aborted = "no", NEW l \in Loops, RemoveConnection(l)
    PROVE  Good'
  <1>. USE DEF Good, Core
  <1>. DEFINE c == closing[l]
              x == Removal(c)
  <1>1. /\ c \in Created /\ c \in Conns /\ conn[c].loop = l /\ conn[c].state = "kDisconnected"
        /\ phase[l] \in {"events", "functors"} /\ l \in IoLoops
        /\ \A y \in Items(queue[Base]) : y.c # c
    BY QueueFacts DEF RemoveConnection, ClosingBeforeRemoval, ConnsHaveLoops
  <1>2. server # "gone"
    BY <1>1 DEF LoopsAreJoined, Over
  <1>3. /\ server' = server /\ joining' = joining /\ M_nextConnId' = M_nextConnId
        /\ M_connections' = M_connections /\ batch' = batch /\ conn' = conn
        /\ touched' = touched /\ dropped' = dropped
        /\ aborted' = aborted /\ quit' = quit /\ phase' = phase
        /\ late' = IF server = "alive" THEN late ELSE late \union {c}
        /\ queue' = [queue EXCEPT ![Base] = Append(queue[Base], x)]
        /\ closing' = [closing EXCEPT ![l] = NoConn]
    BY <1>2 DEF RemoveConnection, serverVars
  <1>4. x \in Functors /\ x.c = c /\ x.f = "removeConnectionInLoop"
    BY <1>1 DEF Functors, Removal
  <1>5. /\ closing' \in [Loops -> Conns \union {NoConn}] /\ closing'[l] = NoConn
        /\ \A m \in Loops : m # l => closing'[m] = closing[m]
    BY <1>3 DEF TypeOK
  <1>6. Base \in Loops /\ queue[Base] \in Seq(Functors) /\ InOrder(queue[Base])
    BY LoopFacts, QueueFacts DEF FunctorsInOrder
  <1>. HIDE DEF x
  <1>7. /\ Append(queue[Base], x) \in Seq(Functors)
        /\ Len(queue[Base]) \in Nat /\ Len(Append(queue[Base], x)) = Len(queue[Base]) + 1
        /\ Items(Append(queue[Base], x)) = Items(queue[Base]) \union {x}
        /\ InOrder(Append(queue[Base], x))
    BY <1>1, <1>4, <1>6, AppendFacts
  <1>8. /\ queue' \in [Loops -> Seq(Functors)]
        /\ \A m \in Loops : m # Base => queue'[m] = queue[m]
        /\ Items(queue'[Base]) = Items(queue[Base]) \union {x}
        /\ InOrder(queue'[Base]) /\ Len(queue'[Base]) = Len(queue[Base]) + 1
    BY <1>3, <1>6, <1>7 DEF TypeOK
  <1>. HIDE DEF c
  <1>9. late \subseteq late' /\ late' \subseteq Conns /\ (server # "alive" => c \in late')
    BY <1>1, <1>3 DEF TypeOK
  <1>10. TypeOK'
    BY <1>3, <1>5, <1>8, <1>9 DEF TypeOK, RemoveConnection, acceptVars
  <1>11. ConnsHaveLoops' /\ FunctorsInOrder'
    BY <1>3, <1>8 DEF ConnsHaveLoops, FunctorsInOrder, Created
  <1>12. FunctorsBelong'
    BY <1>1, <1>3, <1>4, <1>8 DEF FunctorsBelong, Created
  <1>13. BatchIsQueued'
    BY <1>3, <1>7, <1>8 DEF BatchIsQueued, TypeOK
  <1>14. ClosingBeforeRemoval'
    <2>. SUFFICES ASSUME NEW m \in Loops, closing'[m] # NoConn
                  PROVE  /\ closing'[m] \in Created' /\ conn'[closing'[m]].loop = m
                         /\ conn'[closing'[m]].state = "kDisconnected"
                         /\ phase'[m] \in {"events", "functors"}
                         /\ \A y \in Items(queue'[Base]) : y.c # closing'[m]
      BY DEF ClosingBeforeRemoval
    <2>1. m # l /\ closing'[m] = closing[m]
      BY <1>5
    <2>2. closing[m] # c
      BY <1>1, <2>1 DEF ClosingBeforeRemoval
    <2>. QED  BY <1>3, <1>4, <1>8, <2>1, <2>2 DEF ClosingBeforeRemoval, Created
  <1>15. MapIsComplete'
    BY <1>3, <1>4, <1>5, <1>8 DEF MapIsComplete, Created, c, RemoveConnection
  <1>16. DestructionIsQueued'
    BY <1>3, <1>8, LoopFacts DEF DestructionIsQueued, Created, ConnsHaveLoops
  <1>17. RemovalsAreLate' /\ DeadServerWindow'
    BY <1>3, <1>4, <1>8, <1>9 DEF RemovalsAreLate, DeadServerWindow
  <1>18. LoopsAreJoined'
    BY <1>3 DEF LoopsAreJoined, Over
  <1>. QED  BY <1>3, <1>10, <1>11, <1>12, <1>13, <1>14, <1>15, <1>16, <1>17, <1>18

-----------------------------------------------------------------------------
(* The functors.                                                           *)

LEMMA ClosingStays ==
    ASSUME TypeOK, ClosingBeforeRemoval,
           closing' = closing, phase' = phase, M_nextConnId' = M_nextConnId,
           \A d \in Conns :
              /\ conn'[d].loop = conn[d].loop
              /\ conn[d].state = "kDisconnected" => conn'[d].state = "kDisconnected",
           Items(queue'[Base]) \subseteq Items(queue[Base])
    PROVE  ClosingBeforeRemoval'
  <1>. SUFFICES ASSUME NEW l \in Loops, closing[l] # NoConn
                PROVE  /\ closing[l] \in Created
                       /\ conn'[closing[l]].loop = l
                       /\ conn'[closing[l]].state = "kDisconnected"
                       /\ phase[l] \in {"events", "functors"}
                       /\ \A x \in Items(queue'[Base]) : x.c # closing[l]
    BY DEF ClosingBeforeRemoval, Created
  <1>1. closing[l] \in Created /\ closing[l] \in Conns
    BY QueueFacts DEF ClosingBeforeRemoval
  <1>. QED  BY <1>1 DEF ClosingBeforeRemoval

(* connectEstablished(): its connection waits for it in kConnecting.       *)
LEMMA ConnectEstablishedStep ==
    ASSUME Good, aborted = "no", NEW l \in Loops, NEW c \in Conns, ConnectEstablished(l, c)
    PROVE  Good'
  <1>. USE DEF Good, Core
  <1>. DEFINE q == Tail(queue[l])
              x == [f |-> "connectEstablished", c |-> c]
  <1>1. /\ q \in Seq(Functors)
        /\ Items(queue[l]) = Items(q) \union {x}
        /\ \A y \in Items(q) : y.c = c => y.f = "connectDestroyed"
        /\ InOrder(q)
        /\ batch' \in [Loops -> Nat]
        /\ \A m \in Loops : m # l => batch'[m] = batch[m]
        /\ batch'[l] <= Len(q)
    BY RunsFacts DEF ConnectEstablished
  <1>2. x.c = c /\ x.f = "connectEstablished" /\ x \in Items(queue[l])
    BY <1>1
  <1>3. c \in Created /\ conn[c].state = "kConnecting" /\ conn[c].loop = l
    BY <1>2 DEF FunctorsBelong
  <1>4. /\ server' = server /\ joining' = joining /\ M_nextConnId' = M_nextConnId
        /\ M_connections' = M_connections /\ closing' = closing
        /\ late' = late /\ touched' = touched /\ dropped' = dropped
        /\ aborted' = aborted /\ quit' = quit /\ phase' = phase
        /\ conn' = [conn EXCEPT ![c].state = "kConnected"]
        /\ queue' = [queue EXCEPT ![l] = q]
    BY <1>3 DEF ConnectEstablished, serverVars, history
  <1>. HIDE DEF q, x
  <1>5. /\ queue' \in [Loops -> Seq(Functors)] /\ queue'[l] = q
        /\ \A m \in Loops : m # l => queue'[m] = queue[m]
    BY <1>1, <1>4 DEF TypeOK
  <1>6. /\ conn' \in [Conns -> [state : {"none", "kConnecting", "kConnected", "kDisconnected"},
                                loop : Loops \union {Undefined}]]
        /\ \A d \in Conns : /\ conn'[d].loop = conn[d].loop
                            /\ d # c => conn'[d].state = conn[d].state
        /\ conn'[c].state = "kConnected"
    BY <1>4 DEF TypeOK
  <1>7. TypeOK'
    BY <1>1, <1>4, <1>5, <1>6 DEF TypeOK, ConnectEstablished, acceptVars
  <1>8. \A m \in Loops : Items(queue'[m]) \subseteq Items(queue[m])
    BY <1>1, <1>5
  <1>9. ConnsHaveLoops' /\ FunctorsInOrder' /\ BatchIsQueued'
    BY <1>1, <1>3, <1>4, <1>5, <1>6
    DEF ConnsHaveLoops, FunctorsInOrder, BatchIsQueued, Created
  <1>10. FunctorsBelong'
    <2>. SUFFICES ASSUME NEW m \in Loops, NEW y \in Items(queue'[m])
                  PROVE  /\ y.c \in Created
                         /\ IF y.f = "removeConnectionInLoop"
                            THEN m = Base /\ conn'[y.c].state = "kDisconnected"
                            ELSE m = conn'[y.c].loop
                         /\ y.f = "connectEstablished" => conn'[y.c].state = "kConnecting"
      BY <1>4 DEF FunctorsBelong, Created
    <2>1. y \in Items(queue[m])
      BY <1>8
    <2>2. y.c = c => y.f = "connectDestroyed"
      <3>1. CASE m = l
        BY <1>1, <1>5, <3>1
      <3>2. CASE m # l
        BY <1>3, <2>1, <3>2 DEF FunctorsBelong
      <3>. QED  BY <3>1, <3>2
    <2>. QED  BY <1>3, <1>6, <2>1, <2>2, QueueFacts DEF FunctorsBelong
  <1>11. ClosingBeforeRemoval'
    BY <1>3, <1>4, <1>6, <1>8, LoopFacts, ClosingStays
  <1>12. MapIsComplete' /\ RemovalsAreLate'
    BY <1>3, <1>4, <1>6, <1>8, LoopFacts, QueueFacts DEF MapIsComplete, RemovalsAreLate, Created
  <1>13. DestructionIsQueued'
    <2>. SUFFICES ASSUME NEW d \in Created, d \notin dropped, conn'[d].state # "kDisconnected",
                         d \notin M_connections
                  PROVE  Destruction(d) \in Items(queue'[conn[d].loop])
      BY <1>4, <1>6, QueueFacts DEF DestructionIsQueued, Created
    <2>1. d \in Conns /\ conn[d].loop \in Loops /\ conn[d].state # "kDisconnected"
      BY <1>3, <1>6, QueueFacts, LoopFacts DEF ConnsHaveLoops
    <2>2. Destruction(d) \in Items(queue[conn[d].loop]) /\ Destruction(d) # x
      BY <1>2, <2>1 DEF DestructionIsQueued, Destruction
    <2>. QED  BY <1>1, <1>5, <2>1, <2>2
  <1>14. LoopsAreJoined' /\ DeadServerWindow'
    BY <1>4 DEF LoopsAreJoined, Over, DeadServerWindow
  <1>. QED  BY <1>4, <1>7, <1>9, <1>10, <1>11, <1>12, <1>13, <1>14

(* connectDestroyed(): the connection is down from here on.                *)
LEMMA ConnectDestroyedStep ==
    ASSUME Good, aborted = "no", NEW l \in Loops, NEW c \in Conns, ConnectDestroyed(l, c)
    PROVE  Good'
  <1>. USE DEF Good, Core
  <1>. DEFINE q == Tail(queue[l])
              x == Destruction(c)
  <1>1. /\ q \in Seq(Functors)
        /\ Items(queue[l]) = Items(q) \union {x}
        /\ \A y \in Items(q) : y.c = c => y.f = "connectDestroyed"
        /\ InOrder(q)
        /\ batch' \in [Loops -> Nat]
        /\ \A m \in Loops : m # l => batch'[m] = batch[m]
        /\ batch'[l] <= Len(q)
    BY RunsFacts DEF ConnectDestroyed, Destruction
  <1>2. x.c = c /\ x.f = "connectDestroyed" /\ x \in Items(queue[l])
    BY <1>1 DEF Destruction
  <1>3. c \in Created /\ conn[c].loop = l
    BY <1>2 DEF FunctorsBelong
  <1>4. /\ server' = server /\ joining' = joining /\ M_nextConnId' = M_nextConnId
        /\ M_connections' = M_connections /\ closing' = closing
        /\ late' = late /\ touched' = touched /\ dropped' = dropped
        /\ aborted' = aborted /\ quit' = quit /\ phase' = phase
        /\ conn' = [conn EXCEPT ![c].state = "kDisconnected"]
        /\ queue' = [queue EXCEPT ![l] = q]
    BY <1>3 DEF ConnectDestroyed, serverVars, history
  <1>. HIDE DEF q, x
  <1>5. /\ queue' \in [Loops -> Seq(Functors)] /\ queue'[l] = q
        /\ \A m \in Loops : m # l => queue'[m] = queue[m]
    BY <1>1, <1>4 DEF TypeOK
  <1>6. /\ conn' \in [Conns -> [state : {"none", "kConnecting", "kConnected", "kDisconnected"},
                                loop : Loops \union {Undefined}]]
        /\ \A d \in Conns : /\ conn'[d].loop = conn[d].loop
                            /\ d # c => conn'[d].state = conn[d].state
        /\ conn'[c].state = "kDisconnected"
    BY <1>4 DEF TypeOK
  <1>7. TypeOK'
    BY <1>1, <1>4, <1>5, <1>6 DEF TypeOK, ConnectDestroyed, acceptVars
  <1>8. \A m \in Loops : Items(queue'[m]) \subseteq Items(queue[m])
    BY <1>1, <1>5
  <1>9. ConnsHaveLoops' /\ FunctorsInOrder' /\ BatchIsQueued'
    BY <1>1, <1>3, <1>4, <1>5, <1>6
    DEF ConnsHaveLoops, FunctorsInOrder, BatchIsQueued, Created
  <1>10. FunctorsBelong'
    <2>. SUFFICES ASSUME NEW m \in Loops, NEW y \in Items(queue'[m])
                  PROVE  /\ y.c \in Created
                         /\ IF y.f = "removeConnectionInLoop"
                            THEN m = Base /\ conn'[y.c].state = "kDisconnected"
                            ELSE m = conn'[y.c].loop
                         /\ y.f = "connectEstablished" => conn'[y.c].state = "kConnecting"
      BY <1>4 DEF FunctorsBelong, Created
    <2>1. y \in Items(queue[m])
      BY <1>8
    <2>2. y.c = c => y.f # "connectEstablished"
      BY <1>1, <1>3, <1>5, <2>1 DEF FunctorsBelong
    <2>. QED  BY <1>3, <1>6, <2>1, <2>2, QueueFacts DEF FunctorsBelong
  <1>11. ClosingBeforeRemoval'
    BY <1>3, <1>4, <1>6, <1>8, LoopFacts, ClosingStays
  <1>12. MapIsComplete' /\ RemovalsAreLate'
    BY <1>3, <1>4, <1>6, <1>8, LoopFacts, QueueFacts DEF MapIsComplete, RemovalsAreLate, Created
  <1>13. DestructionIsQueued'
    <2>. SUFFICES ASSUME NEW d \in Created, d \notin dropped, conn'[d].state # "kDisconnected",
                         d \notin M_connections
                  PROVE  Destruction(d) \in Items(queue'[conn[d].loop])
      BY <1>4, <1>6, QueueFacts DEF DestructionIsQueued, Created
    <2>1. d \in Conns /\ d # c /\ conn[d].loop \in Loops /\ conn[d].state # "kDisconnected"
      BY <1>3, <1>6, QueueFacts, LoopFacts DEF ConnsHaveLoops
    <2>2. Destruction(d) \in Items(queue[conn[d].loop]) /\ Destruction(d) # x
      BY <1>2, <2>1 DEF DestructionIsQueued, Destruction
    <2>. QED  BY <1>1, <1>5, <2>1, <2>2
  <1>14. LoopsAreJoined' /\ DeadServerWindow'
    BY <1>4 DEF LoopsAreJoined, Over, DeadServerWindow
  <1>. QED  BY <1>4, <1>7, <1>9, <1>10, <1>11, <1>12, <1>13, <1>14

(* removeConnectionInLoop(): the connection is in the map of a server that *)
(* lives, and late for one that is gone.                                   *)
LEMMA RemoveConnectionInLoopStep ==
    ASSUME Good, aborted = "no", NEW c \in Conns, RemoveConnectionInLoop(c)
    PROVE  Good'
  <1>. USE DEF Good, Core
  <1>. DEFINE q == Tail(queue[Base])
              x == Removal(c)
              d == Destruction(c)
              m == conn[c].loop
  <1>1. /\ q \in Seq(Functors)
        /\ Items(queue[Base]) = Items(q) \union {x}
        /\ \A y \in Items(q) : y.c = c => y.f = "connectDestroyed"
        /\ InOrder(q)
        /\ batch' \in [Loops -> Nat]
        /\ \A l \in Loops : l # Base => batch'[l] = batch[l]
        /\ batch'[Base] <= Len(q)
    BY RunsFacts, LoopFacts DEF RemoveConnectionInLoop, Removal
  <1>2. x.c = c /\ x.f = "removeConnectionInLoop" /\ x \in Items(queue[Base])
    BY <1>1 DEF Removal
  <1>3. d \in Functors /\ d.c = c /\ d.f = "connectDestroyed"
    BY DEF Destruction, Functors
  <1>4. /\ c \in Created /\ conn[c].state = "kDisconnected"
        /\ m \in IoLoops /\ m \in Loops /\ m # Base
    BY <1>2, LoopFacts DEF FunctorsBelong, ConnsHaveLoops
  <1>5. \A y \in Items(q) : y.c # c
    <2>. SUFFICES ASSUME NEW y \in Items(q), y.c = c PROVE FALSE
      OBVIOUS
    <2>1. y \in Items(queue[Base]) /\ y.f = "connectDestroyed"
      BY <1>1
    <2>. QED  BY <1>4, <2>1, LoopFacts DEF FunctorsBelong
  <1>6. /\ server' = server /\ joining' = joining /\ M_nextConnId' = M_nextConnId
        /\ closing' = closing /\ conn' = conn
        /\ late' = late /\ dropped' = dropped /\ quit' = quit /\ phase' = phase
    BY DEF RemoveConnectionInLoop
  <1>7. server \in {"alive", "gone"}
    BY DEF RemoveConnectionInLoop, Runs, Free
  <1>8. server = "alive" => c \in M_connections
    BY <1>2 DEF MapIsComplete
  <1>9. /\ touched' \subseteq late
        /\ aborted' \in {"no", "gone"}
        /\ M_connections' \subseteq M_connections
        /\ M_connections \ {c} \subseteq M_connections'
    <2>1. CASE server = "gone"
      <3>1. c \in late
        BY <1>2, <2>1 DEF RemovalsAreLate
      <3>. QED  BY <2>1, <3>1 DEF RemoveConnectionInLoop, DeadServerWindow
    <2>2. CASE server = "alive"
      BY <1>8, <2>2 DEF RemoveConnectionInLoop, DeadServerWindow
    <2>. QED  BY <1>7, <2>1, <2>2
  <1>10. \/ queue' = [queue EXCEPT ![Base] = q]
         \/ queue' = [queue EXCEPT ![Base] = q, ![m] = Append(@, d)]
    BY DEF RemoveConnectionInLoop, Destruction
  <1>11. queue[m] \in Seq(Functors) /\ InOrder(queue[m]) /\ Len(queue[m]) \in Nat
    BY <1>4, QueueFacts DEF FunctorsInOrder
  <1>. HIDE DEF q, x, d, m
  <1>12. /\ Append(queue[m], d) \in Seq(Functors)
         /\ Len(Append(queue[m], d)) = Len(queue[m]) + 1
         /\ Items(Append(queue[m], d)) = Items(queue[m]) \union {d}
         /\ InOrder(Append(queue[m], d))
    BY <1>3, <1>11, AppendFacts
  <1>13. /\ queue' \in [Loops -> Seq(Functors)] /\ queue'[Base] = q
         /\ \A l \in Loops : l # Base /\ l # m => queue'[l] = queue[l]
         /\ queue'[m] = queue[m] \/ queue'[m] = Append(queue[m], d)
    <2>1. queue \in [Loops -> Seq(Functors)] /\ Base \in Loops
      BY LoopFacts DEF TypeOK
    <2>2. CASE queue' = [queue EXCEPT ![Base] = q]
      BY <1>1, <1>4, <2>1, <2>2
    <2>3. CASE queue' = [queue EXCEPT ![Base] = q, ![m] = Append(@, d)]
      BY <1>1, <1>4, <1>12, <2>1, <2>3
    <2>. QED  BY <1>10, <2>2, <2>3
  <1>14. ASSUME NEW l \in Loops, l # Base
         PROVE  /\ Items(queue[l]) \subseteq Items(queue'[l])
                /\ Items(queue'[l]) \subseteq Items(queue[l]) \union {d}
                /\ l # m => queue'[l] = queue[l]
                /\ InOrder(queue'[l]) /\ Len(queue[l]) <= Len(queue'[l])
    <2>1. CASE l = m
      <3>1. CASE queue'[m] = queue[m]
        BY <1>11, <2>1, <3>1
      <3>2. CASE queue'[m] = Append(queue[m], d)
        <4>1. Len(queue[m]) <= Len(queue'[m])
          BY <1>11, <1>12, <3>2
        <4>2. Items(queue'[m]) = Items(queue[m]) \union {d} /\ InOrder(queue'[m])
          BY <1>12, <3>2
        <4>. QED  BY <2>1, <4>1, <4>2
      <3>. QED  BY <1>13, <3>1, <3>2
    <2>2. CASE l # m
      <3>1. Len(queue[l]) \in Nat /\ InOrder(queue[l])
        BY QueueFacts DEF FunctorsInOrder
      <3>. QED  BY <1>13, <1>14, <2>2, <3>1
    <2>. QED  BY <2>1, <2>2
  <1>15. TypeOK'
    BY <1>1, <1>6, <1>9, <1>13 DEF TypeOK, RemoveConnectionInLoop, acceptVars
  <1>16. ConnsHaveLoops' /\ FunctorsInOrder'
    BY <1>1, <1>6, <1>13, <1>14 DEF ConnsHaveLoops, FunctorsInOrder, Created
  <1>17. FunctorsBelong'
    <2>. SUFFICES ASSUME NEW l \in Loops, NEW y \in Items(queue'[l])
                  PROVE  /\ y.c \in Created
                         /\ IF y.f = "removeConnectionInLoop"
                            THEN l = Base /\ conn[y.c].state = "kDisconnected"
                            ELSE l = conn[y.c].loop
                         /\ y.f = "connectEstablished" => conn[y.c].state = "kConnecting"
      BY <1>6 DEF FunctorsBelong, Created
    <2>1. CASE y \in Items(queue[l])
      BY <2>1 DEF FunctorsBelong
    <2>2. CASE l = m /\ y = d
      BY <1>3, <1>4, <2>2 DEF m
    <2>. QED  BY <1>1, <1>13, <1>14, <2>1, <2>2
  <1>18. BatchIsQueued'
    <2>1. ASSUME NEW l \in Loops, l # Base PROVE batch'[l] <= Len(queue'[l])
      <3>1. /\ batch'[l] = batch[l] /\ batch[l] \in Nat /\ batch[l] <= Len(queue[l])
            /\ Len(queue[l]) \in Nat /\ Len(queue[l]) <= Len(queue'[l])
        BY <1>1, <1>14, <2>1, QueueFacts DEF BatchIsQueued, TypeOK
      <3>2. Len(queue'[l]) \in Nat
        BY <1>13
      <3>. QED  BY <3>1, <3>2
    <2>. QED  BY <1>1, <1>13, <2>1 DEF BatchIsQueued
  <1>19. ClosingBeforeRemoval'
    BY <1>1, <1>6, <1>13, ClosingStays
  <1>20. MapIsComplete'
    <2>. SUFFICES ASSUME server = "alive" PROVE MapIsComplete'
      BY <1>6 DEF MapIsComplete
    <2>1. \A l \in Loops : closing[l] # c \/ closing[l] = NoConn
      BY <1>2 DEF ClosingBeforeRemoval
    <2>. QED  BY <1>1, <1>4, <1>5, <1>6, <1>9, <1>13, <2>1 DEF MapIsComplete, Created
  <1>21. DestructionIsQueued'
    <2>. SUFFICES ASSUME NEW e \in Created, e \notin dropped, conn[e].state # "kDisconnected",
                         e \notin M_connections'
                  PROVE  Destruction(e) \in Items(queue'[conn[e].loop])
      BY <1>6 DEF DestructionIsQueued, Created
    <2>1. e # c /\ e \notin M_connections
      BY <1>4, <1>9
    <2>2. conn[e].loop \in Loops /\ conn[e].loop # Base
      BY QueueFacts, LoopFacts DEF ConnsHaveLoops
    <2>. QED  BY <1>14, <2>1, <2>2 DEF DestructionIsQueued
  <1>22. RemovalsAreLate' /\ DeadServerWindow'
    BY <1>1, <1>6, <1>9, <1>13 DEF RemovalsAreLate, DeadServerWindow
  <1>23. LoopsAreJoined'
    BY <1>6 DEF LoopsAreJoined, Over
  <1>. QED  BY <1>9, <1>15, <1>16, <1>17, <1>18, <1>19, <1>20, <1>21, <1>22, <1>23

(* ~TcpServer(): connectDestroyed() takes the place of the map.            *)
LEMMA DestroyConnectionStep ==
    ASSUME Good, aborted = "no", NEW c \in Conns, DestroyConnection(c)
    PROVE  Good'
  <1>. USE DEF Good, Core
  <1>. DEFINE d == Destruction(c)
              m == conn[c].loop
  <1>1. d \in Functors /\ d.c = c /\ d.f = "connectDestroyed"
    BY DEF Destruction, Functors
  <1>2. c \in Created /\ m \in IoLoops /\ m \in Loops /\ m # Base
    BY LoopFacts DEF DestroyConnection, TypeOK, ConnsHaveLoops, Created
  <1>3. /\ server' = server /\ joining' = joining /\ M_nextConnId' = M_nextConnId
        /\ closing' = closing /\ conn' = conn /\ touched' = touched /\ aborted' = aborted
        /\ late' = late /\ dropped' = dropped /\ quit' = quit /\ phase' = phase
        /\ batch' = batch /\ M_connections' = M_connections \ {c}
        /\ queue' = [queue EXCEPT ![m] = Append(queue[m], d)]
        /\ server = "connections"
    BY DEF DestroyConnection, Destruction, history
  <1>4. queue[m] \in Seq(Functors) /\ InOrder(queue[m]) /\ Len(queue[m]) \in Nat
    BY <1>2, QueueFacts DEF FunctorsInOrder
  <1>. HIDE DEF d, m
  <1>5. /\ Append(queue[m], d) \in Seq(Functors)
        /\ Len(Append(queue[m], d)) = Len(queue[m]) + 1
        /\ Items(Append(queue[m], d)) = Items(queue[m]) \union {d}
        /\ InOrder(Append(queue[m], d))
    BY <1>1, <1>4, AppendFacts
  <1>6. /\ queue' \in [Loops -> Seq(Functors)]
        /\ \A l \in Loops : l # m => queue'[l] = queue[l]
        /\ Items(queue'[m]) = Items(queue[m]) \union {d}
        /\ InOrder(queue'[m]) /\ Len(queue'[m]) = Len(queue[m]) + 1
    BY <1>2, <1>3, <1>5 DEF TypeOK
  <1>7. queue'[Base] = queue[Base]
    BY <1>2, <1>6, LoopFacts
  <1>8. TypeOK'
    BY <1>3, <1>6 DEF TypeOK, DestroyConnection, acceptVars
  <1>9. ConnsHaveLoops' /\ FunctorsInOrder'
    BY <1>3, <1>6 DEF ConnsHaveLoops, FunctorsInOrder, Created
  <1>10. FunctorsBelong'
    <2>. SUFFICES ASSUME NEW l \in Loops, NEW y \in Items(queue'[l])
                  PROVE  /\ y.c \in Created
                         /\ IF y.f = "removeConnectionInLoop"
                            THEN l = Base /\ conn[y.c].state = "kDisconnected"
                            ELSE l = conn[y.c].loop
                         /\ y.f = "connectEstablished" => conn[y.c].state = "kConnecting"
      BY <1>3 DEF FunctorsBelong, Created
    <2>1. CASE y \in Items(queue[l])
      BY <2>1 DEF FunctorsBelong
    <2>2. CASE l = m /\ y = d
      BY <1>1, <1>2, <2>2 DEF m
    <2>. QED  BY <1>6, <2>1, <2>2
  <1>11. BatchIsQueued'
    BY <1>3, <1>4, <1>6 DEF BatchIsQueued, TypeOK
  <1>12. ClosingBeforeRemoval' /\ RemovalsAreLate'
    BY <1>3, <1>7 DEF ClosingBeforeRemoval, RemovalsAreLate, Created
  <1>13. MapIsComplete' /\ LoopsAreJoined' /\ DeadServerWindow'
    BY <1>3 DEF MapIsComplete, LoopsAreJoined, Over, DeadServerWindow
  <1>14. DestructionIsQueued'
    <2>. SUFFICES ASSUME NEW e \in Created, e \notin dropped, conn[e].state # "kDisconnected",
                         e \notin M_connections'
                  PROVE  Destruction(e) \in Items(queue'[conn[e].loop])
      BY <1>3 DEF DestructionIsQueued, Created
    <2>1. CASE e = c
      BY <1>6, <2>1 DEF d, m
    <2>2. CASE e # c
      <3>1. e \notin M_connections
        BY <1>3, <2>2
      <3>2. conn[e].loop \in Loops
        BY QueueFacts, LoopFacts DEF ConnsHaveLoops
      <3>. QED  BY <1>6, <3>1, <3>2 DEF DestructionIsQueued
    <2>. QED  BY <2>1, <2>2
  <1>. QED  BY <1>3, <1>8, <1>9, <1>10, <1>11, <1>12, <1>13, <1>14

-----------------------------------------------------------------------------
(* newConnection(): connectEstablished is the first functor about the new  *)
(* connection.                                                             *)

LEMMA NewConnectionStep ==
    ASSUME Good, aborted = "no", NEW c \in Conns, NewConnection(c), NumThreads # 0
    PROVE  Good'
  <1>. USE DEF Good, Core
  <1>. DEFINE m == M_next + 1
              x == [f |-> "connectEstablished", c |-> c]
  <1>1. /\ m \in IoLoops /\ m \in Loops /\ m # Base
        /\ M_next' \in Nat /\ M_next' < NumThreads
    BY TcpServerAssumption DEF NewConnection, TypeOK, AdvanceNext, IoLoops, Loops, Base
  <1>2. /\ c = M_nextConnId /\ c \notin Created /\ Created' = Created \union {c}
        /\ M_nextConnId' \in 1 .. MaxConns + 1
    BY TcpServerAssumption DEF NewConnection, TypeOK, Created, Conns
  <1>3. /\ server' = server /\ joining' = joining
        /\ closing' = closing /\ touched' = touched /\ aborted' = aborted
        /\ late' = late /\ dropped' = dropped /\ quit' = quit /\ phase' = phase
        /\ batch' = batch /\ M_connections' = M_connections \union {c}
        /\ M_listenning' = M_listenning /\ M_idleFd' = M_idleFd
        /\ conn' = [conn EXCEPT ![c] = [state |-> "kConnecting", loop |-> m]]
        /\ queue' = [queue EXCEPT ![m] = Append(queue[m], x)]
        /\ server = "alive"
    <2>1. GetNextLoop = {m} /\ m \in IoLoops
      BY <1>1, TcpServerAssumption DEF GetNextLoop
    <2>. HIDE DEF m
    <2>. QED  BY <2>1 DEF NewConnection, history, Readable
  <1>4. peers' \in 0 .. connected' /\ connected' \in 0 .. MaxConns
    BY TcpServerAssumption DEF NewConnection, TypeOK, Readable
  <1>5. x \in Functors /\ x.c = c /\ x.f = "connectEstablished"
    BY DEF Functors
  <1>6. /\ queue[m] \in Seq(Functors) /\ InOrder(queue[m]) /\ Len(queue[m]) \in Nat
        /\ \A l \in Loops : \A y \in Items(queue[l]) : y.c # c
    BY <1>1, <1>2, QueueFacts DEF FunctorsInOrder, FunctorsBelong
  <1>. HIDE DEF m, x
  <1>7. /\ Append(queue[m], x) \in Seq(Functors)
        /\ Len(Append(queue[m], x)) = Len(queue[m]) + 1
        /\ Items(Append(queue[m], x)) = Items(queue[m]) \union {x}
        /\ InOrder(Append(queue[m], x))
    BY <1>1, <1>5, <1>6, AppendFacts
  <1>8. /\ queue' \in [Loops -> Seq(Functors)]
        /\ \A l \in Loops : l # m => queue'[l] = queue[l]
        /\ Items(queue'[m]) = Items(queue[m]) \union {x}
        /\ InOrder(queue'[m]) /\ Len(queue'[m]) = Len(queue[m]) + 1
    BY <1>1, <1>3, <1>7 DEF TypeOK
  <1>9. queue'[Base] = queue[Base]
    BY <1>1, <1>8, LoopFacts
  <1>10. /\ conn' \in [Conns -> [state : {"none", "kConnecting", "kConnected", "kDisconnected"},
                                 loop : Loops \union {Undefined}]]
         /\ \A d \in Conns : d # c => conn'[d] = conn[d]
         /\ conn'[c].state = "kConnecting" /\ conn'[c].loop = m
    BY <1>1, <1>3 DEF TypeOK
  <1>11. TypeOK'
    <2>1. M_connections' \subseteq 1 .. M_nextConnId' - 1
      BY <1>2, <1>3 DEF Created, TypeOK
    <2>. QED  BY <1>1, <1>2, <1>3, <1>4, <1>8, <1>10, <2>1 DEF TypeOK
  <1>12. ConnsHaveLoops' /\ FunctorsInOrder'
    BY <1>1, <1>2, <1>8, <1>10 DEF ConnsHaveLoops, FunctorsInOrder
  <1>13. FunctorsBelong'
    <2>. SUFFICES ASSUME NEW l \in Loops, NEW y \in Items(queue'[l])
                  PROVE  /\ y.c \in Created \union {c}
                         /\ IF y.f = "removeConnectionInLoop"
                            THEN l = Base /\ conn'[y.c].state = "kDisconnected"
                            ELSE l = conn'[y.c].loop
                         /\ y.f = "connectEstablished" => conn'[y.c].state = "kConnecting"
      BY <1>2 DEF FunctorsBelong
    <2>1. CASE y \in Items(queue[l])
      <3>1. y.c # c /\ y.c \in Conns
        BY <1>6, <2>1, QueueFacts
      <3>. QED  BY <1>10, <2>1, <3>1 DEF FunctorsBelong
    <2>2. CASE l = m /\ y = x
      BY <1>5, <1>10, <2>2
    <2>. QED  BY <1>8, <2>1, <2>2
  <1>14. BatchIsQueued'
    BY <1>3, <1>6, <1>8 DEF BatchIsQueued, TypeOK
  <1>15. ClosingBeforeRemoval'
    <2>. SUFFICES ASSUME NEW l \in Loops, closing[l] # NoConn
                  PROVE  /\ closing[l] \in Created \union {c}
                         /\ conn'[closing[l]].loop = l
                         /\ conn'[closing[l]].state = "kDisconnected"
                         /\ phase[l] \in {"events", "functors"}
                         /\ \A y \in Items(queue[Base]) : y.c # closing[l]
      BY <1>2, <1>3, <1>9 DEF ClosingBeforeRemoval
    <2>1. closing[l] \in Created /\ closing[l] \in Conns /\ closing[l] # c
      BY <1>2, QueueFacts DEF ClosingBeforeRemoval
    <2>. QED  BY <1>10, <2>1 DEF ClosingBeforeRemoval
  <1>16. MapIsComplete'
    <2>1. \A d \in Created : d \in Conns /\ conn'[d] = conn[d]
      BY <1>2, <1>10, QueueFacts
    <2>. QED  BY <1>2, <1>3, <1>9, <2>1 DEF MapIsComplete
  <1>17. DestructionIsQueued'
    <2>. SUFFICES ASSUME NEW e \in Created, e \notin dropped, conn'[e].state # "kDisconnected",
                         e \notin M_connections
                  PROVE  Destruction(e) \in Items(queue'[conn'[e].loop])
      BY <1>2, <1>3 DEF DestructionIsQueued
    <2>1. conn'[e] = conn[e] /\ conn[e].loop \in Loops
      BY <1>2, <1>10, QueueFacts, LoopFacts DEF ConnsHaveLoops
    <2>2. Destruction(e) \in Items(queue[conn[e].loop])
      BY <2>1 DEF DestructionIsQueued
    <2>. QED  BY <1>8, <2>1, <2>2
  <1>18. RemovalsAreLate' /\ LoopsAreJoined' /\ DeadServerWindow'
    BY <1>3 DEF RemovalsAreLate, LoopsAreJoined, Over, DeadServerWindow
  <1>. QED
    BY <1>3, <1>11, <1>12, <1>13, <1>14, <1>15, <1>16, <1>17, <1>18

(* Without I/O loops the program ends here, with the connection in the map.*)
LEMMA NewConnectionUndefined ==
    ASSUME Good, aborted = "no", NEW c \in Conns, NewConnection(c), NumThreads = 0
    PROVE  /\ TypeOK' /\ DestructedDisconnected' /\ DeadServerWindow'
           /\ aborted' = "getNextLoop"
  <1>. USE DEF Good, Core
  <1>1. /\ server' = server /\ joining' = joining
        /\ closing' = closing /\ touched' = touched /\ aborted' = "getNextLoop"
        /\ late' = late /\ dropped' = dropped /\ quit' = quit /\ phase' = phase
        /\ batch' = batch /\ M_connections' = M_connections \union {c}
        /\ M_listenning' = M_listenning /\ M_idleFd' = M_idleFd
    BY DEF NewConnection, history
  <1>2. /\ c = M_nextConnId /\ c \notin Created /\ Created' = Created \union {c}
        /\ M_nextConnId' \in 1 .. MaxConns + 1
    BY TcpServerAssumption DEF NewConnection, TypeOK, Created, Conns
  <1>3. PICK l \in GetNextLoop :
           /\ conn' = [conn EXCEPT ![c] = [state |-> "kConnecting", loop |-> l]]
           /\ queue' = IF l \in IoLoops
                       THEN [queue EXCEPT ![l] =
                                Append(@, [f |-> "connectEstablished", c |-> c])]
                       ELSE queue
    BY DEF NewConnection
  <1>4. l \in Loops \union {Undefined} /\ l \notin IoLoops
    BY LoopFacts, TcpServerAssumption DEF GetNextLoop, Undefined, IoLoops
  <1>5. queue' = queue
    BY <1>3, <1>4
  <1>6. /\ conn' \in [Conns -> [state : {"none", "kConnecting", "kConnected", "kDisconnected"},
                                loop : Loops \union {Undefined}]]
        /\ \A d \in Conns : d # c => conn'[d] = conn[d]
    BY <1>3, <1>4 DEF TypeOK
  <1>7. TypeOK'
    <2>1. M_connections' \subseteq 1 .. M_nextConnId' - 1
      BY <1>1, <1>2 DEF Created, TypeOK
    <2>2. peers' \in 0 .. connected' /\ connected' \in 0 .. MaxConns
      BY TcpServerAssumption DEF NewConnection, TypeOK, Readable
    <2>3. M_next' \in Nat /\ ~(NumThreads > 0)
      BY TcpServerAssumption DEF NewConnection, TypeOK, AdvanceNext
    <2>. QED  BY <1>1, <1>2, <1>5, <1>6, <2>1, <2>2, <2>3 DEF TypeOK
  <1>8. DestructedDisconnected'
    <2>1. DestructedDisconnected
      BY CoreReferences
    <2>2. \A d : Referenced(d) => Referenced(d)'
      BY <1>1, <1>5 DEF Referenced, Queued
    <2>3. Referenced(c)'
      BY <1>1 DEF Referenced
    <2>4. \A d \in Created : d \in Conns /\ conn'[d] = conn[d]
      BY <1>2, <1>6, QueueFacts
    <2>. QED  BY <1>1, <1>2, <2>1, <2>2, <2>3, <2>4 DEF DestructedDisconnected
  <1>. QED  BY <1>1, <1>7, <1>8 DEF DeadServerWindow

-----------------------------------------------------------------------------
LEMMA InitInvariant == Init => IInv
  <1>. SUFFICES ASSUME Init PROVE IInv
    OBVIOUS
  <1>1. <<>> \in Seq(Functors) /\ Len(<<>>) = 0
    BY EmptySeq
  <1>2. /\ queue \in [Loops -> Seq(Functors)]
        /\ \A l \in Loops : queue[l] = <<>>
    BY <1>1 DEF Init
  <1>3. \A l \in Loops : Items(queue[l]) = {} /\ InOrder(queue[l]) /\ Len(queue[l]) = 0
    BY <1>1, <1>2 DEF Items, InOrder
  <1>4. Created = {} /\ NoConn \notin Conns /\ Base \in Loops
    BY LoopFacts DEF Init, Created
  <1>5. /\ conn \in [Conns -> [state : {"none", "kConnecting", "kConnected", "kDisconnected"},
                               loop : Loops \union {Undefined}]]
        /\ \A c \in Conns : conn[c].state = "none"
    BY <1>4 DEF Init
  <1>6. TypeOK
    <2>1. /\ joining \in 0 .. NumThreads /\ M_next \in Nat
          /\ (NumThreads > 0 => M_next < NumThreads)
          /\ M_nextConnId \in 1 .. MaxConns + 1
          /\ peers \in 0 .. connected /\ connected \in 0 .. MaxConns
      BY TcpServerAssumption DEF Init
    <2>2. /\ phase \in [Loops -> {"none", "events", "functors", "ended"}]
          /\ batch \in [Loops -> Nat] /\ quit \in [Loops -> BOOLEAN]
          /\ closing \in [Loops -> Conns \union {NoConn}]
      BY DEF Init
    <2>3. M_listenning \in BOOLEAN /\ M_idleFd \in BOOLEAN
      BY DEF Init
    <2>. QED  BY <1>2, <1>5, <2>1, <2>2, <2>3 DEF TypeOK, Init
  <1>7. ConnsHaveLoops /\ FunctorsBelong /\ FunctorsInOrder /\ DestructionIsQueued
    BY <1>3, <1>4, <1>5
    DEF ConnsHaveLoops, FunctorsBelong, FunctorsInOrder, DestructionIsQueued
  <1>8. BatchIsQueued
    BY <1>3 DEF BatchIsQueued, Init
  <1>9. ClosingBeforeRemoval
    BY DEF ClosingBeforeRemoval, Init
  <1>10. MapIsComplete /\ RemovalsAreLate /\ LoopsAreJoined
    BY <1>3, <1>4 DEF MapIsComplete, RemovalsAreLate, LoopsAreJoined, Init
  <1>11. Core
    BY <1>7, <1>8, <1>9, <1>10 DEF Core, Init
  <1>12. DeadServerWindow
    BY DEF DeadServerWindow, Init
  <1>13. aborted # "getNextLoop"
    BY DEF Init
  <1>. QED  BY <1>6, <1>11, <1>12, <1>13, CoreReferences DEF IInv

LEMMA NextInvariant == IInv /\ [Next]_vars => IInv'
  <1>. SUFFICES ASSUME IInv, [Next]_vars PROVE IInv'
    OBVIOUS
  <1>1. ASSUME Good' PROVE IInv'
    <2>1. DestructedDisconnected'
      BY <1>1, CoreReferences, PTL DEF Good
    <2>. QED  BY <1>1, <2>1 DEF IInv, Good, Core
  <1>2. CASE vars' = vars
    <2>. USE <1>2 DEF vars, serverVars, acceptVars, loopVars, history
    <2>1. TypeOK' = TypeOK
      BY DEF TypeOK
    <2>2. DestructedDisconnected' = DestructedDisconnected
      BY DEF DestructedDisconnected, Referenced, Queued, Created
    <2>3. DeadServerWindow' = DeadServerWindow
      BY DEF DeadServerWindow
    <2>4. ASSUME Core PROVE Core'
      <3>1. ConnsHaveLoops' /\ FunctorsBelong' /\ FunctorsInOrder'
        BY <2>4, FunctorsStay
      <3>2. BatchIsQueued' /\ ClosingBeforeRemoval'
        BY <2>4 DEF Core, BatchIsQueued, ClosingBeforeRemoval, Created
      <3>3. MapIsComplete' /\ DestructionIsQueued'
        BY <2>4 DEF Core, MapIsComplete, DestructionIsQueued, Created
      <3>4. RemovalsAreLate' /\ LoopsAreJoined'
        BY <2>4 DEF Core, RemovalsAreLate, LoopsAreJoined, Over
      <3>. QED  BY <2>4, <3>1, <3>2, <3>3, <3>4 DEF Core
    <2>. QED  BY <2>1, <2>2, <2>3, <2>4 DEF IInv
  <1>3. CASE Next
    <2>1. Good /\ aborted = "no"
      BY <1>3 DEF Next, IInv, Good
    <2>2. ASSUME NEW l \in Loops, LoopStep(l) PROVE Good'
      BY <2>1, <2>2, LoopFacts, SwapStep, TestQuitStep, ConnectEstablishedStep,
         ConnectDestroyedStep, RemoveConnectionStep, RemoveConnectionInLoopStep
      DEF LoopStep
    <2>3. ASSUME NEW l \in Loops, NEW c \in Conns, HandleClose(l, c) PROVE Good'
      BY <2>1, <2>3, HandleCloseStep
    <2>4. ASSUME Start \/ PeerConnects \/ AcceptFails \/ Destruct PROVE Good'
      BY <2>1, <2>4, StartStep, PeerStep, DestructStep
    <2>5. ASSUME DestructorStep PROVE Good'
      BY <2>1, <2>5, DestroyConnectionStep, QuitLoopStep, DestructAcceptorStep
      DEF DestructorStep
    <2>6. ASSUME NEW c \in Conns, NewConnection(c) PROVE IInv'
      <3>1. CASE NumThreads = 0
        BY <2>1, <2>6, <3>1, NewConnectionUndefined DEF IInv
      <3>2. CASE NumThreads # 0
        BY <1>1, <2>1, <2>6, <3>2, NewConnectionStep
      <3>. QED  BY <3>1, <3>2
    <2>. QED  BY <1>1, <1>3, <2>2, <2>3, <2>4, <2>5, <2>6 DEF Next
  <1>. QED  BY <1>2, <1>3

(* TcpServer: the queues of the base loop and of the I/O loops, the map    *)
(* and handleClose() always agree on where a connection is.                *)
THEOREM Invariance == Spec => []IInv
  BY InitInvariant, NextInvariant, PTL DEF Spec

(* ~TcpConnection(): for any number of loops and connections, a connection *)
(* that is destructed is in kDisconnected, unless its loop ended with its  *)
(* functor.                                                                *)
THEOREM DestructedDisconnectedHolds == Spec => []DestructedDisconnected
  <1>1. IInv => DestructedDisconnected
    BY DEF IInv
  <1>. QED  BY <1>1, Invariance, PTL

(* removeConnectionInLoop(): only a removal that was queued or on its way  *)
(* when ~TcpServer() began calls a server that is gone.                    *)
THEOREM DeadServerWindowHolds == Spec => []DeadServerWindow
  <1>1. IInv => DeadServerWindow
    BY DEF IInv
  <1>. QED  BY <1>1, Invariance, PTL

(* With an I/O loop, the assertions of connectEstablished() and of         *)
(* removeConnectionInLoop() hold.  Without one, getNextLoop() returns no   *)
(* value, and this is where the program ends.                              *)
THEOREM ServerAssertionsHoldHolds ==
    ASSUME NumThreads # 0 PROVE Spec => []ServerAssertionsHold
  <1>1. IInv => ServerAssertionsHold
    BY DEF IInv, Core, ServerAssertionsHold
  <1>. QED  BY <1>1, Invariance, PTL

=============================================================================
