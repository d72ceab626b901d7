--------------------------- MODULE TcpClientProofs ---------------------------
(***************************************************************************)
(* Proofs about TcpClient.tla and, through it, Connector.tla, for every    *)
(* set of threads, every range of retry delays, every number of            *)
(* connections, and every number of calls of connect() and stop() in every *)
(* order.                                                                  *)
(*                                                                         *)
(* IInv is the inductive invariant.  Its core is that the connector's      *)
(* state follows the connection: M_state stays kConnected from the hand-   *)
(* over of a socket until restart(), so that no second connection is made  *)
(* while there is one, and a client that went leaves behind a connector    *)
(* that is either kConnected or stopped for good.                          *)
(*                                                                         *)
(* SerialInv adds what holds as long as start() has found the connector    *)
(* idle: the right to make the next attempt is in one place.  FateInv adds *)
(* what ~TcpClient() leaves behind: a functor that outlives the connector  *)
(* was left by the client or by its keeper, and ends the program only so.  *)
(***************************************************************************)
EXTENDS TcpClient, SequenceTheorems, TLAPS

-----------------------------------------------------------------------------
(* What is queued.                                                         *)

FunctorSet == [f : ConnectorFunctors, of : {0}] \union [f : ConnFunctors, of : Conns]

Has(q, f)       == \E k \in 1 .. Len(q) : q[k].f = f
HasFor(q, f, i) == \E k \in 1 .. Len(q) : q[k].f = f /\ q[k].of = i

(* There is at most one f in q; one is among the first b.                  *)
Once(q, f)      == \A j, k \in 1 .. Len(q) : q[j].f = f /\ q[k].f = f => j = k
Early(q, b, f)  == \E k \in 1 .. Len(q) : k <= b /\ q[k].f = f

(* c as a record, the numbers without their ranges.                        *)
ConnectorRecord ==
    [M_state : {"kDisconnected", "kConnecting", "kConnected"},
     M_retryDelayMs : Int, M_channel : {"none", "registered", "removed"},
     queue : Seq(FunctorSet), timers : Int, ripe : Int, sockets : Int,
     connections : Int, gaveUp : BOOLEAN]

-----------------------------------------------------------------------------
(* The invariant, part by part.                                            *)

(* The connector d by itself.                                              *)
Sound(d) ==
    /\ d \in ConnectorRecord
    /\ d.M_retryDelayMs \in kInitRetryDelayMs .. kMaxRetryDelayMs
    /\ d.timers \in 0 .. MaxTimers /\ d.ripe \in 0 .. d.timers
    /\ d.connections \in {0, 1}
    /\ d.connections = 1 => d.M_state = "kConnected"
    /\ d.sockets = d.connections + (IF d.M_state = "kConnecting" THEN 1 ELSE 0)
    /\ (d.M_state = "kConnecting") = (d.M_channel = "registered")
    /\ Once(d.queue, "resetChannel")
    /\ Has(d.queue, "resetChannel") <=> d.M_channel = "removed"

LoopInv ==
    /\ phase \in {"events", "functors"}
    /\ batch \in 0 .. Len(c.queue)
    /\ pollout \in BOOLEAN
    /\ pollout => closing = NoConn /\ ~restarting /\ c.M_state = "kDisconnected"

CallsInv ==
    /\ M_connect \in BOOLEAN /\ clientConnect \in BOOLEAN
    /\ pc \in [Threads -> {"idle", "startInLoop", "stopInLoop"}]
    /\ calling \in [Threads -> {"none", "connect", "stop"}]
    /\ calls \in 0 .. MaxCalls
    /\ lastCall \in {"none", "start", "stop"} /\ overlapped \in BOOLEAN

AbortInv ==
    aborted \in {"no", "startInLoop", "connecting", "freed", "~Connector", "~TcpConnection"}

(* The connection i is established, or in handleClose().                   *)
Attached(i) == Open(i) \/ closing = i

ConnsInv ==
    /\ M_nextConnId \in 1 .. MaxConns + 1
    /\ conn \in [Conns -> [state : {"none", "kConnected", "kDisconnecting", "kDisconnected"},
                           callback : {"removeConnection", "detail"}]]
    /\ held \subseteq Conns /\ shared \subseteq Conns /\ letGo \subseteq Conns
    /\ closing \in Conns \union {NoConn}
    /\ \A i \in Conns : conn[i].state = "none" <=> i >= M_nextConnId
    /\ \A i \in Conns : Attached(i) => i = M_nextConnId - 1
    /\ closing # NoConn => conn[closing].state = "kDisconnected"
    /\ \A i \in Conns : HasFor(c.queue, "connectDestroyed", i) =>
            conn[i].state = "kDisconnected"
    /\ c.connections = 1 <=> \E i \in Conns : Attached(i)

AliveInv ==
    /\ M_connection \in Conns \union {NoConn}
    /\ client \in {"alive", "gone"}
    /\ client = "alive" =>
        \A i \in Conns : /\ Attached(i) <=> M_connection = i
                         /\ conn[i].callback = "removeConnection"
    /\ restarting => /\ client = "alive" /\ M_connection = NoConn
                     /\ closing = NoConn /\ c.M_state = "kConnected"

GoneInv ==
    client = "gone" =>
        /\ M_connection = NoConn
        /\ \A t \in Threads : calling[t] = "none" /\ pc[t] = "idle"
        /\ c.M_state = "kConnected" \/ ~M_connect
        /\ c.M_state = "kConnecting" => Has(c.queue, "stopInLoop")
        /\ \A i \in Conns : Attached(i) => conn[i].callback = "detail"
        /\ \A i \in Conns : Open(i) =>
               \/ i \in held \/ HasFor(c.queue, "forceCloseInLoop", i)
               \/ i \in shared \/ i \in letGo

FlagsInv ==
    /\ M_retry \in BOOLEAN /\ restarting \in BOOLEAN
    /\ keeper \in {"none", "set", "due"}
    /\ raced \in BOOLEAN /\ abandoned \in BOOLEAN /\ slow \in BOOLEAN /\ touched = FALSE

(* The startInLoop() of a call of connect() is still to come.              *)
First == Has(c.queue, "startInLoop") \/ \E t \in Threads : pc[t] = "startInLoop"

PendingInv ==
    aborted = "no" /\ M_connect /\ c.M_state = "kDisconnected" /\ ~c.gaveUp =>
        c.timers > 0 \/ First

IInv ==
    /\ Sound(c) /\ LoopInv /\ CallsInv /\ AbortInv /\ ConnsInv /\ AliveInv /\ GoneInv
    /\ FlagsInv /\ PendingInv

-----------------------------------------------------------------------------
(* As long as start() has found the connector idle.                        *)

TokenInv ==
    /\ First => c.M_state = "kDisconnected" /\ c.M_channel = "none" /\ c.timers = 0
    /\ Once(c.queue, "startInLoop")
    /\ \A t \in Threads : pc[t] = "startInLoop" =>
            ~Has(c.queue, "startInLoop") /\ \A u \in Threads : pc[u] = "startInLoop" => u = t
    /\ c.timers <= 1
    /\ c.timers = 1 => c.M_state = "kDisconnected"

(* The stopInLoop() of a call of stop() is still to come.                  *)
Last == Has(c.queue, "stopInLoop") \/ \E t \in Threads : pc[t] = "stopInLoop"

StoppedInv == Last => ~M_connect \/ raced \/ client = "gone"

(* resetChannel() comes before the retry timer.                            *)
ChannelInv ==
    /\ restarting \/ (closing # NoConn /\ client = "alive") => c.M_channel = "none"
    /\ \A i \in Conns : HasFor(c.queue, "forceCloseInLoop", i) => client = "gone"
    /\ c.timers > 0 => \/ raced \/ c.M_channel = "none"
                       \/ phase = "events" /\ c.ripe = 0
                       \/ phase = "functors" /\ Early(c.queue, batch, "resetChannel")

StartsInv == aborted # "startInLoop" /\ (aborted = "connecting" => raced)

SerialInv == TokenInv /\ StoppedInv /\ ChannelInv /\ StartsInv

-----------------------------------------------------------------------------
(* What is left behind, and what it does.                                  *)

(* A functor of the connector that outlives it: who left it behind.        *)
HasConnector(q) == \E f \in ConnectorFunctors : Has(q, f)

LeftInv ==
    /\ keeper # "none" => client = "gone"
    /\ abandoned => client = "gone" /\ c.M_state = "kConnected"
    /\ client = "gone" /\ HasConnector(c.queue) => keeper # "none" \/ slow \/ abandoned

(* resetChannel() runs in the iteration that made the connection.          *)
ResetInv ==
    c.M_state = "kConnected" /\ c.M_channel = "removed" =>
        phase = "events" \/ Early(c.queue, batch, "resetChannel")

(* What else ends the program.                                             *)
EndInv ==
    /\ aborted = "freed" => abandoned \/ slow
    /\ aborted = "~Connector" => slow \/ (abandoned /\ ResetChannelDue)
    /\ aborted = "~TcpConnection" => shared \union letGo # {}

FateInv == LeftInv /\ ResetInv /\ EndInv

-----------------------------------------------------------------------------
(* Lemmas about queues.                                                    *)

LEMMA TailFacts ==
    ASSUME NEW q \in Seq(FunctorSet), q # <<>>
    PROVE  /\ Tail(q) \in Seq(FunctorSet) /\ Len(Tail(q)) = Len(q) - 1
           /\ \A f : Has(Tail(q), f) => Has(q, f)
           /\ \A f : Has(q, f) /\ f # Head(q).f => Has(Tail(q), f)
           /\ \A f, i : HasFor(Tail(q), f, i) => HasFor(q, f, i)
           /\ \A f, i : HasFor(q, f, i) /\ f # Head(q).f => HasFor(Tail(q), f, i)
           /\ \A f, i : HasFor(q, f, i) /\ i # Head(q).of => HasFor(Tail(q), f, i)
           /\ Has(q, Head(q).f) /\ HasFor(q, Head(q).f, Head(q).of)
           /\ \A f : Once(q, f) => Once(Tail(q), f)
           /\ Once(q, Head(q).f) => ~Has(Tail(q), Head(q).f)
           /\ \A f, b : b \in Int /\ Early(q, b, f) /\ f # Head(q).f => Early(Tail(q), b - 1, f)
  <1>1. /\ Tail(q) \in Seq(FunctorSet) /\ Len(Tail(q)) = Len(q) - 1 /\ Len(q) \in Nat
        /\ \A k \in 1 .. Len(Tail(q)) : Tail(q)[k] = q[k + 1]
    BY HeadTailProperties
  <1>2. Head(q) = q[1] /\ Len(q) >= 1
    BY EmptySeq, <1>1
  <1>3. \A k \in 1 .. Len(q) : k = 1 \/ (k - 1 \in 1 .. Len(Tail(q)) /\ Tail(q)[k - 1] = q[k])
    BY <1>1, <1>2
  <1>4. \A k \in 1 .. Len(Tail(q)) : k + 1 \in 1 .. Len(q) /\ k + 1 # 1 /\ Tail(q)[k] = q[k + 1]
    BY <1>1
  <1>. DEFINE T == Tail(q)
              H == Head(q)
  <1>5. /\ H = q[1] /\ 1 \in 1 .. Len(q) /\ Len(q) \in Nat /\ Len(T) = Len(q) - 1
        /\ \A k \in 1 .. Len(q) : k = 1 \/ (k - 1 \in 1 .. Len(T) /\ T[k - 1] = q[k])
        /\ \A k \in 1 .. Len(T) : k + 1 \in 1 .. Len(q) /\ k + 1 # 1 /\ T[k] = q[k + 1]
    BY <1>1, <1>2, <1>3, <1>4
  <1>. HIDE DEF T, H
  <1>6. \A f : Has(T, f) => Has(q, f)
    BY <1>5 DEF Has
  <1>7. \A f : Has(q, f) /\ f # H.f => Has(T, f)
    BY <1>5 DEF Has
  <1>8. \A f, i : HasFor(T, f, i) => HasFor(q, f, i)
    BY <1>5 DEF HasFor
  <1>9. \A f, i : HasFor(q, f, i) /\ f # H.f => HasFor(T, f, i)
    BY <1>5 DEF HasFor
  <1>10. \A f, i : HasFor(q, f, i) /\ i # H.of => HasFor(T, f, i)
    BY <1>5 DEF HasFor
  <1>11. Has(q, H.f) /\ HasFor(q, H.f, H.of)
    BY <1>5 DEF Has, HasFor
  <1>12. \A f : Once(q, f) => Once(T, f)
    BY <1>5 DEF Once
  <1>13. Once(q, H.f) => ~Has(T, H.f)
    BY <1>5 DEF Once, Has
  <1>14. \A f, b : b \in Int /\ Early(q, b, f) /\ f # H.f => Early(T, b - 1, f)
    BY <1>5 DEF Early
  <1>. QED
    BY <1>1, <1>6, <1>7, <1>8, <1>9, <1>10, <1>11, <1>12, <1>13, <1>14 DEF T, H

LEMMA AppendFacts ==
    ASSUME NEW q \in Seq(FunctorSet), NEW x \in FunctorSet
    PROVE  /\ Append(q, x) \in Seq(FunctorSet) /\ Len(Append(q, x)) = Len(q) + 1
           /\ Len(q) \in Nat
           /\ \A f : Has(Append(q, x), f) <=> Has(q, f) \/ x.f = f
           /\ \A f, i : HasFor(Append(q, x), f, i) <=> HasFor(q, f, i) \/ (x.f = f /\ x.of = i)
           /\ \A f : Once(q, f) /\ (x.f # f \/ ~Has(q, f)) => Once(Append(q, x), f)
           /\ \A f, b : Early(q, b, f) => Early(Append(q, x), b, f)
  <1>. DEFINE A == Append(q, x)
  <1>1. /\ A \in Seq(FunctorSet) /\ Len(A) = Len(q) + 1 /\ Len(q) \in Nat
        /\ \A k \in 1 .. Len(q) : A[k] = q[k] /\ k \in 1 .. Len(A)
        /\ A[Len(q) + 1] = x /\ Len(q) + 1 \in 1 .. Len(A)
        /\ \A k \in 1 .. Len(A) : k = Len(q) + 1 \/ k \in 1 .. Len(q)
    BY AppendProperties
  <1>. HIDE DEF A
  <1>2. \A f : Has(A, f) <=> Has(q, f) \/ x.f = f
    BY <1>1 DEF Has
  <1>3. \A f, i : HasFor(A, f, i) <=> HasFor(q, f, i) \/ (x.f = f /\ x.of = i)
    BY <1>1 DEF HasFor
  <1>4. \A f : Once(q, f) /\ (x.f # f \/ ~Has(q, f)) => Once(A, f)
    BY <1>1 DEF Once, Has
  <1>5. \A f, b : Early(q, b, f) => Early(A, b, f)
    BY <1>1 DEF Early
  <1>. QED  BY <1>1, <1>2, <1>3, <1>4, <1>5 DEF A

(* What TcpClient.tla says of c.queue.                                     *)
LEMMA QueueWords ==
    ASSUME c.queue \in Seq(FunctorSet)
    PROVE  /\ \A f : Queued(f) <=> Has(c.queue, f)
           /\ \A f, i : InQueue(f, i) <=> HasFor(c.queue, f, i)
  <1>1. DOMAIN c.queue = 1 .. Len(c.queue) /\ \A k \in 1 .. Len(c.queue) : c.queue[k] \in FunctorSet
    OBVIOUS
  <1>2. \A f : Queued(f) <=> Has(c.queue, f)
    BY <1>1 DEF Queued, Has
  <1>3. \A x \in FunctorSet : \A f, i : x = OfConn(f, i) <=> x.f = f /\ x.of = i
    BY DEF FunctorSet, OfConn
  <1>4. \A f, i : InQueue(f, i) <=> HasFor(c.queue, f, i)
    BY <1>1, <1>3 DEF InQueue, HasFor
  <1>. QED  BY <1>2, <1>4

-----------------------------------------------------------------------------
(* Lemmas about the connector's methods: what each of them leaves, field   *)
(* by field, and that Sound is kept.                                       *)

(* e is d but for its queue.                                               *)
QueueOnly(d, e) ==
    /\ e.M_state = d.M_state /\ e.M_retryDelayMs = d.M_retryDelayMs
    /\ e.M_channel = d.M_channel /\ e.timers = d.timers /\ e.ripe = d.ripe
    /\ e.sockets = d.sockets /\ e.connections = d.connections /\ e.gaveUp = d.gaveUp

(* startInLoop() leaves the connector e and the program's fate a.          *)
StartOutcome(d, connect, e, a) ==
    \/ /\ a = "startInLoop" /\ d.M_state # "kDisconnected" /\ e = d
    \/ /\ a = "connecting" /\ d.M_state = "kDisconnected" /\ d.M_channel # "none"
       /\ connect /\ e = d
    \/ /\ a = "no" /\ d.M_state = "kDisconnected" /\ ~connect /\ e = d
    \/ /\ a = "no" /\ d.M_state = "kDisconnected" /\ connect
       /\ e.queue = d.queue /\ e.ripe = d.ripe /\ e.connections = d.connections
       /\ e.timers <= MaxTimers
       /\ \/ /\ d.M_channel = "none"
             /\ e.M_state = "kConnecting" /\ e.M_channel = "registered"
             /\ e.sockets = d.sockets + 1 /\ e.timers = d.timers
             /\ e.M_retryDelayMs = d.M_retryDelayMs
          \/ /\ e.M_state = "kDisconnected" /\ e.M_channel = d.M_channel
             /\ e.sockets = d.sockets
             /\ \/ /\ e.timers = d.timers + 1
                   /\ e.M_retryDelayMs = Twice(d.M_retryDelayMs)
                \/ /\ e.timers = d.timers /\ e.gaveUp
                   /\ e.M_retryDelayMs = d.M_retryDelayMs

(* An attempt ends: its channel is removed, its socket closed.             *)
AttemptFails(d, connect, e) ==
    /\ e.M_state = "kDisconnected" /\ e.M_channel = "removed"
    /\ e.queue = Append(d.queue, Functor("resetChannel"))
    /\ e.sockets = d.sockets - 1 /\ e.connections = d.connections
    /\ e.ripe = d.ripe
    /\ IF connect THEN /\ e.timers = d.timers + 1
                       /\ e.M_retryDelayMs = Twice(d.M_retryDelayMs)
                  ELSE /\ e.timers = d.timers
                       /\ e.M_retryDelayMs = d.M_retryDelayMs

(* ... or its socket is handed over or, if no longer wanted, closed.       *)
AttemptSucceeds(d, connect, e) ==
    /\ e.M_state = "kConnected" /\ e.M_channel = "removed"
    /\ e.queue = Append(d.queue, Functor("resetChannel"))
    /\ e.ripe = d.ripe /\ e.timers = d.timers /\ e.M_retryDelayMs = d.M_retryDelayMs
    /\ IF connect THEN e.sockets = d.sockets /\ e.connections = d.connections + 1
                  ELSE e.sockets = d.sockets - 1 /\ e.connections = d.connections

LEMMA FunctorFacts ==
    /\ \A f \in ConnectorFunctors :
           Functor(f) \in FunctorSet /\ Functor(f).f = f /\ Functor(f).of = 0
    /\ \A f \in ConnFunctors, i \in Conns :
           OfConn(f, i) \in FunctorSet /\ OfConn(f, i).f = f /\ OfConn(f, i).of = i
  BY DEF Functor, OfConn, FunctorSet

LEMMA TwiceBounds ==
    ASSUME NEW n \in kInitRetryDelayMs .. kMaxRetryDelayMs
    PROVE  Twice(n) \in kInitRetryDelayMs .. kMaxRetryDelayMs
  BY ConnectorAssumption DEF Twice

LEMMA RecordNumbers ==
    ASSUME NEW d \in ConnectorRecord
    PROVE  /\ d.timers \in Int /\ d.timers + 1 \in Int /\ d.timers - 1 \in Int
           /\ d.ripe \in Int /\ d.ripe - 1 \in Int
           /\ d.sockets \in Int /\ d.sockets + 1 \in Int /\ d.sockets - 1 \in Int
           /\ d.connections \in Int /\ d.connections + 1 \in Int /\ d.connections - 1 \in Int
           /\ d.M_retryDelayMs \in Int /\ Twice(d.M_retryDelayMs) \in Int
  BY ConnectorAssumption DEF ConnectorRecord, Twice

LEMMA RetryFacts ==
    ASSUME NEW d \in ConnectorRecord, NEW b \in BOOLEAN
    PROVE  LET e == Retry(d, b) IN
           /\ e \in ConnectorRecord
           /\ e.M_state = "kDisconnected" /\ e.M_channel = d.M_channel /\ e.queue = d.queue
           /\ e.sockets = d.sockets - 1 /\ e.connections = d.connections
           /\ e.ripe = d.ripe
           /\ b => e.timers = d.timers + 1 /\ e.M_retryDelayMs = Twice(d.M_retryDelayMs)
           /\ ~b => e.timers = d.timers /\ e.M_retryDelayMs = d.M_retryDelayMs
  <1>. DEFINE e == Retry(d, b)
              closed == [d EXCEPT !.M_state = "kDisconnected", !.sockets = @ - 1]
  <1>1. /\ closed \in ConnectorRecord
        /\ closed.M_state = "kDisconnected" /\ closed.M_channel = d.M_channel
        /\ closed.queue = d.queue /\ closed.sockets = d.sockets - 1
        /\ closed.connections = d.connections /\ closed.ripe = d.ripe
        /\ closed.timers = d.timers /\ closed.M_retryDelayMs = d.M_retryDelayMs
    BY RecordNumbers DEF ConnectorRecord
  <1>2. e = IF b THEN [closed EXCEPT !.timers = @ + 1, !.M_retryDelayMs = Twice(@)]
                 ELSE closed
    BY DEF Retry
  <1>. HIDE DEF closed, e
  <1>3. closed.timers + 1 \in Int /\ Twice(closed.M_retryDelayMs) \in Int
    BY <1>1, RecordNumbers
  <1>4. CASE b
    <2>1. e = [closed EXCEPT !.timers = @ + 1, !.M_retryDelayMs = Twice(@)]
      BY <1>2, <1>4
    <2>2. e \in ConnectorRecord
      BY <1>1, <1>3, <2>1 DEF ConnectorRecord
    <2>3. /\ e.M_state = closed.M_state /\ e.M_channel = closed.M_channel
          /\ e.queue = closed.queue /\ e.sockets = closed.sockets
          /\ e.connections = closed.connections /\ e.ripe = closed.ripe
          /\ e.timers = closed.timers + 1
          /\ e.M_retryDelayMs = Twice(closed.M_retryDelayMs)
      BY <1>1, <2>1 DEF ConnectorRecord
    <2>. QED  BY <1>1, <1>4, <2>2, <2>3 DEF e
  <1>5. CASE ~b
    BY <1>1, <1>2, <1>5 DEF e
  <1>. QED  BY <1>4, <1>5

LEMMA StartFacts ==
    ASSUME NEW d \in ConnectorRecord, NEW b \in BOOLEAN, NEW o \in BOOLEAN,
           DoStartInLoop(d, b, o)
    PROVE  /\ c' \in ConnectorRecord
           /\ \E a : /\ StartOutcome(d, b, c', a)
                    /\ \/ aborted' = a
                       \/ a = "no" /\ aborted' = "~Connector" /\ ~o /\ DestructorFails(c')
  <1>0. PICK e \in StartInLoop(d, b) :
            LET a == StartInLoopFails(d, e) IN
            /\ e.timers <= MaxTimers
            /\ aborted' = IF a = "no" /\ ~o /\ DestructorFails(e) THEN "~Connector" ELSE a
            /\ c' = IF a = "no" THEN e ELSE d
    BY DEF DoStartInLoop
  <1>. DEFINE a == StartInLoopFails(d, e)
  <1>1. /\ e.timers <= MaxTimers /\ a = StartInLoopFails(d, e)
        /\ c' = IF a = "no" THEN e ELSE d
    BY <1>0
  <1>5. aborted' = a \/ (a = "no" /\ aborted' = "~Connector" /\ ~o /\ DestructorFails(c'))
    BY <1>0
  <1>. HIDE DEF a
  <1>. SUFFICES c' \in ConnectorRecord /\ StartOutcome(d, b, c', a)
    BY <1>5
  <1>2. CASE ~b
    <2>1. e = d
      BY <1>1, <1>2 DEF StartInLoop
    <2>2. c' = d /\ a = IF d.M_state # "kDisconnected" THEN "startInLoop" ELSE "no"
      BY <1>1, <2>1 DEF StartInLoopFails, ConnectorRecord
    <2>. QED  BY <1>2, <2>2 DEF StartOutcome
  <1>3. CASE b /\ d.M_state # "kDisconnected"
    <2>1. c' = d /\ a = "startInLoop"
      BY <1>1, <1>3 DEF StartInLoopFails
    <2>. QED  BY <1>3, <2>1 DEF StartOutcome
  <1>4. CASE b /\ d.M_state = "kDisconnected"
    <2>. DEFINE opened == [d EXCEPT !.sockets = @ + 1, !.gaveUp = FALSE]
    <2>1. e \in {Connecting(opened), Retry(opened, b), [d EXCEPT !.gaveUp = TRUE]}
      BY <1>1, <1>4 DEF StartInLoop, Connect
    <2>5. /\ opened \in ConnectorRecord /\ opened.queue = d.queue /\ opened.ripe = d.ripe
          /\ opened.connections = d.connections /\ opened.M_state = d.M_state
          /\ opened.M_channel = d.M_channel /\ opened.sockets = d.sockets + 1
          /\ opened.timers = d.timers /\ opened.M_retryDelayMs = d.M_retryDelayMs
      BY RecordNumbers DEF ConnectorRecord
    <2>. HIDE DEF opened
    <2>2. CASE e = Connecting(opened)
      <3>1. /\ e \in ConnectorRecord /\ e.queue = d.queue /\ e.ripe = d.ripe
            /\ e.connections = d.connections /\ e.M_state = "kConnecting"
            /\ e.M_channel = "registered" /\ e.sockets = d.sockets + 1
            /\ e.timers = d.timers /\ e.M_retryDelayMs = d.M_retryDelayMs
        BY <2>2, <2>5 DEF Connecting, ConnectorRecord
      <3>2. CASE d.M_channel = "none"
        <4>1. c' = e /\ a = "no"
          BY <1>1, <1>4, <3>2 DEF StartInLoopFails
        <4>. QED  BY <1>1, <1>4, <3>1, <3>2, <4>1 DEF StartOutcome
      <3>3. CASE d.M_channel # "none"
        <4>1. c' = d /\ a = "connecting"
          BY <1>1, <1>4, <3>1, <3>3 DEF StartInLoopFails
        <4>. QED  BY <1>4, <3>3, <4>1 DEF StartOutcome
      <3>. QED  BY <3>2, <3>3
    <2>3. CASE e = Retry(opened, b)
      <3>1. /\ e \in ConnectorRecord /\ e.queue = d.queue /\ e.ripe = d.ripe
            /\ e.connections = d.connections /\ e.M_state = "kDisconnected"
            /\ e.M_channel = d.M_channel /\ e.sockets = d.sockets
            /\ e.timers = d.timers + 1 /\ e.M_retryDelayMs = Twice(d.M_retryDelayMs)
        <4>1. d.sockets \in Int
          BY DEF ConnectorRecord
        <4>2. /\ e \in ConnectorRecord
              /\ e.M_state = "kDisconnected" /\ e.M_channel = opened.M_channel
              /\ e.queue = opened.queue /\ e.sockets = opened.sockets - 1
              /\ e.connections = opened.connections /\ e.ripe = opened.ripe
              /\ e.timers = opened.timers + 1
              /\ e.M_retryDelayMs = Twice(opened.M_retryDelayMs)
          BY <1>4, <2>3, <2>5, RetryFacts
        <4>. QED  BY <2>5, <4>1, <4>2
      <3>2. c' = e /\ a = "no"
        BY <1>1, <1>4, <3>1 DEF StartInLoopFails
      <3>. QED  BY <1>1, <1>4, <3>1, <3>2 DEF StartOutcome
    <2>4. CASE e = [d EXCEPT !.gaveUp = TRUE]
      <3>1. /\ e \in ConnectorRecord /\ e.queue = d.queue /\ e.ripe = d.ripe
            /\ e.connections = d.connections /\ e.M_state = "kDisconnected"
            /\ e.M_channel = d.M_channel /\ e.sockets = d.sockets
            /\ e.timers = d.timers /\ e.M_retryDelayMs = d.M_retryDelayMs /\ e.gaveUp = TRUE
        BY <2>4, <1>4 DEF ConnectorRecord
      <3>2. c' = e /\ a = "no"
        BY <1>1, <1>4, <3>1 DEF StartInLoopFails
      <3>. QED  BY <1>1, <1>4, <3>1, <3>2 DEF StartOutcome
    <2>. QED  BY <2>1, <2>2, <2>3, <2>4
  <1>. QED  BY <1>2, <1>3, <1>4

LEMMA StartHeld ==
    ASSUME NEW d \in ConnectorRecord, NEW b \in BOOLEAN, DoStartInLoop(d, b, TRUE)
    PROVE  c' \in ConnectorRecord /\ StartOutcome(d, b, c', aborted')
  BY StartFacts

LEMMA FailsFacts ==
    ASSUME NEW d \in ConnectorRecord, NEW b \in BOOLEAN
    PROVE  LET e == Retry(RemoveAndResetChannel(d), b) IN
           e \in ConnectorRecord /\ AttemptFails(d, b, e)
  <1>. DEFINE r == RemoveAndResetChannel(d)
              e == Retry(r, b)
  <1>1. /\ r \in ConnectorRecord
        /\ r.queue = Append(d.queue, Functor("resetChannel")) /\ r.M_channel = "removed"
        /\ r.timers = d.timers /\ r.ripe = d.ripe /\ r.sockets = d.sockets
        /\ r.connections = d.connections /\ r.M_retryDelayMs = d.M_retryDelayMs
    BY FunctorFacts, AppendFacts
    DEF RemoveAndResetChannel, ConnectorRecord, ConnectorFunctors
  <1>. HIDE DEF r
  <1>2. e \in ConnectorRecord /\ AttemptFails(d, b, e)
    BY <1>1, RetryFacts DEF AttemptFails
  <1>. QED  BY <1>2 DEF r

LEMMA SucceedsFacts ==
    ASSUME NEW d \in ConnectorRecord, NEW b \in BOOLEAN
    PROVE  LET e == Connected(RemoveAndResetChannel(d), b) IN
           e \in ConnectorRecord /\ AttemptSucceeds(d, b, e)
  <1>. DEFINE r == RemoveAndResetChannel(d)
              e == Connected(r, b)
  <1>1. /\ r \in ConnectorRecord
        /\ r.queue = Append(d.queue, Functor("resetChannel")) /\ r.M_channel = "removed"
        /\ r.timers = d.timers /\ r.ripe = d.ripe /\ r.sockets = d.sockets
        /\ r.connections = d.connections /\ r.M_retryDelayMs = d.M_retryDelayMs
    BY FunctorFacts, AppendFacts
    DEF RemoveAndResetChannel, ConnectorRecord, ConnectorFunctors
  <1>. HIDE DEF r
  <1>2. e \in ConnectorRecord /\ AttemptSucceeds(d, b, e)
    <2>1. CASE b
      <3>1. e = [r EXCEPT !.M_state = "kConnected", !.connections = @ + 1]
        BY <2>1 DEF Connected
      <3>. HIDE DEF e
      <3>2. r.connections + 1 \in Int
        BY <1>1, RecordNumbers
      <3>3. e \in ConnectorRecord
        BY <1>1, <3>1, <3>2 DEF ConnectorRecord
      <3>. QED  BY <1>1, <2>1, <3>1, <3>3 DEF ConnectorRecord, AttemptSucceeds
    <2>2. CASE ~b
      <3>1. e = [r EXCEPT !.M_state = "kConnected", !.sockets = @ - 1]
        BY <2>2 DEF Connected
      <3>. HIDE DEF e
      <3>2. r.sockets - 1 \in Int
        BY <1>1, RecordNumbers
      <3>3. e \in ConnectorRecord
        BY <1>1, <3>1, <3>2 DEF ConnectorRecord
      <3>. QED  BY <1>1, <2>2, <3>1, <3>3 DEF ConnectorRecord, AttemptSucceeds
    <2>. QED  BY <2>1, <2>2
  <1>. QED  BY <1>2 DEF r

LEMMA TailRecord ==
    ASSUME NEW d \in ConnectorRecord, d.queue # <<>>
    PROVE  LET e == [d EXCEPT !.queue = Tail(@)] IN
           e \in ConnectorRecord /\ QueueOnly(d, e) /\ e.queue = Tail(d.queue)
  <1>1. Tail(d.queue) \in Seq(FunctorSet)
    BY TailFacts DEF ConnectorRecord
  <1>. QED  BY <1>1 DEF ConnectorRecord, QueueOnly

LEMMA AppendRecord ==
    ASSUME NEW d \in ConnectorRecord, NEW x \in FunctorSet
    PROVE  LET e == [d EXCEPT !.queue = Append(@, x)] IN
           e \in ConnectorRecord /\ QueueOnly(d, e) /\ e.queue = Append(d.queue, x)
  <1>1. Append(d.queue, x) \in Seq(FunctorSet)
    BY AppendFacts DEF ConnectorRecord
  <1>. QED  BY <1>1 DEF ConnectorRecord, QueueOnly

LEMMA SoundStart ==
    ASSUME NEW d, Sound(d), NEW b \in BOOLEAN, NEW e \in ConnectorRecord, NEW a,
           StartOutcome(d, b, e, a)
    PROVE  Sound(e) /\ e.queue = d.queue /\ e.ripe = d.ripe /\ e.connections = d.connections
  <1>1. CASE e = d
    BY <1>1
  <1>2. CASE e # d
    <2>1. /\ d \in ConnectorRecord /\ d.M_state = "kDisconnected"
          /\ e.queue = d.queue /\ e.ripe = d.ripe /\ e.connections = d.connections
          /\ e.timers <= MaxTimers
      BY <1>2 DEF StartOutcome, Sound
    <2>2. /\ d.connections = 0 /\ d.sockets = 0 /\ d.M_channel # "registered"
          /\ d.timers \in 0 .. MaxTimers /\ d.ripe \in 0 .. d.timers
          /\ d.M_retryDelayMs \in kInitRetryDelayMs .. kMaxRetryDelayMs
          /\ Once(d.queue, "resetChannel")
          /\ Has(d.queue, "resetChannel") <=> d.M_channel = "removed"
      BY <2>1 DEF Sound
    <2>3. e.M_retryDelayMs \in kInitRetryDelayMs .. kMaxRetryDelayMs
      BY <1>2, <2>2, TwiceBounds DEF StartOutcome
    <2>4. e.timers \in 0 .. MaxTimers /\ e.ripe \in 0 .. e.timers
      BY <1>2, <2>1, <2>2, ConnectorAssumption DEF StartOutcome
    <2>5. /\ e.M_state # "kConnected"
          /\ e.sockets = IF e.M_state = "kConnecting" THEN 1 ELSE 0
          /\ (e.M_state = "kConnecting") = (e.M_channel = "registered")
          /\ e.M_channel = "removed" <=> d.M_channel = "removed"
      BY <1>2, <2>1, <2>2 DEF StartOutcome
    <2>. QED  BY <2>1, <2>2, <2>3, <2>4, <2>5 DEF Sound
  <1>. QED  BY <1>1, <1>2

LEMMA SoundFails ==
    ASSUME NEW d, Sound(d), d.M_state = "kConnecting", NEW b \in BOOLEAN,
           NEW e \in ConnectorRecord, AttemptFails(d, b, e), e.timers <= MaxTimers
    PROVE  Sound(e)
  <1>1. /\ d.connections = 0 /\ d.sockets = 1 /\ d.M_channel = "registered"
        /\ d.timers \in 0 .. MaxTimers /\ d.ripe \in 0 .. d.timers
        /\ d.M_retryDelayMs \in kInitRetryDelayMs .. kMaxRetryDelayMs
        /\ Once(d.queue, "resetChannel") /\ ~Has(d.queue, "resetChannel")
        /\ d.queue \in Seq(FunctorSet)
    BY DEF Sound, ConnectorRecord
  <1>2. Once(e.queue, "resetChannel") /\ Has(e.queue, "resetChannel")
    BY <1>1, AppendFacts, FunctorFacts DEF AttemptFails, ConnectorFunctors
  <1>3. e.M_retryDelayMs \in kInitRetryDelayMs .. kMaxRetryDelayMs
    BY <1>1, TwiceBounds DEF AttemptFails
  <1>4. e.timers \in 0 .. MaxTimers /\ e.ripe \in 0 .. e.timers
    BY <1>1, ConnectorAssumption DEF AttemptFails
  <1>5. /\ e.connections = 0 /\ e.sockets = 0 /\ e.M_state = "kDisconnected"
        /\ e.M_channel = "removed"
    BY <1>1 DEF AttemptFails
  <1>. QED  BY <1>2, <1>3, <1>4, <1>5 DEF Sound

LEMMA SoundSucceeds ==
    ASSUME NEW d, Sound(d), d.M_state = "kConnecting", NEW b \in BOOLEAN,
           NEW e \in ConnectorRecord, AttemptSucceeds(d, b, e)
    PROVE  Sound(e) /\ d.connections = 0
  <1>1. /\ d.connections = 0 /\ d.sockets = 1 /\ d.M_channel = "registered"
        /\ d.timers \in 0 .. MaxTimers /\ d.ripe \in 0 .. d.timers
        /\ d.M_retryDelayMs \in kInitRetryDelayMs .. kMaxRetryDelayMs
        /\ Once(d.queue, "resetChannel") /\ ~Has(d.queue, "resetChannel")
        /\ d.queue \in Seq(FunctorSet)
    BY DEF Sound, ConnectorRecord
  <1>2. Once(e.queue, "resetChannel") /\ Has(e.queue, "resetChannel")
    BY <1>1, AppendFacts, FunctorFacts DEF AttemptSucceeds, ConnectorFunctors
  <1>3. /\ e.M_retryDelayMs \in kInitRetryDelayMs .. kMaxRetryDelayMs
        /\ e.timers \in 0 .. MaxTimers /\ e.ripe \in 0 .. e.timers
    BY <1>1 DEF AttemptSucceeds
  <1>4. /\ e.connections \in {0, 1} /\ e.sockets = e.connections
        /\ e.M_state = "kConnected" /\ e.M_channel = "removed"
    BY <1>1 DEF AttemptSucceeds
  <1>. QED  BY <1>1, <1>2, <1>3, <1>4 DEF Sound

LEMMA SoundTail ==
    ASSUME NEW d, Sound(d), d.queue # <<>>, Head(d.queue).f # "resetChannel",
           NEW e \in ConnectorRecord, QueueOnly(d, e), e.queue = Tail(d.queue)
    PROVE  Sound(e)
  <1>1. d.queue \in Seq(FunctorSet)
    BY DEF Sound, ConnectorRecord
  <1>2. /\ Once(d.queue, "resetChannel") => Once(e.queue, "resetChannel")
        /\ Has(d.queue, "resetChannel") <=> Has(e.queue, "resetChannel")
    BY <1>1, TailFacts
  <1>. QED  BY <1>2 DEF Sound, QueueOnly

LEMMA SoundAppend ==
    ASSUME NEW d, Sound(d), NEW x \in FunctorSet, x.f # "resetChannel",
           NEW e \in ConnectorRecord, QueueOnly(d, e), e.queue = Append(d.queue, x)
    PROVE  Sound(e)
  <1>1. d.queue \in Seq(FunctorSet)
    BY DEF Sound, ConnectorRecord
  <1>2. /\ Once(d.queue, "resetChannel") => Once(e.queue, "resetChannel")
        /\ Has(d.queue, "resetChannel") <=> Has(e.queue, "resetChannel")
    BY <1>1, AppendFacts
  <1>. QED  BY <1>2 DEF Sound, QueueOnly

-----------------------------------------------------------------------------
(* Frames: what the parts of IInv need of a step that leaves the           *)
(* connections alone.                                                      *)

SameConns == UNCHANGED <<M_nextConnId, conn, held, shared, letGo, closing>>

LEMMA FrameConns ==
    ASSUME ConnsInv, SameConns, c'.connections = c.connections,
           \A i \in Conns : HasFor(c'.queue, "connectDestroyed", i) =>
               HasFor(c.queue, "connectDestroyed", i)
    PROVE  ConnsInv'
  <1>1. /\ M_nextConnId' = M_nextConnId /\ conn' = conn /\ held' = held /\ shared' = shared
        /\ letGo' = letGo /\ closing' = closing
    BY DEF SameConns
  <1>2. \A i \in Conns : Attached(i)' <=> Attached(i)
    BY <1>1 DEF Attached, Open
  <1>. QED  BY <1>1, <1>2 DEF ConnsInv

LEMMA FrameAlive ==
    ASSUME AliveInv, SameConns, UNCHANGED <<M_connection, client>>,
           restarting' => restarting /\ c'.M_state = "kConnected"
    PROVE  AliveInv'
  <1>1. /\ conn' = conn /\ closing' = closing /\ M_connection' = M_connection
        /\ client' = client
    BY DEF SameConns
  <1>2. \A i \in Conns : Attached(i)' <=> Attached(i)
    BY <1>1 DEF Attached, Open
  <1>. QED  BY <1>1, <1>2 DEF AliveInv

LEMMA FrameGone ==
    ASSUME GoneInv, SameConns, UNCHANGED <<M_connection, client>>,
           client = "gone" =>
               /\ \A t \in Threads : calling'[t] = calling[t] /\ pc'[t] = pc[t]
               /\ M_connect' => M_connect
               /\ c.M_state = "kConnected" => c'.M_state = "kConnected"
               /\ c'.M_state = "kConnecting" =>
                      /\ c.M_state = "kConnecting"
                      /\ Has(c.queue, "stopInLoop") => Has(c'.queue, "stopInLoop")
               /\ \A i \in Conns : Open(i) /\ HasFor(c.queue, "forceCloseInLoop", i) =>
                      HasFor(c'.queue, "forceCloseInLoop", i)
    PROVE  GoneInv'
  <1>1. /\ conn' = conn /\ closing' = closing /\ M_connection' = M_connection
        /\ client' = client /\ held' = held /\ shared' = shared /\ letGo' = letGo
    BY DEF SameConns
  <1>2. \A i \in Conns : (Attached(i)' <=> Attached(i)) /\ (Open(i)' <=> Open(i))
    BY <1>1 DEF Attached, Open
  <1>. QED  BY <1>1, <1>2 DEF GoneInv

LEMMA FrameFlags ==
    ASSUME FlagsInv, UNCHANGED <<M_retry, restarting, raced, abandoned, slow, touched>>,
           keeper' = keeper \/ keeper' \in {"none", "set", "due"}
    PROVE  FlagsInv'
  BY DEF FlagsInv

LEMMA FrameCalls ==
    ASSUME CallsInv, UNCHANGED <<M_connect, clientConnect, pc, calling, counts>>
    PROVE  CallsInv'
  BY DEF CallsInv, counts

LEMMA QueueFacts ==
    ASSUME Sound(c)
    PROVE  c \in ConnectorRecord /\ c.queue \in Seq(FunctorSet) /\ Len(c.queue) \in Nat
  BY DEF Sound, ConnectorRecord

(* A functor runs: it is taken from the queue.                             *)
LEMMA RunsFacts ==
    ASSUME IInv, NEW f, RunsFunctor(f)
    PROVE  /\ c.queue # <<>> /\ Head(c.queue).f = f
           /\ c.queue \in Seq(FunctorSet) /\ c \in ConnectorRecord
           /\ batch \in Int /\ batch' = batch - 1 /\ batch > 0
           /\ batch' \in 0 .. Len(Tail(c.queue))
           /\ aborted = "no" /\ pollout = FALSE
           /\ Head(c.queue) \in FunctorSet
  <1>1. /\ c \in ConnectorRecord /\ c.queue \in Seq(FunctorSet) /\ Len(c.queue) \in Nat
    BY QueueFacts DEF IInv
  <1>2. batch \in 0 .. Len(c.queue) /\ batch > 0 /\ batch' = batch - 1 /\ pollout \in BOOLEAN
    BY DEF IInv, LoopInv, RunsFunctor
  <1>3. c.queue # <<>>
    BY <1>1, <1>2
  <1>4. Len(Tail(c.queue)) = Len(c.queue) - 1
    BY <1>1, <1>3, TailFacts
  <1>5. Head(c.queue) \in FunctorSet
    BY <1>1, <1>3, HeadTailProperties
  <1>. QED
    BY <1>1, <1>2, <1>3, <1>4, <1>5 DEF RunsFunctor, LoopIsFree, Running

-----------------------------------------------------------------------------
(* The connector's steps in the loop.                                      *)

Quiet ==
    /\ UNCHANGED <<connVars, client, M_retry, clientConnect, restarting, calling, history>>
    /\ keeper' = keeper \/ (keeper = "set" /\ keeper' = "due")

LEMMA QuietSteps ==
    ASSUME UNCHANGED <<connVars, clientVars, history>>
    PROVE  Quiet
  BY DEF Quiet, clientVars

LEMMA QuietFacts ==
    ASSUME Quiet
    PROVE  /\ SameConns /\ M_connection' = M_connection /\ client' = client
           /\ M_retry' = M_retry /\ restarting' = restarting
           /\ keeper' = keeper \/ keeper' \in {"none", "set", "due"}
           /\ keeper' = "none" <=> keeper = "none"
           /\ raced' = raced /\ abandoned' = abandoned /\ slow' = slow /\ touched' = touched
           /\ clientConnect' = clientConnect /\ calling' = calling /\ closing' = closing
           /\ letGo' = letGo /\ shared' = shared
  BY DEF Quiet, connVars, history, SameConns

LEMMA FrameConnector ==
    ASSUME IInv, Quiet, LoopReady, UNCHANGED <<M_connect, pc, counts>>,
           Sound(c'), LoopInv', AbortInv', PendingInv', c'.connections = c.connections,
           \A i \in Conns : /\ HasFor(c'.queue, "connectDestroyed", i) =>
                                   HasFor(c.queue, "connectDestroyed", i)
                            /\ Open(i) /\ HasFor(c.queue, "forceCloseInLoop", i) =>
                                   HasFor(c'.queue, "forceCloseInLoop", i),
           client = "gone" =>
               /\ c.M_state = "kConnected" => c'.M_state = "kConnected"
               /\ c'.M_state = "kConnecting" =>
                      /\ c.M_state = "kConnecting"
                      /\ Has(c.queue, "stopInLoop") => Has(c'.queue, "stopInLoop")
    PROVE  IInv'
  <1>1. ConnsInv'
    BY QuietFacts, FrameConns DEF IInv
  <1>2. AliveInv'
    BY QuietFacts, FrameAlive DEF IInv, LoopReady
  <1>3. GoneInv'
    BY QuietFacts, FrameGone DEF IInv
  <1>4. FlagsInv' /\ CallsInv'
    BY QuietFacts, FrameFlags, FrameCalls DEF IInv
  <1>. QED  BY <1>1, <1>2, <1>3, <1>4 DEF IInv

LEMMA PollReturnsKeeps ==
    ASSUME IInv, LoopReady, Quiet, NEW r \in 0 .. c.timers, PollReturns(r)
    PROVE  IInv'
  <1>1. c \in ConnectorRecord /\ c.queue \in Seq(FunctorSet) /\ r \in Int /\ r \in 0 .. c.timers
    BY RecordNumbers DEF IInv, Sound, ConnectorRecord
  <1>2. /\ c' = [c EXCEPT !.ripe = r] /\ phase' = "events" /\ batch' = batch
        /\ pollout' = pollout /\ UNCHANGED <<M_connect, pc, counts>> /\ aborted' = aborted
    BY DEF PollReturns
  <1>3. /\ c'.M_state = c.M_state /\ c'.M_retryDelayMs = c.M_retryDelayMs
        /\ c'.M_channel = c.M_channel /\ c'.timers = c.timers /\ c'.ripe = r
        /\ c'.sockets = c.sockets /\ c'.connections = c.connections
        /\ c'.gaveUp = c.gaveUp /\ c'.queue = c.queue
    BY <1>1, <1>2 DEF ConnectorRecord
  <1>4. c' \in ConnectorRecord
    BY <1>1, <1>2 DEF ConnectorRecord
  <1>5. Sound(c')
    BY <1>1, <1>3, <1>4 DEF Sound, IInv
  <1>6. LoopInv'
    BY <1>2, <1>3, QuietFacts DEF LoopInv, IInv
  <1>7. AbortInv'
    BY <1>2 DEF AbortInv, IInv
  <1>8. PendingInv'
    BY <1>2, <1>3 DEF PendingInv, IInv, First
  <1>. QED  BY <1>2, <1>3, <1>5, <1>6, <1>7, <1>8, FrameConnector

LEMMA DoPendingFunctorsKeeps ==
    ASSUME IInv, LoopReady, Quiet, DoPendingFunctors
    PROVE  IInv'
  <1>1. c \in ConnectorRecord /\ c.queue \in Seq(FunctorSet) /\ Len(c.queue) \in Nat
    BY QueueFacts DEF IInv
  <1>2. /\ c' = c /\ phase' = "functors" /\ batch' = Len(c.queue)
        /\ pollout' = pollout /\ UNCHANGED <<M_connect, pc, counts>> /\ aborted' = aborted
    BY DEF DoPendingFunctors
  <1>3. Sound(c')
    BY <1>2 DEF IInv
  <1>4. LoopInv'
    BY <1>1, <1>2, QuietFacts DEF LoopInv, IInv
  <1>5. AbortInv'
    BY <1>2 DEF AbortInv, IInv
  <1>6. PendingInv'
    BY <1>2 DEF PendingInv, IInv, First
  <1>. QED  BY <1>2, <1>3, <1>4, <1>5, <1>6, FrameConnector

(* startInLoop() called with the connector d, which is c but for what      *)
(* called it: a functor or a timer.                                        *)
LEMMA StartsKeeps ==
    ASSUME IInv, LoopReady, Quiet, NEW d, Sound(d),
           NEW o \in BOOLEAN, DoStartInLoop(d, M_connect, o), pollout = FALSE,
           UNCHANGED <<M_connect, phase, pollout, pc, counts>>,
           batch' \in 0 .. Len(d.queue),
           d.M_state = c.M_state, d.connections = c.connections,
           \A i \in Conns : /\ HasFor(d.queue, "connectDestroyed", i) =>
                                   HasFor(c.queue, "connectDestroyed", i)
                            /\ HasFor(c.queue, "forceCloseInLoop", i) =>
                                   HasFor(d.queue, "forceCloseInLoop", i),
           Has(c.queue, "stopInLoop") => Has(d.queue, "stopInLoop")
    PROVE  IInv'
  <1>1. d \in ConnectorRecord /\ M_connect \in BOOLEAN
    BY DEF Sound, IInv, CallsInv
  <1>2. PICK a : /\ c' \in ConnectorRecord /\ StartOutcome(d, M_connect, c', a)
                 /\ aborted' = a \/ (a = "no" /\ aborted' = "~Connector")
    BY <1>1, StartFacts
  <1>3. Sound(c') /\ c'.queue = d.queue /\ c'.connections = d.connections
    BY <1>1, <1>2, SoundStart
  <1>4. AbortInv'
    BY <1>2 DEF StartOutcome, AbortInv
  <1>5. LoopInv'
    BY <1>3 DEF LoopInv, IInv
  <1>6. PendingInv'
    <2>1. c'.timers \in Int /\ c'.timers >= 0 /\ d.timers >= 0 /\ d.timers \in Int
      BY <1>1, <1>3 DEF Sound
    <2>. QED  BY <1>2, <2>1 DEF StartOutcome, PendingInv
  <1>7. client = "gone" => c' = d
    BY <1>2 DEF StartOutcome, IInv, GoneInv
  <1>. QED  BY <1>3, <1>4, <1>5, <1>6, <1>7, FrameConnector

LEMMA RunStartInLoopKeeps ==
    ASSUME IInv, LoopReady, Quiet, RunStartInLoop
    PROVE  IInv'
  <1>. DEFINE d == [c EXCEPT !.queue = Tail(@)]
  <1>1. /\ c.queue # <<>> /\ Head(c.queue).f = "startInLoop" /\ c.queue \in Seq(FunctorSet)
        /\ c \in ConnectorRecord /\ batch' \in 0 .. Len(Tail(c.queue)) /\ pollout = FALSE
    BY RunsFacts DEF RunStartInLoop
  <1>2. d \in ConnectorRecord /\ QueueOnly(c, d) /\ d.queue = Tail(c.queue)
    BY <1>1, TailRecord
  <1>3. DoStartInLoop(d, M_connect, TRUE) /\ UNCHANGED <<M_connect, phase, pollout, pc, counts>>
    BY DEF RunStartInLoop
  <1>. HIDE DEF d
  <1>4. Sound(d)
    BY <1>1, <1>2, SoundTail DEF IInv
  <1>5. /\ \A i \in Conns :
               /\ HasFor(d.queue, "connectDestroyed", i) => HasFor(c.queue, "connectDestroyed", i)
               /\ HasFor(c.queue, "forceCloseInLoop", i) => HasFor(d.queue, "forceCloseInLoop", i)
        /\ Has(c.queue, "stopInLoop") => Has(d.queue, "stopInLoop")
    BY <1>1, <1>2, TailFacts
  <1>. QED  BY <1>1, <1>2, <1>3, <1>4, <1>5, StartsKeeps DEF QueueOnly

LEMMA TimerRecord ==
    ASSUME Sound(c), c.ripe > 0
    PROVE  LET d == [c EXCEPT !.timers = @ - 1, !.ripe = @ - 1] IN
           /\ Sound(d) /\ d.timers = c.timers - 1 /\ d.ripe = c.ripe - 1
           /\ d.queue = c.queue /\ d.M_state = c.M_state /\ d.M_channel = c.M_channel
           /\ d.connections = c.connections
  <1>. DEFINE d == [c EXCEPT !.timers = @ - 1, !.ripe = @ - 1]
  <1>1. c \in ConnectorRecord
    BY DEF Sound
  <1>2. d \in ConnectorRecord
    BY <1>1, RecordNumbers DEF ConnectorRecord
  <1>3. /\ d.M_state = c.M_state /\ d.M_retryDelayMs = c.M_retryDelayMs
        /\ d.M_channel = c.M_channel /\ d.timers = c.timers - 1 /\ d.ripe = c.ripe - 1
        /\ d.sockets = c.sockets /\ d.connections = c.connections /\ d.queue = c.queue
    BY <1>1 DEF ConnectorRecord
  <1>. HIDE DEF d
  <1>4. d.timers \in 0 .. MaxTimers /\ d.ripe \in 0 .. d.timers
    BY <1>3, ConnectorAssumption DEF Sound
  <1>5. Sound(d)
    BY <1>2, <1>3, <1>4 DEF Sound
  <1>. QED  BY <1>3, <1>5 DEF d

LEMMA RetryTimerKeeps ==
    ASSUME IInv, LoopReady, Quiet, NEW o \in BOOLEAN, RetryTimer(o)
    PROVE  IInv'
  <1>. DEFINE d == [c EXCEPT !.timers = @ - 1, !.ripe = @ - 1]
  <1>1. /\ Sound(d) /\ d.queue = c.queue /\ d.M_state = c.M_state
        /\ d.connections = c.connections
    BY TimerRecord DEF IInv, RetryTimer
  <1>2. /\ DoStartInLoop(d, M_connect, o) /\ batch' = batch
        /\ UNCHANGED <<M_connect, phase, pollout, pc, counts>>
    BY DEF RetryTimer
  <1>. HIDE DEF d
  <1>3. pollout = FALSE /\ batch' \in 0 .. Len(d.queue)
    BY <1>1, <1>2 DEF RetryTimer, Polled, LoopIsFree, IInv, LoopInv
  <1>. QED  BY <1>1, <1>2, <1>3, StartsKeeps

LEMMA RunStopInLoopKeeps ==
    ASSUME IInv, LoopReady, Quiet, RunStopInLoop
    PROVE  IInv'
  <1>. DEFINE d == [c EXCEPT !.queue = Tail(@)]
  <1>1. /\ c.queue # <<>> /\ Head(c.queue).f = "stopInLoop" /\ c.queue \in Seq(FunctorSet)
        /\ c \in ConnectorRecord /\ batch' \in 0 .. Len(Tail(c.queue)) /\ pollout = FALSE
    BY RunsFacts DEF RunStopInLoop
  <1>2. d \in ConnectorRecord /\ QueueOnly(c, d) /\ d.queue = Tail(c.queue)
    BY <1>1, TailRecord
  <1>3. /\ c' = StopInLoop(d, M_connect) /\ c'.timers <= MaxTimers
        /\ UNCHANGED <<M_connect, phase, pollout, pc, counts>> /\ aborted' = aborted
        /\ M_connect \in BOOLEAN
    BY DEF RunStopInLoop, IInv, CallsInv
  <1>. HIDE DEF d
  <1>4. Sound(d) /\ d.queue \in Seq(FunctorSet)
    BY <1>1, <1>2, SoundTail DEF IInv, ConnectorRecord
  <1>5. \A i \in Conns :
               /\ HasFor(d.queue, "connectDestroyed", i) => HasFor(c.queue, "connectDestroyed", i)
               /\ HasFor(c.queue, "forceCloseInLoop", i) => HasFor(d.queue, "forceCloseInLoop", i)
    BY <1>1, <1>2, TailFacts
  <1>6. Has(c.queue, "startInLoop") => Has(d.queue, "startInLoop")
    BY <1>1, <1>2, TailFacts
  <1>7. AbortInv'
    BY <1>3 DEF AbortInv, IInv
  <1>8. CASE d.M_state # "kConnecting"
    <2>1. c' = d
      BY <1>3, <1>8 DEF StopInLoop
    <2>2. LoopInv'
      BY <1>1, <1>2, <1>3, <2>1 DEF LoopInv, IInv
    <2>3. PendingInv'
      BY <1>2, <1>3, <1>6, <2>1 DEF PendingInv, IInv, QueueOnly, First
    <2>. QED
      BY <1>2, <1>3, <1>4, <1>5, <1>7, <1>8, <2>1, <2>2, <2>3, FrameConnector DEF QueueOnly
  <1>9. CASE d.M_state = "kConnecting"
    <2>1. c' \in ConnectorRecord /\ AttemptFails(d, M_connect, c')
      BY <1>2, <1>3, <1>9, FailsFacts DEF StopInLoop
    <2>2. Sound(c')
      BY <1>3, <1>4, <1>9, <2>1, SoundFails
    <2>3. /\ c'.M_state = "kDisconnected" /\ c'.connections = d.connections
          /\ c'.queue = Append(d.queue, Functor("resetChannel"))
          /\ M_connect => c'.timers = d.timers + 1
      BY <2>1 DEF AttemptFails
    <2>4. /\ Len(c'.queue) = Len(d.queue) + 1 /\ Len(d.queue) \in Nat
          /\ \A i \in Conns :
               /\ HasFor(c'.queue, "connectDestroyed", i) => HasFor(d.queue, "connectDestroyed", i)
               /\ HasFor(d.queue, "forceCloseInLoop", i) => HasFor(c'.queue, "forceCloseInLoop", i)
      BY <1>4, <2>3, AppendFacts, FunctorFacts DEF ConnectorFunctors
    <2>5. LoopInv'
      BY <1>1, <1>2, <1>3, <2>3, <2>4 DEF LoopInv, IInv
    <2>6. d.timers \in Int /\ d.timers >= 0
      BY <1>4 DEF Sound
    <2>7. PendingInv'
      <3>1. M_connect => c'.timers > 0
        BY <2>3, <2>6
      <3>. QED  BY <1>3, <3>1 DEF PendingInv
    <2>8. client = "gone" => c.M_state # "kConnected"
      BY <1>2, <1>9 DEF QueueOnly
    <2>. QED
      BY <1>2, <1>3, <1>5, <1>7, <2>2, <2>3, <2>4, <2>5, <2>7, <2>8, FrameConnector
      DEF QueueOnly
  <1>. QED  BY <1>8, <1>9

LEMMA ResetRecord ==
    ASSUME Sound(c), c.queue # <<>>, Head(c.queue).f = "resetChannel"
    PROVE  LET e == [c EXCEPT !.queue = Tail(@), !.M_channel = "none"] IN
           /\ Sound(e) /\ e.queue = Tail(c.queue) /\ e.M_channel = "none"
           /\ e.M_state = c.M_state /\ e.timers = c.timers /\ e.ripe = c.ripe
           /\ e.connections = c.connections /\ e.gaveUp = c.gaveUp
  <1>. DEFINE e == [c EXCEPT !.queue = Tail(@), !.M_channel = "none"]
  <1>1. c \in ConnectorRecord /\ c.queue \in Seq(FunctorSet)
    BY QueueFacts
  <1>2. /\ Tail(c.queue) \in Seq(FunctorSet) /\ Has(c.queue, "resetChannel")
        /\ Once(c.queue, "resetChannel") => /\ Once(Tail(c.queue), "resetChannel")
                                            /\ ~Has(Tail(c.queue), "resetChannel")
    BY <1>1, TailFacts
  <1>3. e \in ConnectorRecord
    BY <1>1, <1>2 DEF ConnectorRecord
  <1>4. /\ e.M_state = c.M_state /\ e.M_retryDelayMs = c.M_retryDelayMs
        /\ e.M_channel = "none" /\ e.timers = c.timers /\ e.ripe = c.ripe
        /\ e.sockets = c.sockets /\ e.connections = c.connections
        /\ e.gaveUp = c.gaveUp /\ e.queue = Tail(c.queue)
    BY <1>1 DEF ConnectorRecord
  <1>. HIDE DEF e
  <1>5. Sound(e)
    BY <1>2, <1>3, <1>4 DEF Sound
  <1>. QED  BY <1>4, <1>5 DEF e

LEMMA ResetChannelKeeps ==
    ASSUME IInv, LoopReady, Quiet, ResetChannel
    PROVE  IInv'
  <1>1. /\ c.queue # <<>> /\ Head(c.queue).f = "resetChannel" /\ c.queue \in Seq(FunctorSet)
        /\ batch' \in 0 .. Len(Tail(c.queue)) /\ pollout = FALSE
    BY RunsFacts DEF ResetChannel
  <1>2. /\ c' = [c EXCEPT !.queue = Tail(@), !.M_channel = "none"]
        /\ UNCHANGED <<M_connect, phase, pollout, pc, counts>> /\ aborted' = aborted
    BY DEF ResetChannel
  <1>3. /\ Sound(c') /\ c'.queue = Tail(c.queue)
        /\ c'.M_state = c.M_state /\ c'.timers = c.timers
        /\ c'.connections = c.connections /\ c'.gaveUp = c.gaveUp
    BY <1>1, <1>2, ResetRecord DEF IInv
  <1>4. /\ \A i \in Conns :
               /\ HasFor(c'.queue, "connectDestroyed", i) => HasFor(c.queue, "connectDestroyed", i)
               /\ HasFor(c.queue, "forceCloseInLoop", i) => HasFor(c'.queue, "forceCloseInLoop", i)
        /\ Has(c.queue, "stopInLoop") => Has(c'.queue, "stopInLoop")
        /\ Has(c.queue, "startInLoop") => Has(c'.queue, "startInLoop")
    BY <1>1, <1>3, TailFacts
  <1>5. LoopInv'
    BY <1>1, <1>2, <1>3 DEF LoopInv, IInv
  <1>6. AbortInv'
    BY <1>2 DEF AbortInv, IInv
  <1>7. PendingInv'
    BY <1>2, <1>3, <1>4 DEF PendingInv, IInv, First
  <1>. QED  BY <1>2, <1>3, <1>4, <1>5, <1>6, <1>7, FrameConnector

LEMMA StrayFunctorKeeps ==
    ASSUME IInv, StrayFunctor
    PROVE  IInv'
  <1>1. /\ Quiet /\ LoopReady /\ aborted' = "freed"
        /\ c' = c /\ phase' = phase /\ batch' = batch /\ pollout' = pollout
        /\ UNCHANGED <<M_connect, pc, counts>>
    BY QuietSteps DEF StrayFunctor
  <1>2. Sound(c')
    BY <1>1 DEF IInv
  <1>3. LoopInv'
    BY <1>1, QuietFacts DEF LoopInv, IInv
  <1>4. AbortInv' /\ PendingInv'
    BY <1>1 DEF AbortInv, PendingInv
  <1>. QED  BY <1>1, <1>2, <1>3, <1>4, FrameConnector

(* handleError(), and handleWrite() when SO_ERROR or isSelfConnect() says  *)
(* that the attempt failed.                                                *)
LEMMA AttemptFailsKeeps ==
    ASSUME IInv, LoopReady, Quiet, c.M_state = "kConnecting",
           c' \in ConnectorRecord, AttemptFails(c, M_connect, c'), c'.timers <= MaxTimers,
           UNCHANGED <<M_connect, phase, batch, pc, counts, aborted>>, pollout' \in BOOLEAN
    PROVE  IInv'
  <1>1. c \in ConnectorRecord /\ c.queue \in Seq(FunctorSet) /\ M_connect \in BOOLEAN
    BY QueueFacts DEF IInv, CallsInv
  <1>2. Sound(c')
    BY <1>1, SoundFails DEF IInv
  <1>3. /\ c'.M_state = "kDisconnected" /\ c'.connections = c.connections
        /\ c'.queue = Append(c.queue, Functor("resetChannel"))
        /\ M_connect => c'.timers = c.timers + 1
    BY DEF AttemptFails
  <1>4. /\ Len(c'.queue) = Len(c.queue) + 1 /\ Len(c.queue) \in Nat
        /\ \A i \in Conns :
               /\ HasFor(c'.queue, "connectDestroyed", i) => HasFor(c.queue, "connectDestroyed", i)
               /\ HasFor(c.queue, "forceCloseInLoop", i) => HasFor(c'.queue, "forceCloseInLoop", i)
    BY <1>1, <1>3, AppendFacts, FunctorFacts DEF ConnectorFunctors
  <1>5. LoopInv'
    BY <1>3, <1>4, QuietFacts DEF LoopInv, IInv, LoopReady
  <1>6. c.timers \in Int /\ c.timers >= 0
    BY DEF IInv, Sound
  <1>7. PendingInv'
    <2>1. M_connect => c'.timers > 0
      BY <1>3, <1>6
    <2>. QED  BY <2>1 DEF PendingInv
  <1>8. AbortInv'
    BY DEF AbortInv, IInv
  <1>. QED  BY <1>2, <1>3, <1>4, <1>5, <1>7, <1>8, FrameConnector

LEMMA SocketFailsKeeps ==
    ASSUME IInv, SocketFails
    PROVE  IInv'
  <1>1. /\ LoopReady /\ Quiet /\ c.M_channel = "registered" /\ c' = HandleError(c, M_connect)
        /\ c'.timers <= MaxTimers /\ pollout' \in BOOLEAN
        /\ UNCHANGED <<M_connect, phase, batch, pc, counts, aborted>>
    BY QuietSteps DEF SocketFails, ErrorEvent
  <1>2. c.M_state = "kConnecting" /\ c \in ConnectorRecord /\ M_connect \in BOOLEAN
    BY <1>1 DEF IInv, Sound, CallsInv
  <1>3. c' \in ConnectorRecord /\ AttemptFails(c, M_connect, c')
    BY <1>1, <1>2, FailsFacts DEF HandleError
  <1>. QED  BY <1>1, <1>2, <1>3, AttemptFailsKeeps

(* newConnection(): the client is alive, for the connector of one that     *)
(* went is stopped.                                                        *)
LEMMA NewConnectionKeeps ==
    ASSUME IInv, LoopReady, c.M_state = "kConnecting", M_connect,
           c' \in ConnectorRecord, AttemptSucceeds(c, M_connect, c'), NewConnection,
           UNCHANGED <<M_connect, phase, batch, pc, counts, aborted, held, closing,
                       clientVars, raced, shared, letGo, abandoned, slow>>,
           pollout' = FALSE
    PROVE  IInv'
  <1>1. c \in ConnectorRecord /\ c.queue \in Seq(FunctorSet) /\ M_connect = TRUE
    BY QueueFacts DEF IInv, CallsInv
  <1>2. Sound(c') /\ c.connections = 0
    BY <1>1, SoundSucceeds DEF IInv
  <1>3. /\ c'.M_state = "kConnected" /\ c'.connections = 1
        /\ c'.queue = Append(c.queue, Functor("resetChannel"))
    BY <1>1, <1>2 DEF AttemptSucceeds
  <1>4. /\ Len(c'.queue) = Len(c.queue) + 1 /\ Len(c.queue) \in Nat
        /\ \A i \in Conns :
               HasFor(c'.queue, "connectDestroyed", i) => HasFor(c.queue, "connectDestroyed", i)
    BY <1>1, <1>3, AppendFacts, FunctorFacts DEF ConnectorFunctors
  <1>5. client = "alive" /\ closing = NoConn /\ ~restarting
    BY <1>1 DEF IInv, GoneInv, AliveInv, LoopReady
  <1>6. /\ UNCHANGED <<client, M_retry, clientConnect, restarting, calling, keeper>>
        /\ held' = held /\ closing' = closing /\ shared' = shared /\ letGo' = letGo
        /\ raced' = raced /\ abandoned' = abandoned /\ slow' = slow
    BY DEF clientVars
  <1>. DEFINE n == M_nextConnId
  <1>7. /\ n \in Conns /\ n \in Nat /\ conn' = [conn EXCEPT ![n].state = "kConnected"]
        /\ M_connection' = n /\ M_nextConnId' = n + 1
        /\ touched' = (touched \/ client = "gone")
    BY TcpClientAssumption DEF NewConnection, IInv, ConnsInv, Conns
  <1>. HIDE DEF n
  <1>8. /\ conn' \in [Conns -> [state : {"none", "kConnected", "kDisconnecting", "kDisconnected"},
                                callback : {"removeConnection", "detail"}]]
        /\ conn'[n].state = "kConnected" /\ conn'[n].callback = conn[n].callback
        /\ \A i \in Conns : i # n => conn'[i] = conn[i]
    BY <1>7 DEF IInv, ConnsInv
  <1>9. \A i \in Conns : ~Attached(i)
    BY <1>2 DEF IInv, ConnsInv
  <1>10. \A i \in Conns : Attached(i)' <=> i = n
    <2>1. 0 \notin Conns /\ closing' = 0
      BY <1>5, <1>6 DEF Conns, NoConn
    <2>. QED  BY <1>8, <1>9, <2>1 DEF Attached, Open
  <1>11. LoopInv' /\ AbortInv'
    <2>1. phase' \in {"events", "functors"} /\ batch' \in 0 .. Len(c'.queue)
      BY <1>4 DEF LoopInv, IInv
    <2>. QED  BY <2>1 DEF LoopInv, AbortInv, IInv
  <1>12. CallsInv'
    BY <1>6, FrameCalls DEF IInv
  <1>13. ConnsInv'
    <2>1. M_nextConnId' \in 1 .. MaxConns + 1 /\ M_nextConnId' = n + 1
      BY <1>7, TcpClientAssumption DEF Conns
    <2>2. \A i \in Conns : conn'[i].state = "none" <=> i >= n + 1
      <3>1. \A i \in Conns : conn[i].state = "none" <=> i >= n
        BY DEF IInv, ConnsInv, n
      <3>. QED  BY <1>7, <1>8, <3>1 DEF Conns
    <2>3. \A i \in Conns : HasFor(c'.queue, "connectDestroyed", i) =>
              conn'[i].state = "kDisconnected"
      <3>1. \A i \in Conns : HasFor(c.queue, "connectDestroyed", i) =>
                conn[i].state = "kDisconnected"
        BY DEF IInv, ConnsInv
      <3>2. conn[n].state = "none"
        BY <1>7 DEF IInv, ConnsInv, n
      <3>. QED  BY <1>4, <1>8, <3>1, <3>2
    <2>4. /\ held' \subseteq Conns /\ shared' \subseteq Conns /\ letGo' \subseteq Conns
          /\ closing' = NoConn
      BY <1>5, <1>6 DEF IInv, ConnsInv
    <2>5. \A i \in Conns : Attached(i)' => i = M_nextConnId' - 1
      BY <1>7, <1>10
    <2>. QED  BY <1>3, <1>7, <1>8, <1>10, <2>1, <2>2, <2>3, <2>4, <2>5 DEF ConnsInv
  <1>14. AliveInv'
    <2>1. \A i \in Conns : conn'[i].callback = "removeConnection"
      BY <1>5, <1>8 DEF IInv, AliveInv
    <2>. QED  BY <1>5, <1>6, <1>7, <1>10, <2>1 DEF AliveInv
  <1>15. GoneInv'
    BY <1>5, <1>6 DEF GoneInv
  <1>16. FlagsInv'
    BY <1>5, <1>6, <1>7 DEF FlagsInv, IInv
  <1>17. PendingInv'
    BY <1>3 DEF PendingInv
  <1>. QED
    BY <1>2, <1>11, <1>12, <1>13, <1>14, <1>15, <1>16, <1>17 DEF IInv

LEMMA WritableKeeps ==
    ASSUME IInv, Writable
    PROVE  IInv'
  <1>1. /\ LoopReady /\ WriteEvent
        /\ IF c'.connections > c.connections
           THEN NewConnection
           ELSE UNCHANGED <<conn, M_connection, M_nextConnId, touched>>
        /\ UNCHANGED <<held, closing, clientVars, raced, shared, letGo, abandoned, slow>>
    BY DEF Writable
  <1>2. /\ pollout \/ c.M_channel = "registered"
        /\ c'.timers <= MaxTimers /\ pollout' = FALSE
        /\ UNCHANGED <<M_connect, phase, batch, pc, counts>>
    BY <1>1 DEF WriteEvent
  <1>3. c \in ConnectorRecord /\ M_connect \in BOOLEAN /\ c.connections \in Int
    BY RecordNumbers DEF IInv, Sound, CallsInv
  <1>4. c.M_state # "kConnected"
    BY <1>2 DEF IInv, Sound, LoopInv
  <1>5. c' \in HandleWrite(c, M_connect) /\ aborted' = aborted
    BY <1>1, <1>4 DEF WriteEvent
  <1>6. ASSUME c'.connections = c.connections PROVE Quiet
    BY <1>1, <1>3, <1>6, QuietSteps DEF connVars, history
  <1>7. CASE c.M_state # "kConnecting"
    <2>1. c' = c
      BY <1>5, <1>7 DEF HandleWrite
    <2>2. Quiet
      BY <1>6, <2>1
    <2>3. Sound(c')
      BY <2>1 DEF IInv
    <2>4. LoopInv' /\ AbortInv'
      BY <1>2, <1>5, <2>1 DEF LoopInv, AbortInv, IInv
    <2>5. PendingInv'
      BY <1>2, <1>5, <2>1 DEF PendingInv, First, IInv
    <2>. QED  BY <1>1, <1>2, <2>1, <2>2, <2>3, <2>4, <2>5, FrameConnector
  <1>8. CASE c.M_state = "kConnecting" /\ c' = Retry(RemoveAndResetChannel(c), M_connect)
    <2>1. c' \in ConnectorRecord /\ AttemptFails(c, M_connect, c')
      BY <1>3, <1>8, FailsFacts
    <2>2. Quiet
      BY <1>6, <2>1 DEF AttemptFails
    <2>. QED  BY <1>1, <1>2, <1>5, <1>8, <2>1, <2>2, AttemptFailsKeeps
  <1>9. CASE c.M_state = "kConnecting" /\ c' = Connected(RemoveAndResetChannel(c), M_connect)
    <2>1. c' \in ConnectorRecord /\ AttemptSucceeds(c, M_connect, c')
      BY <1>3, <1>9, SucceedsFacts
    <2>2. CASE M_connect
      <3>1. c'.connections = c.connections + 1
        BY <2>1, <2>2 DEF AttemptSucceeds
      <3>2. NewConnection
        BY <1>1, <1>3, <3>1
      <3>. QED  BY <1>1, <1>2, <1>5, <1>9, <2>1, <2>2, <3>2, NewConnectionKeeps
    <2>3. CASE ~M_connect
      <3>1. Sound(c')
        BY <1>3, <1>9, <2>1, SoundSucceeds DEF IInv
      <3>2. /\ c'.connections = c.connections /\ c'.M_state = "kConnected"
            /\ c'.queue = Append(c.queue, Functor("resetChannel"))
        BY <2>1, <2>3 DEF AttemptSucceeds
      <3>3. /\ Len(c'.queue) = Len(c.queue) + 1 /\ Len(c.queue) \in Nat
            /\ \A i \in Conns :
                /\ HasFor(c'.queue, "connectDestroyed", i) => HasFor(c.queue, "connectDestroyed", i)
                /\ HasFor(c.queue, "forceCloseInLoop", i) => HasFor(c'.queue, "forceCloseInLoop", i)
        BY <1>3, <3>2, AppendFacts, FunctorFacts DEF ConnectorFunctors, ConnectorRecord
      <3>4. Quiet
        BY <1>6, <3>2
      <3>5. LoopInv' /\ AbortInv'
        <4>1. phase' \in {"events", "functors"} /\ batch' \in 0 .. Len(c'.queue)
          BY <1>2, <3>3 DEF LoopInv, IInv
        <4>. QED  BY <1>2, <1>5, <4>1 DEF LoopInv, AbortInv, IInv
      <3>6. PendingInv'
        BY <3>2 DEF PendingInv
      <3>. QED  BY <1>1, <1>2, <3>1, <3>2, <3>3, <3>4, <3>5, <3>6, FrameConnector
    <2>. QED  BY <2>2, <2>3
  <1>. QED  BY <1>5, <1>7, <1>8, <1>9 DEF HandleWrite

-----------------------------------------------------------------------------
(* The connection's steps.                                                 *)

(* A functor of a connection leaves the queue, and that is all.            *)
LEMMA DropKeeps ==
    ASSUME IInv, LoopReady, Quiet, NEW f \in ConnFunctors, RunsFunctor(f),
           c' = [c EXCEPT !.queue = Tail(@)],
           f = "forceCloseInLoop" => ~Open(Head(c.queue).of),
           UNCHANGED <<M_connect, phase, pollout, pc, counts>>,
           aborted' = aborted \/ aborted' = "~TcpConnection"
    PROVE  IInv'
  <1>1. /\ c.queue # <<>> /\ Head(c.queue).f = f /\ c.queue \in Seq(FunctorSet)
        /\ c \in ConnectorRecord /\ batch' \in 0 .. Len(Tail(c.queue)) /\ pollout = FALSE
    BY RunsFacts
  <1>2. c' \in ConnectorRecord /\ QueueOnly(c, c') /\ c'.queue = Tail(c.queue)
    BY <1>1, TailRecord
  <1>3. f \notin ConnectorFunctors
    BY DEF ConnFunctors, ConnectorFunctors
  <1>4. Sound(c')
    BY <1>1, <1>2, <1>3, SoundTail DEF IInv, ConnectorFunctors
  <1>5. /\ Has(c.queue, "stopInLoop") => Has(c'.queue, "stopInLoop")
        /\ Has(c.queue, "startInLoop") => Has(c'.queue, "startInLoop")
    BY <1>1, <1>2, <1>3, TailFacts DEF ConnectorFunctors
  <1>6. ASSUME NEW i \in Conns
        PROVE  /\ HasFor(c'.queue, "connectDestroyed", i) => HasFor(c.queue, "connectDestroyed", i)
               /\ Open(i) /\ HasFor(c.queue, "forceCloseInLoop", i) =>
                      HasFor(c'.queue, "forceCloseInLoop", i)
    <2>1. HasFor(c'.queue, "connectDestroyed", i) => HasFor(c.queue, "connectDestroyed", i)
      BY <1>1, <1>2, TailFacts
    <2>2. CASE f = "forceCloseInLoop" /\ Open(i)
      <3>1. Head(c.queue).of # i
        BY <2>2
      <3>. QED  BY <1>1, <1>2, <2>1, <3>1, TailFacts
    <2>3. CASE f # "forceCloseInLoop"
      BY <1>1, <1>2, <2>1, <2>3, TailFacts
    <2>. QED  BY <2>1, <2>2, <2>3
  <1>7. LoopInv'
    BY <1>1, <1>2 DEF LoopInv, IInv
  <1>8. AbortInv'
    BY DEF AbortInv, IInv
  <1>9. PendingInv'
    BY <1>2, <1>5 DEF PendingInv, IInv, QueueOnly, First
  <1>. QED
    BY <1>2, <1>4, <1>5, <1>6, <1>7, <1>8, <1>9, FrameConnector DEF QueueOnly

(* handleClose(), by an event or by forceCloseInLoop().                    *)
LEMMA ClosesKeeps ==
    ASSUME IInv, LoopReady, NEW i \in Conns, Open(i), Closes(i),
           Sound(c'), QueueOnly(c, c'),
           UNCHANGED <<M_connect, phase, pollout, pc, counts, aborted, M_connection,
                       M_nextConnId, held, clientVars, history>>,
           pollout = FALSE, batch' \in 0 .. Len(c'.queue),
           \A j \in Conns : HasFor(c'.queue, "connectDestroyed", j) =>
               HasFor(c.queue, "connectDestroyed", j),
           Has(c.queue, "startInLoop") => Has(c'.queue, "startInLoop"),
           Has(c.queue, "stopInLoop") => Has(c'.queue, "stopInLoop")
    PROVE  IInv'
  <1>1. /\ closing = NoConn /\ ~restarting /\ closing' = i
        /\ conn' = [conn EXCEPT ![i].state = "kDisconnected"]
        /\ M_connect' = M_connect /\ pc' = pc /\ UNCHANGED <<calls, lastCall, overlapped>>
        /\ aborted' = aborted /\ M_connection' = M_connection /\ M_nextConnId' = M_nextConnId
        /\ held' = held /\ shared' = shared /\ letGo' = letGo
        /\ raced' = raced /\ abandoned' = abandoned /\ slow' = slow /\ touched' = touched
        /\ UNCHANGED <<client, M_retry, clientConnect, restarting, calling, keeper>>
    BY DEF LoopReady, Closes, clientVars, history, counts
  <1>2. /\ conn' \in [Conns -> [state : {"none", "kConnected", "kDisconnecting", "kDisconnected"},
                                callback : {"removeConnection", "detail"}]]
        /\ conn'[i].state = "kDisconnected"
        /\ \A j \in Conns : conn'[j].callback = conn[j].callback
        /\ \A j \in Conns : j # i => conn'[j] = conn[j]
    BY <1>1 DEF IInv, ConnsInv
  <1>3. i \in Nat \ {0} /\ i = M_nextConnId - 1 /\ M_nextConnId \in Nat
    BY TcpClientAssumption DEF IInv, ConnsInv, Attached, Conns
  <1>4. \A j \in Conns : Attached(j) <=> j = i
    BY <1>3 DEF IInv, ConnsInv, Attached
  <1>5. \A j \in Conns : (Attached(j)' <=> j = i) /\ ~Open(j)'
    <2>1. ~Open(i)'
      BY <1>2 DEF Open
    <2>2. ASSUME NEW j \in Conns, j # i PROVE ~Open(j)'
      BY <1>2, <1>4, <2>2 DEF Open, Attached
    <2>. QED  BY <1>1, <2>1, <2>2 DEF Attached
  <1>6. c.connections = 1 /\ c.M_state = "kConnected" /\ c'.M_state = "kConnected"
    BY <1>4 DEF IInv, ConnsInv, Sound, QueueOnly
  <1>7. LoopInv'
    BY <1>1, <1>6 DEF IInv, LoopInv
  <1>8. CallsInv' /\ AbortInv' /\ FlagsInv'
    <2>1. CallsInv'
      BY <1>1 DEF IInv, CallsInv
    <2>. QED  BY <1>1, <2>1 DEF IInv, AbortInv, FlagsInv
  <1>9. ConnsInv'
    <2>1. \A j \in Conns : conn'[j].state = "none" <=> j >= M_nextConnId'
      BY <1>1, <1>2, <1>3 DEF IInv, ConnsInv
    <2>2. \A j \in Conns : HasFor(c'.queue, "connectDestroyed", j) =>
              conn'[j].state = "kDisconnected"
      BY <1>2 DEF IInv, ConnsInv
    <2>3. c'.connections = 1 /\ M_nextConnId' \in 1 .. MaxConns + 1
          /\ held' \subseteq Conns /\ shared' \subseteq Conns /\ letGo' \subseteq Conns
      BY <1>1, <1>6 DEF IInv, ConnsInv, QueueOnly
    <2>. QED  BY <1>1, <1>2, <1>3, <1>5, <2>1, <2>2, <2>3 DEF ConnsInv
  <1>10. AliveInv'
    BY <1>1, <1>2, <1>4, <1>5 DEF IInv, AliveInv
  <1>11. GoneInv'
    BY <1>1, <1>2, <1>4, <1>5, <1>6 DEF IInv, GoneInv
  <1>12. PendingInv'
    BY <1>6 DEF PendingInv
  <1>. QED  BY <1>7, <1>8, <1>9, <1>10, <1>11, <1>12 DEF IInv

LEMMA HandleCloseKeeps ==
    ASSUME IInv, NEW i \in Conns, HandleClose(i)
    PROVE  IInv'
  <1>1. /\ LoopReady /\ Open(i) /\ Closes(i) /\ pollout = FALSE
        /\ UNCHANGED <<connectorVars, M_connection, M_nextConnId, held, clientVars, history>>
    BY DEF HandleClose, Polled, LoopIsFree, IInv, LoopInv
  <1>2. c' = c /\ batch' = batch /\ UNCHANGED <<M_connect, phase, pollout, pc, counts, aborted>>
    BY <1>1 DEF connectorVars
  <1>3. Sound(c') /\ QueueOnly(c, c') /\ batch' \in 0 .. Len(c'.queue)
    BY <1>2 DEF IInv, QueueOnly, LoopInv
  <1>. QED  BY <1>1, <1>2, <1>3, ClosesKeeps

LEMMA RunForceCloseKeeps ==
    ASSUME IInv, NEW i \in Conns, RunForceClose(i)
    PROVE  IInv'
  <1>1. /\ LoopReady /\ RunsFunctor("forceCloseInLoop") /\ Head(c.queue).of = i
        /\ c' = [c EXCEPT !.queue = Tail(@)]
        /\ IF Open(i) THEN Closes(i) ELSE UNCHANGED <<conn, closing>>
        /\ UNCHANGED <<M_connect, phase, pollout, pc, counts, aborted, M_connection,
                       M_nextConnId, held, clientVars, history>>
    BY DEF RunForceClose
  <1>2. CASE ~Open(i)
    <2>1. Quiet
      BY <1>1, <1>2, QuietSteps DEF connVars
    <2>2. "forceCloseInLoop" \in ConnFunctors
      BY DEF ConnFunctors
    <2>. QED  BY <1>1, <1>2, <2>1, <2>2, DropKeeps
  <1>3. CASE Open(i)
    <2>1. /\ c.queue # <<>> /\ Head(c.queue).f = "forceCloseInLoop"
          /\ c.queue \in Seq(FunctorSet) /\ c \in ConnectorRecord
          /\ batch' \in 0 .. Len(Tail(c.queue)) /\ pollout = FALSE
      BY <1>1, RunsFacts
    <2>2. c' \in ConnectorRecord /\ QueueOnly(c, c') /\ c'.queue = Tail(c.queue)
      BY <1>1, <2>1, TailRecord
    <2>3. Sound(c')
      BY <2>1, <2>2, SoundTail DEF IInv
    <2>4. /\ \A j \in Conns : HasFor(c'.queue, "connectDestroyed", j) =>
                 HasFor(c.queue, "connectDestroyed", j)
          /\ Has(c.queue, "startInLoop") => Has(c'.queue, "startInLoop")
          /\ Has(c.queue, "stopInLoop") => Has(c'.queue, "stopInLoop")
      BY <2>1, <2>2, TailFacts
    <2>. QED  BY <1>1, <1>3, <2>1, <2>2, <2>3, <2>4, ClosesKeeps
  <1>. QED  BY <1>2, <1>3

LEMMA RunConnectDestroyedKeeps ==
    ASSUME IInv, NEW i \in Conns, RunConnectDestroyed(i)
    PROVE  IInv' /\ conn' = conn
  <1>1. /\ LoopReady /\ RunsFunctor("connectDestroyed") /\ Head(c.queue).of = i
        /\ c' = [c EXCEPT !.queue = Tail(@)]
        /\ conn' = [conn EXCEPT ![i].state = "kDisconnected"]
        /\ UNCHANGED <<M_connect, phase, pollout, pc, counts, aborted, M_connection,
                       M_nextConnId, held, closing, clientVars, history>>
    BY DEF RunConnectDestroyed
  <1>2. HasFor(c.queue, "connectDestroyed", i)
    BY <1>1, RunsFacts, TailFacts
  <1>3. conn[i].state = "kDisconnected"
    BY <1>2 DEF IInv, ConnsInv
  <1>4. conn' = conn
    BY <1>1, <1>3 DEF IInv, ConnsInv
  <1>5. Quiet
    BY <1>1, <1>4, QuietSteps DEF connVars
  <1>6. "connectDestroyed" \in ConnFunctors
    BY DEF ConnFunctors
  <1>. QED  BY <1>1, <1>4, <1>5, <1>6, DropKeeps

LEMMA RunWriteCompleteKeeps ==
    ASSUME IInv, NEW i \in Conns, RunWriteComplete(i)
    PROVE  IInv'
  <1>1. "writeComplete" \in ConnFunctors
    BY DEF ConnFunctors
  <1>2. /\ LoopReady /\ RunsFunctor("writeComplete") /\ c' = [c EXCEPT !.queue = Tail(@)]
        /\ UNCHANGED <<M_connect, phase, pollout, pc, counts>> /\ Quiet
        /\ aborted' = aborted \/ aborted' = "~TcpConnection"
    BY QuietSteps DEF RunWriteComplete, DropsPointer
  <1>. QED  BY <1>1, <1>2, DropKeeps

(* A functor is queued, other than resetChannel.                           *)
LEMMA PushFacts ==
    ASSUME IInv, NEW x \in FunctorSet, x.f # "resetChannel", Push(x)
    PROVE  /\ Sound(c') /\ QueueOnly(c, c') /\ batch \in 0 .. Len(c'.queue)
           /\ \A f : Has(c'.queue, f) <=> Has(c.queue, f) \/ x.f = f
           /\ \A f, i : HasFor(c'.queue, f, i) <=> HasFor(c.queue, f, i) \/ (x.f = f /\ x.of = i)
           /\ \A f : Once(c.queue, f) /\ (x.f # f \/ ~Has(c.queue, f)) => Once(c'.queue, f)
           /\ \A f, b : Early(c.queue, b, f) => Early(c'.queue, b, f)
  <1>1. c \in ConnectorRecord /\ c.queue \in Seq(FunctorSet)
    BY QueueFacts DEF IInv
  <1>2. c' \in ConnectorRecord /\ QueueOnly(c, c') /\ c'.queue = Append(c.queue, x)
    BY <1>1, AppendRecord DEF Push
  <1>3. Sound(c')
    BY <1>2, SoundAppend DEF IInv
  <1>4. batch \in 0 .. Len(c'.queue)
    BY <1>1, <1>2, AppendFacts DEF IInv, LoopInv
  <1>. QED  BY <1>1, <1>2, <1>3, <1>4, AppendFacts

LEMMA SendCompletesKeeps ==
    ASSUME IInv, SendCompletes
    PROVE  IInv'
  <1>1. PICK i \in Conns : Push(OfConn("writeComplete", i))
    BY DEF SendCompletes
  <1>. DEFINE x == OfConn("writeComplete", i)
  <1>2. x \in FunctorSet /\ x.f = "writeComplete"
    BY FunctorFacts DEF ConnFunctors
  <1>3. /\ LoopReady /\ Quiet
        /\ UNCHANGED <<M_connect, phase, batch, pollout, pc, counts, aborted>>
    BY QuietSteps DEF SendCompletes
  <1>. HIDE DEF x
  <1>4. /\ Sound(c') /\ QueueOnly(c, c') /\ batch \in 0 .. Len(c'.queue)
        /\ \A f : Has(c'.queue, f) <=> Has(c.queue, f) \/ x.f = f
        /\ \A f, j : HasFor(c'.queue, f, j) <=> HasFor(c.queue, f, j) \/ (x.f = f /\ x.of = j)
    BY <1>1, <1>2, PushFacts DEF x
  <1>5. LoopInv'
    BY <1>3, <1>4, QuietFacts DEF LoopInv, IInv, QueueOnly
  <1>6. AbortInv'
    BY <1>3 DEF AbortInv, IInv
  <1>7. PendingInv'
    BY <1>3, <1>4 DEF PendingInv, First, IInv, QueueOnly
  <1>. QED  BY <1>2, <1>3, <1>4, <1>5, <1>6, <1>7, FrameConnector DEF QueueOnly

LEMMA BackRecord ==
    ASSUME Sound(c), c.connections = 1
    PROVE  LET e == HandedBack(c) IN
           /\ Sound(e) /\ e.connections = 0 /\ e.queue = c.queue /\ e.M_state = c.M_state
           /\ e.M_channel = c.M_channel /\ e.timers = c.timers /\ e.ripe = c.ripe
           /\ e.gaveUp = c.gaveUp
  <1>. DEFINE e == [c EXCEPT !.connections = @ - 1, !.sockets = @ - 1]
  <1>1. c \in ConnectorRecord
    BY DEF Sound
  <1>2. e \in ConnectorRecord
    BY <1>1, RecordNumbers DEF ConnectorRecord
  <1>3. /\ e.M_state = c.M_state /\ e.M_retryDelayMs = c.M_retryDelayMs
        /\ e.M_channel = c.M_channel /\ e.timers = c.timers /\ e.ripe = c.ripe
        /\ e.sockets = c.sockets - 1 /\ e.connections = c.connections - 1
        /\ e.queue = c.queue /\ e.gaveUp = c.gaveUp
    BY <1>1 DEF ConnectorRecord
  <1>4. e = HandedBack(c)
    BY DEF HandedBack
  <1>. HIDE DEF e
  <1>5. Sound(e) /\ e.connections = 0
    BY <1>2, <1>3 DEF Sound
  <1>. QED  BY <1>3, <1>4, <1>5

(* The connection that is in handleClose().                                *)
LEMMA ClosingFacts ==
    ASSUME IInv, closing # NoConn
    PROVE  /\ closing \in Conns /\ conn[closing].state = "kDisconnected"
           /\ \A j \in Conns : Attached(j) <=> j = closing
           /\ \A j \in Conns : ~Open(j)
           /\ c.connections = 1 /\ c.M_state = "kConnected"
           /\ ~restarting /\ pollout = FALSE
           /\ client = "alive" => M_connection = closing
           /\ conn[closing].callback = "removeConnection" => client = "alive"
  <1>1. closing \in Conns /\ conn[closing].state = "kDisconnected"
    BY DEF IInv, ConnsInv
  <1>2. Attached(closing)
    BY DEF Attached
  <1>3. \A j \in Conns : Attached(j) <=> j = closing
    BY <1>1, <1>2 DEF IInv, ConnsInv
  <1>4. \A j \in Conns : ~Open(j)
    BY <1>1, <1>3 DEF Attached, Open
  <1>5. c.connections = 1 /\ c.M_state = "kConnected"
    BY <1>1, <1>2 DEF IInv, ConnsInv, Sound
  <1>6. ~restarting /\ pollout = FALSE
    BY DEF IInv, AliveInv, LoopInv
  <1>7. client = "alive" => M_connection = closing
    BY <1>1, <1>2 DEF IInv, AliveInv
  <1>8. conn[closing].callback = "removeConnection" => client = "alive"
    BY <1>1, <1>2 DEF IInv, AliveInv, GoneInv
  <1>. QED  BY <1>1, <1>3, <1>4, <1>5, <1>6, <1>7, <1>8

LEMMA RemoveConnectionFacts ==
    ASSUME IInv, RemoveConnection
    PROVE  /\ client = "alive" /\ Sound(c') /\ c'.M_state = "kConnected" /\ c'.connections = 0
           /\ c'.M_channel = c.M_channel /\ c'.timers = c.timers /\ c'.ripe = c.ripe
           /\ aborted' = aborted /\ M_connection' = NoConn /\ closing' = NoConn
           /\ restarting' = (M_retry /\ clientConnect) /\ touched' = FALSE
           /\ \A f : Has(c'.queue, f) <=> Has(c.queue, f) \/ f = "connectDestroyed"
           /\ \A f, i : HasFor(c'.queue, f, i) <=>
                  HasFor(c.queue, f, i) \/ (f = "connectDestroyed" /\ i = closing)
           /\ \A f : f # "connectDestroyed" /\ Once(c.queue, f) => Once(c'.queue, f)
           /\ \A f, b : Early(c.queue, b, f) => Early(c'.queue, b, f)
           /\ batch \in 0 .. Len(c'.queue)
  <1>1. /\ closing # NoConn /\ conn[closing].callback = "removeConnection"
        /\ closing' = NoConn /\ touched' = (touched \/ client = "gone")
    BY DEF RemoveConnection
  <1>2. /\ client = "alive" /\ M_connection = closing /\ closing \in Conns
        /\ c.connections = 1 /\ c.M_state = "kConnected"
    BY <1>1, ClosingFacts
  <1>. DEFINE x == OfConn("connectDestroyed", closing)
              d == HandedBack(c)
  <1>3. /\ M_connection' = NoConn /\ restarting' = (M_retry /\ clientConnect)
        /\ aborted' = aborted /\ c' = [d EXCEPT !.queue = Append(@, x)]
    BY <1>2 DEF RemoveConnection
  <1>4. x \in FunctorSet /\ x.f = "connectDestroyed" /\ x.of = closing
    BY <1>2, FunctorFacts DEF ConnFunctors
  <1>5. /\ Sound(d) /\ d.connections = 0 /\ d.queue = c.queue /\ d.M_state = c.M_state
        /\ d.M_channel = c.M_channel /\ d.timers = c.timers /\ d.ripe = c.ripe
    BY <1>2, BackRecord DEF IInv
  <1>. HIDE DEF x, d
  <1>6. d \in ConnectorRecord /\ d.queue \in Seq(FunctorSet)
    BY <1>5 DEF Sound, ConnectorRecord
  <1>7. c' \in ConnectorRecord /\ QueueOnly(d, c') /\ c'.queue = Append(d.queue, x)
    BY <1>3, <1>4, <1>6, AppendRecord
  <1>8. Sound(c')
    BY <1>4, <1>5, <1>7, SoundAppend
  <1>9. touched' = FALSE
    BY <1>1, <1>2 DEF IInv, FlagsInv
  <1>10. batch \in 0 .. Len(c'.queue)
    BY <1>4, <1>5, <1>6, <1>7, AppendFacts DEF IInv, LoopInv
  <1>11. /\ \A f : Has(c'.queue, f) <=> Has(c.queue, f) \/ f = "connectDestroyed"
         /\ \A f, i : HasFor(c'.queue, f, i) <=>
                HasFor(c.queue, f, i) \/ (f = "connectDestroyed" /\ i = closing)
         /\ \A f : f # "connectDestroyed" /\ Once(c.queue, f) => Once(c'.queue, f)
         /\ \A f, b : Early(c.queue, b, f) => Early(c'.queue, b, f)
    BY <1>4, <1>5, <1>6, <1>7, AppendFacts
  <1>. QED
    BY <1>1, <1>2, <1>3, <1>5, <1>7, <1>8, <1>9, <1>10, <1>11 DEF QueueOnly

LEMMA RemoveConnectionKeeps ==
    ASSUME IInv, RemoveConnection
    PROVE  IInv'
  <1>1. /\ M_connect' = M_connect /\ phase' = phase /\ batch' = batch /\ pollout' = pollout
        /\ pc' = pc /\ counts' = counts /\ M_nextConnId' = M_nextConnId /\ conn' = conn
        /\ held' = held /\ client' = client /\ M_retry' = M_retry
        /\ clientConnect' = clientConnect /\ calling' = calling /\ keeper' = keeper
        /\ raced' = raced /\ shared' = shared /\ letGo' = letGo /\ abandoned' = abandoned
        /\ slow' = slow /\ closing # NoConn
    BY DEF RemoveConnection
  <1>2. /\ client = "alive" /\ Sound(c') /\ c'.M_state = "kConnected" /\ c'.connections = 0
        /\ aborted' = aborted /\ M_connection' = NoConn /\ closing' = NoConn
        /\ restarting' = (M_retry /\ clientConnect) /\ touched' = FALSE
        /\ \A i : HasFor(c'.queue, "connectDestroyed", i) <=>
                  HasFor(c.queue, "connectDestroyed", i) \/ i = closing
        /\ batch \in 0 .. Len(c'.queue)
    BY RemoveConnectionFacts
  <1>3. /\ closing \in Conns /\ conn[closing].state = "kDisconnected"
        /\ \A j \in Conns : ~Open(j)
        /\ pollout = FALSE
    BY <1>1, ClosingFacts
  <1>4. \A j \in Conns : ~Attached(j)'
    BY <1>1, <1>2, <1>3 DEF Attached, Open, Conns, NoConn
  <1>5. LoopInv'
    BY <1>1, <1>2, <1>3 DEF IInv, LoopInv
  <1>6. CallsInv'
    BY <1>1, FrameCalls DEF IInv
  <1>7. AbortInv'
    BY <1>2 DEF IInv, AbortInv
  <1>8. ConnsInv'
    BY <1>1, <1>2, <1>3, <1>4 DEF IInv, ConnsInv
  <1>9. AliveInv'
    <2>1. \A j \in Conns : conn'[j].callback = "removeConnection" /\ M_connection' # j
      BY <1>1, <1>2 DEF IInv, AliveInv, Conns, NoConn
    <2>. QED  BY <1>1, <1>2, <1>4, <2>1 DEF AliveInv
  <1>10. GoneInv'
    BY <1>1, <1>2 DEF GoneInv
  <1>11. FlagsInv'
    BY <1>1, <1>2 DEF IInv, FlagsInv, CallsInv
  <1>12. PendingInv'
    BY <1>2 DEF PendingInv
  <1>. QED
    BY <1>2, <1>5, <1>6, <1>7, <1>8, <1>9, <1>10, <1>11, <1>12 DEF IInv

LEMMA DetailRemoveConnectionKeeps ==
    ASSUME IInv, DetailRemoveConnection
    PROVE  IInv'
  <1>1. /\ M_connect' = M_connect /\ phase' = phase /\ batch' = batch /\ pollout' = pollout
        /\ pc' = pc /\ counts' = counts /\ aborted' = aborted /\ M_connection' = M_connection
        /\ M_nextConnId' = M_nextConnId /\ conn' = conn /\ held' = held
        /\ UNCHANGED <<client, M_retry, clientConnect, restarting, calling, keeper>>
        /\ UNCHANGED <<raced, abandoned, slow, touched>> /\ shared' = shared /\ letGo' = letGo
        /\ closing # NoConn /\ closing' = NoConn /\ c' = HandedBack(c)
        /\ conn[closing].callback = "detail"
    BY DEF DetailRemoveConnection, clientVars, history
  <1>2. /\ closing \in Conns /\ \A j \in Conns : ~Open(j)
        /\ c.connections = 1 /\ c.M_state = "kConnected" /\ ~restarting /\ pollout = FALSE
    BY <1>1, ClosingFacts
  <1>3. client = "gone"
    BY <1>1, <1>2 DEF IInv, AliveInv
  <1>4. /\ Sound(c') /\ c'.connections = 0 /\ c'.queue = c.queue /\ c'.M_state = "kConnected"
    BY <1>1, <1>2, BackRecord DEF IInv
  <1>5. \A j \in Conns : ~Attached(j)' /\ ~Open(j)'
    BY <1>1, <1>2 DEF Attached, Open, Conns, NoConn
  <1>6. LoopInv'
    BY <1>1, <1>2, <1>4 DEF IInv, LoopInv
  <1>7. CallsInv' /\ FlagsInv'
    BY <1>1, FrameCalls, FrameFlags DEF IInv
  <1>8. AbortInv'
    BY <1>1 DEF IInv, AbortInv
  <1>9. ConnsInv'
    BY <1>1, <1>2, <1>4, <1>5 DEF IInv, ConnsInv
  <1>10. AliveInv'
    BY <1>1, <1>2, <1>3 DEF IInv, AliveInv
  <1>11. GoneInv'
    BY <1>1, <1>3, <1>4, <1>5 DEF IInv, GoneInv
  <1>12. PendingInv'
    BY <1>4 DEF PendingInv
  <1>. QED
    BY <1>4, <1>6, <1>7, <1>8, <1>9, <1>10, <1>11, <1>12 DEF IInv

-----------------------------------------------------------------------------
(* connect(), stop(), restart().                                           *)

(* startInLoop() within start() or restart(), with the connector d.        *)
LEMMA StartsAliveKeeps ==
    ASSUME IInv, client = "alive", pollout = FALSE, NEW d, Sound(d),
           DoStartInLoop(d, TRUE, TRUE),
           d.queue = c.queue, d.connections = c.connections,
           M_connect' = TRUE, CallsInv', raced' \in BOOLEAN, restarting' = FALSE,
           UNCHANGED <<phase, batch, pollout, pc, connVars, client, M_retry, keeper, shared,
                       letGo, abandoned, slow, touched>>
    PROVE  IInv'
  <1>1. d \in ConnectorRecord
    BY DEF Sound
  <1>2. c' \in ConnectorRecord /\ StartOutcome(d, TRUE, c', aborted')
    BY <1>1, StartHeld
  <1>3. Sound(c') /\ c'.queue = c.queue /\ c'.connections = c.connections
    BY <1>1, <1>2, SoundStart
  <1>4. AbortInv'
    BY <1>2 DEF StartOutcome, AbortInv
  <1>5. LoopInv'
    BY <1>3 DEF LoopInv, IInv
  <1>6. PendingInv'
    <2>1. d.timers >= 0 /\ d.timers \in Int
      BY <1>1 DEF Sound
    <2>. QED  BY <1>2, <2>1 DEF StartOutcome, PendingInv
  <1>7. SameConns /\ M_connection' = M_connection
    BY DEF SameConns, connVars
  <1>8. ConnsInv'
    BY <1>3, <1>7, FrameConns DEF IInv
  <1>9. AliveInv'
    BY <1>7, FrameAlive DEF IInv
  <1>10. GoneInv'
    BY DEF GoneInv
  <1>11. FlagsInv'
    BY DEF IInv, FlagsInv
  <1>. QED
    BY <1>3, <1>4, <1>5, <1>6, <1>8, <1>9, <1>10, <1>11 DEF IInv

LEMMA RestartRecord ==
    ASSUME IInv, restarting
    PROVE  LET d == [c EXCEPT !.M_state = "kDisconnected",
                              !.M_retryDelayMs = kInitRetryDelayMs] IN
           /\ Sound(d) /\ d.queue = c.queue /\ d.connections = c.connections
           /\ d.M_state = "kDisconnected" /\ d.M_channel = c.M_channel
           /\ d.timers = c.timers /\ d.ripe = c.ripe
  <1>. DEFINE d == [c EXCEPT !.M_state = "kDisconnected", !.M_retryDelayMs = kInitRetryDelayMs]
  <1>1. c \in ConnectorRecord /\ c.M_state = "kConnected" /\ c.connections = 0
    <2>1. /\ client = "alive" /\ M_connection = NoConn /\ c.M_state = "kConnected"
      BY DEF IInv, AliveInv
    <2>2. \A i \in Conns : ~Attached(i)
      BY <2>1 DEF IInv, AliveInv, Conns, NoConn
    <2>. QED  BY <2>1, <2>2 DEF IInv, ConnsInv, Sound
  <1>2. kInitRetryDelayMs \in Int /\ kInitRetryDelayMs \in kInitRetryDelayMs .. kMaxRetryDelayMs
    BY ConnectorAssumption
  <1>3. d \in ConnectorRecord
    BY <1>1, <1>2 DEF ConnectorRecord
  <1>4. /\ d.M_state = "kDisconnected" /\ d.M_retryDelayMs = kInitRetryDelayMs
        /\ d.M_channel = c.M_channel /\ d.timers = c.timers /\ d.ripe = c.ripe
        /\ d.sockets = c.sockets /\ d.connections = c.connections /\ d.queue = c.queue
    BY <1>1 DEF ConnectorRecord
  <1>. HIDE DEF d
  <1>5. Sound(d)
    BY <1>1, <1>2, <1>3, <1>4 DEF Sound, IInv
  <1>. QED  BY <1>4, <1>5 DEF d

LEMMA RestartConnectorKeeps ==
    ASSUME IInv, RestartConnector
    PROVE  IInv'
  <1>. DEFINE d == [c EXCEPT !.M_state = "kDisconnected", !.M_retryDelayMs = kInitRetryDelayMs]
  <1>1. /\ restarting /\ restarting' = FALSE /\ M_connect' = TRUE
        /\ DoStartInLoop(d, TRUE, TRUE)
        /\ UNCHANGED <<phase, batch, pollout, pc, counts>> /\ raced' = (raced \/ ~M_connect)
        /\ UNCHANGED <<connVars, client, M_retry, clientConnect, calling, keeper, shared, letGo,
                       abandoned, slow, touched>>
    BY DEF RestartConnector, Restart
  <1>2. Sound(d) /\ d.queue = c.queue /\ d.connections = c.connections
    BY <1>1, RestartRecord
  <1>. HIDE DEF d
  <1>3. client = "alive" /\ pollout = FALSE
    BY <1>1 DEF IInv, AliveInv, LoopInv
  <1>4. CallsInv'
    BY <1>1 DEF IInv, CallsInv, counts
  <1>5. raced' \in BOOLEAN
    BY <1>1
  <1>. QED  BY <1>1, <1>2, <1>3, <1>4, <1>5, StartsAliveKeeps

LEMMA CallsFacts ==
    ASSUME IInv, NEW call \in {"start", "stop"}, Calls(call)
    PROVE  /\ calls' \in 0 .. MaxCalls /\ lastCall' \in {"none", "start", "stop"}
           /\ overlapped' \in BOOLEAN /\ M_connect' \in BOOLEAN
           /\ M_connect' <=> call = "start"
           /\ call = "start" /\ ~overlapped' => ConnectorIdle
  <1>1. calls' \in 0 .. MaxCalls
    BY ConnectorAssumption DEF Calls, IInv, CallsInv
  <1>. QED  BY <1>1 DEF Calls

LEMMA ConnectInLoopKeeps ==
    ASSUME IInv, ConnectInLoop
    PROVE  IInv'
  <1>1. /\ client = "alive" /\ restarting = FALSE /\ restarting' = FALSE /\ pollout = FALSE
        /\ Calls("start") /\ DoStartInLoop(c, TRUE, TRUE) /\ clientConnect' = TRUE
        /\ UNCHANGED <<phase, batch, pollout, pc>> /\ calling' = calling
        /\ UNCHANGED <<connVars, client, M_retry, keeper, shared, letGo, abandoned, slow, touched>>
        /\ raced' = raced
    BY DEF ConnectInLoop, LoopStart, LoopIsFree, Unaffected, history, IInv, FlagsInv, LoopInv
  <1>2. M_connect' = TRUE
    BY <1>1 DEF Calls
  <1>3. CallsInv'
    BY <1>1, CallsFacts DEF IInv, CallsInv
  <1>. QED  BY <1>1, <1>2, <1>3, StartsAliveKeeps DEF IInv, FlagsInv

(* What connect() and stop() leave alone.                                  *)
LEMMA UnaffectedFacts ==
    ASSUME UNCHANGED Unaffected
    PROVE  /\ SameConns /\ M_connection' = M_connection /\ client' = client
           /\ UNCHANGED <<M_retry, restarting, keeper, raced, abandoned, slow, touched>>
           /\ closing' = closing
  BY DEF Unaffected, connVars, history, SameConns

LEMMA FrameUnaffected ==
    ASSUME IInv, UNCHANGED Unaffected, Sound(c'), c'.connections = c.connections,
           c'.M_state = c.M_state, client = "alive", CallsInv', AbortInv', PendingInv',
           UNCHANGED <<phase, pollout, batch>>, batch \in 0 .. Len(c'.queue),
           \A i \in Conns : HasFor(c'.queue, "connectDestroyed", i) =>
               HasFor(c.queue, "connectDestroyed", i)
    PROVE  IInv'
  <1>1. LoopInv'
    BY UnaffectedFacts DEF IInv, LoopInv
  <1>2. ConnsInv'
    BY UnaffectedFacts, FrameConns DEF IInv
  <1>3. AliveInv'
    BY UnaffectedFacts, FrameAlive DEF IInv, AliveInv
  <1>4. GoneInv'
    BY UnaffectedFacts DEF GoneInv
  <1>5. FlagsInv'
    BY UnaffectedFacts, FrameFlags DEF IInv
  <1>. QED  BY <1>1, <1>2, <1>3, <1>4, <1>5 DEF IInv

LEMMA StopInLoopThreadKeeps ==
    ASSUME IInv, StopInLoopThread
    PROVE  IInv'
  <1>. DEFINE x == Functor("stopInLoop")
  <1>1. /\ client = "alive" /\ Calls("stop") /\ Push(x) /\ clientConnect' = FALSE
        /\ calling' = calling
        /\ UNCHANGED <<phase, batch, pollout>> /\ pc' = pc /\ aborted' = aborted
        /\ UNCHANGED Unaffected
    BY DEF StopInLoopThread, LoopStop, Push
  <1>2. x \in FunctorSet /\ x.f = "stopInLoop"
    BY FunctorFacts DEF ConnectorFunctors
  <1>. HIDE DEF x
  <1>3. /\ Sound(c') /\ QueueOnly(c, c') /\ batch \in 0 .. Len(c'.queue)
        /\ \A i : HasFor(c'.queue, "connectDestroyed", i) => HasFor(c.queue, "connectDestroyed", i)
    BY <1>1, <1>2, PushFacts
  <1>4. CallsInv'
    BY <1>1, CallsFacts DEF IInv, CallsInv
  <1>5. AbortInv' /\ PendingInv'
    BY <1>1, CallsFacts DEF IInv, AbortInv, PendingInv
  <1>. QED  BY <1>1, <1>3, <1>4, <1>5, FrameUnaffected DEF QueueOnly

LEMMA BeginCallKeeps ==
    ASSUME IInv, NEW t \in Threads, NEW call \in {"connect", "stop"}, BeginCall(t, call)
    PROVE  IInv'
  <1>1. /\ client = "alive" /\ clientConnect' = (call = "connect")
        /\ calling' = [calling EXCEPT ![t] = call]
        /\ UNCHANGED <<phase, batch, pollout>> /\ c' = c /\ UNCHANGED <<M_connect, pc, aborted>>
        /\ UNCHANGED <<calls, lastCall, overlapped>> /\ UNCHANGED Unaffected
    BY DEF BeginCall, connectorVars, counts
  <1>2. CallsInv'
    <2>1. calling' \in [Threads -> {"none", "connect", "stop"}]
      BY <1>1 DEF IInv, CallsInv
    <2>2. clientConnect' \in BOOLEAN
      BY <1>1
    <2>. QED  BY <1>1, <2>1, <2>2 DEF IInv, CallsInv
  <1>3. AbortInv' /\ PendingInv'
    BY <1>1 DEF IInv, AbortInv, PendingInv, First
  <1>4. Sound(c') /\ batch \in 0 .. Len(c'.queue)
    BY <1>1 DEF IInv, LoopInv
  <1>. QED  BY <1>1, <1>2, <1>3, <1>4, FrameUnaffected

LEMMA CallConnectorFacts ==
    ASSUME IInv, NEW t \in Threads, CallConnector(t)
    PROVE  /\ client = "alive" /\ c' = c /\ UNCHANGED <<phase, batch, pollout>>
           /\ aborted' = aborted /\ clientConnect' = clientConnect /\ UNCHANGED Unaffected
           /\ calling' = [calling EXCEPT ![t] = "none"] /\ pc[t] = "idle"
           /\ \/ Calls("start") /\ pc' = [pc EXCEPT ![t] = "startInLoop"]
              \/ Calls("stop") /\ pc' = [pc EXCEPT ![t] = "stopInLoop"]
  <1>1. client = "alive"
    BY DEF CallConnector, IInv, GoneInv, AliveInv
  <1>. QED  BY <1>1 DEF CallConnector, Start, Stop

LEMMA CallConnectorKeeps ==
    ASSUME IInv, NEW t \in Threads, CallConnector(t)
    PROVE  IInv'
  <1>1. /\ client = "alive" /\ c' = c /\ UNCHANGED <<phase, batch, pollout>>
        /\ aborted' = aborted /\ clientConnect' = clientConnect /\ UNCHANGED Unaffected
        /\ calling' = [calling EXCEPT ![t] = "none"]
    BY CallConnectorFacts
  <1>2. \/ Calls("start") /\ pc' = [pc EXCEPT ![t] = "startInLoop"]
        \/ Calls("stop") /\ pc' = [pc EXCEPT ![t] = "stopInLoop"]
    BY CallConnectorFacts
  <1>3. CallsInv'
    <2>1. calling' \in [Threads -> {"none", "connect", "stop"}]
      BY <1>1 DEF IInv, CallsInv
    <2>2. /\ calls' \in 0 .. MaxCalls /\ lastCall' \in {"none", "start", "stop"}
          /\ overlapped' \in BOOLEAN /\ M_connect' \in BOOLEAN
      BY <1>2, CallsFacts
    <2>3. pc' \in [Threads -> {"idle", "startInLoop", "stopInLoop"}]
      BY <1>2 DEF IInv, CallsInv
    <2>. QED  BY <1>1, <2>1, <2>2, <2>3 DEF IInv, CallsInv
  <1>4. PendingInv'
    <2>1. ASSUME M_connect' PROVE pc'[t] = "startInLoop"
      BY <1>2, <2>1, CallsFacts DEF IInv, CallsInv
    <2>. QED  BY <2>1 DEF PendingInv, First
  <1>5. AbortInv'
    BY <1>1 DEF IInv, AbortInv
  <1>6. Sound(c') /\ batch \in 0 .. Len(c'.queue)
    BY <1>1 DEF IInv, LoopInv
  <1>. QED  BY <1>1, <1>3, <1>4, <1>5, <1>6, FrameUnaffected

LEMMA QueueElsewhereFacts ==
    ASSUME IInv, NEW t \in Threads, QueueElsewhere(t)
    PROVE  /\ client = "alive" /\ pc[t] \in {"startInLoop", "stopInLoop"}
           /\ Functor(pc[t]) \in FunctorSet /\ Functor(pc[t]).f = pc[t]
           /\ Functor(pc[t]).of = 0
           /\ Push(Functor(pc[t])) /\ pc' \in [Threads -> {"idle", "startInLoop", "stopInLoop"}]
           /\ pc'[t] = "idle" /\ \A u \in Threads : u # t => pc'[u] = pc[u]
           /\ UNCHANGED <<M_connect, counts, clientConnect, calling>>
           /\ UNCHANGED <<phase, batch, pollout>> /\ aborted' = aborted /\ UNCHANGED Unaffected
  <1>1. /\ pc[t] # "idle" /\ Push(Functor(pc[t])) /\ pc' = [pc EXCEPT ![t] = "idle"]
        /\ UNCHANGED <<M_connect, counts, clientConnect, calling>>
        /\ UNCHANGED <<phase, batch, pollout>> /\ aborted' = aborted /\ UNCHANGED Unaffected
    BY DEF QueueElsewhere, Queues, Push
  <1>2. pc \in [Threads -> {"idle", "startInLoop", "stopInLoop"}]
    BY DEF IInv, CallsInv
  <1>3. client = "alive"
    BY <1>1 DEF IInv, GoneInv, AliveInv
  <1>4. pc[t] \in {"startInLoop", "stopInLoop"}
    BY <1>1, <1>2
  <1>5. /\ Functor(pc[t]) \in FunctorSet /\ Functor(pc[t]).f = pc[t] /\ Functor(pc[t]).of = 0
    BY <1>4, FunctorFacts DEF ConnectorFunctors
  <1>. QED  BY <1>1, <1>2, <1>3, <1>4, <1>5

LEMMA QueueElsewhereKeeps ==
    ASSUME IInv, NEW t \in Threads, QueueElsewhere(t)
    PROVE  IInv'
  <1>. DEFINE x == Functor(pc[t])
  <1>1. /\ client = "alive" /\ x.f \in {"startInLoop", "stopInLoop"} /\ x \in FunctorSet
        /\ x.f = pc[t] /\ Push(x) /\ UNCHANGED <<phase, batch, pollout>> /\ aborted' = aborted
        /\ UNCHANGED Unaffected
    BY QueueElsewhereFacts
  <1>2. /\ UNCHANGED <<M_connect, counts, clientConnect, calling>>
        /\ pc' \in [Threads -> {"idle", "startInLoop", "stopInLoop"}]
        /\ \A u \in Threads : u # t => pc'[u] = pc[u]
    BY QueueElsewhereFacts
  <1>. HIDE DEF x
  <1>3. /\ Sound(c') /\ QueueOnly(c, c') /\ batch \in 0 .. Len(c'.queue)
        /\ \A i : HasFor(c'.queue, "connectDestroyed", i) => HasFor(c.queue, "connectDestroyed", i)
        /\ \A f : Has(c'.queue, f) <=> Has(c.queue, f) \/ x.f = f
    BY <1>1, PushFacts
  <1>4. CallsInv'
    BY <1>2 DEF IInv, CallsInv, counts
  <1>5. AbortInv'
    BY <1>1 DEF IInv, AbortInv
  <1>6. First => First'
    BY <1>1, <1>2, <1>3 DEF First
  <1>7. PendingInv'
    BY <1>1, <1>2, <1>3, <1>6 DEF IInv, PendingInv, QueueOnly
  <1>. QED  BY <1>1, <1>3, <1>4, <1>5, <1>7, FrameUnaffected DEF QueueOnly

-----------------------------------------------------------------------------
(* disconnect(), connection() and ~TcpClient().                            *)

LEMMA DisconnectKeeps ==
    ASSUME IInv, Disconnect
    PROVE  IInv'
  <1>. DEFINE m == M_connection
  <1>1. /\ client = "alive" /\ clientConnect' = FALSE /\ c' = c /\ aborted' = aborted
        /\ UNCHANGED <<M_connect, phase, batch, pollout, pc, calls, lastCall, overlapped>>
        /\ M_connection' = m /\ M_nextConnId' = M_nextConnId /\ held' = held
        /\ closing' = closing /\ client' = client /\ restarting' = restarting
        /\ calling' = calling /\ shared' = shared /\ letGo' = letGo
        /\ UNCHANGED <<M_retry, restarting, keeper, raced, abandoned, slow, touched>>
    BY DEF Disconnect, connectorVars, counts, history
  <1>2. /\ conn' \in [Conns -> [state : {"none", "kConnected", "kDisconnecting", "kDisconnected"},
                                callback : {"removeConnection", "detail"}]]
        /\ \A i \in Conns : /\ conn'[i].callback = conn[i].callback
                            /\ \/ conn'[i].state = conn[i].state
                               \/ /\ conn[i].state = "kConnected"
                                  /\ conn'[i].state = "kDisconnecting"
    <2>1. m \in Conns \union {NoConn}
      BY DEF IInv, AliveInv
    <2>2. conn \in [Conns -> [state : {"none", "kConnected", "kDisconnecting", "kDisconnected"},
                              callback : {"removeConnection", "detail"}]]
      BY DEF IInv, ConnsInv
    <2>3. CASE m # NoConn /\ conn[m].state = "kConnected"
      <3>1. conn' = [conn EXCEPT ![m].state = "kDisconnecting"] /\ m \in Conns
        BY <2>1, <2>3 DEF Disconnect
      <3>. HIDE DEF m
      <3>. QED  BY <2>2, <2>3, <3>1
    <2>4. CASE ~(m # NoConn /\ conn[m].state = "kConnected")
      BY <2>2, <2>4 DEF Disconnect
    <2>. QED  BY <2>3, <2>4
  <1>. HIDE DEF m
  <1>3. \A i \in Conns : (Open(i)' <=> Open(i)) /\ (Attached(i)' <=> Attached(i))
    BY <1>1, <1>2 DEF Open, Attached
  <1>4. Sound(c')
    BY <1>1 DEF IInv
  <1>5. LoopInv'
    BY <1>1 DEF IInv, LoopInv
  <1>6. CallsInv'
    BY <1>1 DEF IInv, CallsInv
  <1>7. ConnsInv'
    <2>1. \A i \in Conns : conn'[i].state = "none" <=> i >= M_nextConnId'
      BY <1>1, <1>2 DEF IInv, ConnsInv
    <2>2. closing' # NoConn => conn'[closing].state = "kDisconnected"
      BY <1>1, <1>2 DEF IInv, ConnsInv
    <2>3. \A i \in Conns : HasFor(c'.queue, "connectDestroyed", i) =>
              conn'[i].state = "kDisconnected"
      BY <1>1, <1>2 DEF IInv, ConnsInv
    <2>. QED  BY <1>1, <1>2, <1>3, <2>1, <2>2, <2>3 DEF IInv, ConnsInv
  <1>8. AliveInv'
    BY <1>1, <1>2, <1>3 DEF IInv, AliveInv, m
  <1>9. GoneInv'
    BY <1>1 DEF GoneInv
  <1>10. FlagsInv'
    BY <1>1, FrameFlags DEF IInv
  <1>11. AbortInv' /\ PendingInv'
    BY <1>1 DEF IInv, AbortInv, PendingInv, First
  <1>. QED
    BY <1>4, <1>5, <1>6, <1>7, <1>8, <1>9, <1>10, <1>11 DEF IInv

(* A step that changes held at most; of the connections that are up and    *)
(* have lost their client, letGo records it.                               *)
LEMMA HeldKeeps ==
    ASSUME IInv, held' \subseteq Conns, letGo' \subseteq Conns, letGo \subseteq letGo',
           \A i \in held : client = "gone" /\ Open(i) => i \in held' \/ i \in letGo',
           AbortInv', aborted' = "no" => aborted = "no",
           UNCHANGED <<M_connect, c, phase, batch, pollout, pc, counts, M_connection,
                       M_nextConnId, conn, closing, clientVars, raced, shared, abandoned,
                       slow, touched>>
    PROVE  IInv'
  <1>1. /\ c' = c /\ UNCHANGED <<M_connect, phase, batch, pollout, pc, counts>>
        /\ M_connection' = M_connection /\ M_nextConnId' = M_nextConnId /\ conn' = conn
        /\ closing' = closing /\ UNCHANGED <<raced, abandoned, slow, touched>> /\ shared' = shared
        /\ UNCHANGED <<client, M_retry, clientConnect, restarting, calling, keeper>>
    BY DEF clientVars
  <1>2. \A i \in Conns : (Open(i)' <=> Open(i)) /\ (Attached(i)' <=> Attached(i))
    BY <1>1 DEF Open, Attached
  <1>3. Sound(c')
    BY <1>1 DEF IInv
  <1>4. LoopInv'
    BY <1>1 DEF IInv, LoopInv
  <1>5. CallsInv' /\ FlagsInv'
    BY <1>1, FrameCalls, FrameFlags DEF IInv
  <1>6. ConnsInv'
    BY <1>1, <1>2 DEF IInv, ConnsInv
  <1>7. AliveInv'
    BY <1>1, <1>2 DEF IInv, AliveInv
  <1>8. GoneInv'
    BY <1>1, <1>2 DEF IInv, GoneInv
  <1>9. PendingInv'
    BY <1>1 DEF IInv, PendingInv, First
  <1>. QED
    BY <1>3, <1>4, <1>5, <1>6, <1>7, <1>8, <1>9 DEF IInv

LEMMA HoldKeeps ==
    ASSUME IInv, Hold
    PROVE  IInv'
  <1>1. held' = held \union {M_connection} /\ M_connection \in Conns /\ held \subseteq Conns
    BY DEF Hold, IInv, ConnsInv
  <1>2. held' \subseteq Conns /\ \A i \in held : i \in held'
    BY <1>1
  <1>3. /\ UNCHANGED <<M_connect, c, phase, batch, pollout, pc, counts, M_connection,
                       M_nextConnId, conn, closing, clientVars, raced, shared, abandoned,
                       slow, touched>>
        /\ letGo' = letGo /\ aborted' = aborted
    BY DEF Hold, connectorVars, history
  <1>4. letGo' \subseteq Conns /\ AbortInv'
    BY <1>3 DEF IInv, ConnsInv, AbortInv
  <1>. QED  BY <1>2, <1>3, <1>4, HeldKeeps

LEMMA ReleaseKeeps ==
    ASSUME IInv, NEW i \in Conns, Release(i)
    PROVE  IInv'
  <1>1. /\ held' = held \ {i} /\ held \subseteq Conns /\ letGo \subseteq Conns
        /\ letGo' = IF Open(i) /\ client = "gone" THEN letGo \union {i} ELSE letGo
        /\ UNCHANGED <<M_connect, c, phase, batch, pollout, pc, counts, M_connection,
                       M_nextConnId, conn, closing, clientVars, raced, shared, abandoned,
                       slow, touched>>
        /\ aborted' = "~TcpConnection" \/ aborted' = aborted
    BY DEF Release, DropsPointer, IInv, ConnsInv
  <1>2. /\ held' \subseteq Conns /\ letGo' \subseteq Conns /\ letGo \subseteq letGo'
        /\ \A j \in held : client = "gone" /\ Open(j) => j \in held' \/ j \in letGo'
    BY <1>1
  <1>3. AbortInv' /\ (aborted' = "no" => aborted = "no")
    BY <1>1 DEF IInv, AbortInv
  <1>. QED  BY <1>1, <1>2, <1>3, HeldKeeps

LEMMA KeeperExpiresKeeps ==
    ASSUME IInv, KeeperExpires
    PROVE  IInv'
  <1>1. /\ c' = c /\ UNCHANGED <<M_connect, phase, batch, pollout, pc, counts>>
        /\ SameConns /\ M_connection' = M_connection /\ client' = client
        /\ UNCHANGED <<M_retry, clientConnect, restarting, calling, raced, abandoned, touched>>
        /\ keeper' = "none" /\ slow' = (slow \/ ConnectorFunctorQueued)
        /\ aborted' = "~Connector" \/ aborted' = aborted
    BY DEF KeeperExpires, connVars, SameConns
  <1>2. slow' \in BOOLEAN
    BY <1>1
  <1>3. Sound(c')
    BY <1>1 DEF IInv
  <1>4. LoopInv'
    BY <1>1 DEF IInv, LoopInv, SameConns
  <1>5. CallsInv'
    BY <1>1, FrameCalls DEF IInv
  <1>6. FlagsInv'
    BY <1>1, <1>2 DEF IInv, FlagsInv
  <1>7. ConnsInv'
    BY <1>1, FrameConns DEF IInv
  <1>8. AliveInv'
    BY <1>1, FrameAlive DEF IInv, AliveInv
  <1>9. GoneInv'
    BY <1>1, FrameGone DEF IInv
  <1>10. AbortInv' /\ PendingInv'
    BY <1>1 DEF IInv, AbortInv, PendingInv, First
  <1>. QED
    BY <1>3, <1>4, <1>5, <1>6, <1>7, <1>8, <1>9, <1>10 DEF IInv

LEMMA DestructUnconnectedKeeps ==
    ASSUME IInv, DestructUnconnected
    PROVE  IInv'
  <1>. DEFINE x == Functor("stopInLoop")
  <1>1. /\ MayDestruct /\ M_connection = NoConn /\ M_connect' = FALSE /\ Push(x)
        /\ keeper' = "set" /\ UNCHANGED <<phase, batch, pollout>> /\ aborted' = aborted
        /\ UNCHANGED <<pc, counts>> /\ M_connection' = M_connection /\ SameConns
        /\ UNCHANGED <<M_retry, clientConnect, restarting, calling, raced, abandoned, slow,
                       touched>>
    BY DEF DestructUnconnected, connVars, history, SameConns
  <1>2. /\ client = "alive" /\ client' = "gone" /\ pollout = FALSE /\ restarting = FALSE
        /\ \A t \in Threads : calling[t] = "none" /\ pc[t] = "idle"
    BY <1>1 DEF MayDestruct, LoopIsFree, NoCallBegun, IInv, FlagsInv, LoopInv
  <1>3. x \in FunctorSet /\ x.f = "stopInLoop"
    BY FunctorFacts DEF ConnectorFunctors
  <1>. HIDE DEF x
  <1>4. /\ Sound(c') /\ QueueOnly(c, c') /\ batch \in 0 .. Len(c'.queue)
        /\ \A i : HasFor(c'.queue, "connectDestroyed", i) => HasFor(c.queue, "connectDestroyed", i)
        /\ Has(c'.queue, "stopInLoop")
    BY <1>1, <1>3, PushFacts
  <1>5. \A i \in Conns : ~Attached(i)
    BY <1>1, <1>2 DEF IInv, AliveInv, Conns, NoConn
  <1>6. \A i \in Conns : ~Attached(i)' /\ ~Open(i)'
    BY <1>1, <1>5 DEF Attached, Open, SameConns
  <1>7. LoopInv'
    BY <1>1, <1>2, <1>4 DEF IInv, LoopInv
  <1>8. CallsInv'
    BY <1>1 DEF IInv, CallsInv, counts
  <1>9. ConnsInv'
    BY <1>1, <1>4, FrameConns DEF IInv, QueueOnly
  <1>10. AliveInv'
    BY <1>1, <1>2 DEF IInv, AliveInv
  <1>11. GoneInv'
    BY <1>1, <1>2, <1>4, <1>6 DEF GoneInv
  <1>12. FlagsInv'
    BY <1>1 DEF IInv, FlagsInv
  <1>13. AbortInv' /\ PendingInv'
    BY <1>1 DEF IInv, AbortInv, PendingInv
  <1>. QED
    BY <1>4, <1>7, <1>8, <1>9, <1>10, <1>11, <1>12, <1>13 DEF IInv

(* What ~TcpClient() leaves when there is the connection i.                *)
LEMMA DestructConnectedFacts ==
    ASSUME IInv, NEW i \in Conns, DestructConnected(i)
    PROVE  /\ client = "alive" /\ client' = "gone" /\ M_connection = i /\ M_connection' = NoConn
           /\ pollout = FALSE /\ restarting = FALSE /\ aborted = "no"
           /\ \A t \in Threads : calling[t] = "none" /\ pc[t] = "idle"
           /\ Sound(c') /\ QueueOnly(c, c') /\ batch \in 0 .. Len(c'.queue)
           /\ c.M_state = "kConnected" /\ aborted' \in {"no", "~Connector"}
           /\ \A f : f # "forceCloseInLoop" => (Has(c'.queue, f) <=> Has(c.queue, f))
           /\ \A j : /\ HasFor(c'.queue, "connectDestroyed", j) <=>
                            HasFor(c.queue, "connectDestroyed", j)
                     /\ HasFor(c'.queue, "forceCloseInLoop", j) =>
                            HasFor(c.queue, "forceCloseInLoop", j) \/ j = i
           /\ \A f : f # "forceCloseInLoop" /\ Once(c.queue, f) => Once(c'.queue, f)
           /\ \A f, b : Early(c.queue, b, f) => Early(c'.queue, b, f)
           /\ Open(i) => i \in held \/ HasFor(c'.queue, "forceCloseInLoop", i) \/ i \in shared'
           /\ shared' \subseteq Conns /\ \A j \in Conns : Attached(j) <=> j = i
           /\ conn' \in [Conns -> [state : {"none", "kConnected", "kDisconnecting",
                                           "kDisconnected"},
                                   callback : {"removeConnection", "detail"}]]
           /\ conn'[i].callback = "detail" /\ \A j \in Conns : j # i => conn'[j] = conn[j]
           /\ \/ conn'[i].state = conn[i].state
              \/ Open(i) /\ conn'[i].state = "kDisconnecting"
  <1>1. /\ MayDestruct /\ M_connection = i /\ M_connection' = NoConn
        /\ IF Unique(i) /\ Open(i)
           THEN /\ conn' = [conn EXCEPT ![i] = [state |-> "kDisconnecting", callback |-> "detail"]]
                /\ Push(OfConn("forceCloseInLoop", i))
           ELSE /\ conn' = [conn EXCEPT ![i].callback = "detail"]
                /\ c' = c
        /\ aborted' \in {aborted, "~Connector"}
        /\ shared' = IF InQueue("writeComplete", i) /\ i \notin held THEN shared \union {i}
                                                                      ELSE shared
    BY DEF DestructConnected, DropsConnector
  <1>2. /\ client = "alive" /\ client' = "gone" /\ pollout = FALSE /\ restarting = FALSE
        /\ aborted = "no" /\ \A t \in Threads : calling[t] = "none" /\ pc[t] = "idle"
    BY <1>1 DEF MayDestruct, LoopIsFree, Running, NoCallBegun, IInv, FlagsInv, LoopInv
  <1>3. \A j \in Conns : Attached(j) <=> j = i
    BY <1>1, <1>2 DEF IInv, AliveInv
  <1>4. c.connections = 1 /\ c.M_state = "kConnected"
    BY <1>3 DEF IInv, ConnsInv, Sound
  <1>5. aborted' \in {"no", "~Connector"} /\ shared' \subseteq Conns
    BY <1>1, <1>2 DEF IInv, ConnsInv
  <1>6. \A f, j : InQueue(f, j) <=> HasFor(c.queue, f, j)
    BY QueueFacts, QueueWords DEF IInv
  <1>7. conn \in [Conns -> [state : {"none", "kConnected", "kDisconnecting", "kDisconnected"},
                            callback : {"removeConnection", "detail"}]]
    BY DEF IInv, ConnsInv
  <1>8. CASE Unique(i) /\ Open(i)
    <2>. DEFINE x == OfConn("forceCloseInLoop", i)
    <2>1. x \in FunctorSet /\ x.f = "forceCloseInLoop" /\ x.of = i
      BY FunctorFacts DEF ConnFunctors
    <2>2. /\ conn' = [conn EXCEPT ![i] = [state |-> "kDisconnecting", callback |-> "detail"]]
          /\ Push(x)
      BY <1>1, <1>8
    <2>. HIDE DEF x
    <2>3. /\ Sound(c') /\ QueueOnly(c, c') /\ batch \in 0 .. Len(c'.queue)
          /\ \A f : Has(c'.queue, f) <=> Has(c.queue, f) \/ x.f = f
          /\ \A f, j : HasFor(c'.queue, f, j) <=> HasFor(c.queue, f, j) \/ (x.f = f /\ x.of = j)
          /\ \A f : Once(c.queue, f) /\ (x.f # f \/ ~Has(c.queue, f)) => Once(c'.queue, f)
          /\ \A f, b : Early(c.queue, b, f) => Early(c'.queue, b, f)
      BY <2>1, <2>2, PushFacts
    <2>4. /\ conn' \in [Conns -> [state : {"none", "kConnected", "kDisconnecting",
                                          "kDisconnected"},
                                  callback : {"removeConnection", "detail"}]]
          /\ conn'[i].callback = "detail" /\ \A j \in Conns : j # i => conn'[j] = conn[j]
          /\ conn'[i].state = "kDisconnecting"
      BY <1>7, <2>2
    <2>5. HasFor(c'.queue, "forceCloseInLoop", i)
      BY <2>1, <2>3
    <2>6. \A j : /\ HasFor(c'.queue, "connectDestroyed", j) <=>
                        HasFor(c.queue, "connectDestroyed", j)
                 /\ HasFor(c'.queue, "forceCloseInLoop", j) =>
                        HasFor(c.queue, "forceCloseInLoop", j) \/ j = i
      BY <2>1, <2>3
    <2>7. /\ \A f : f # "forceCloseInLoop" => (Has(c'.queue, f) <=> Has(c.queue, f))
          /\ \A f : f # "forceCloseInLoop" /\ Once(c.queue, f) => Once(c'.queue, f)
      BY <2>1, <2>3
    <2>. QED  BY <1>1, <1>2, <1>3, <1>4, <1>5, <1>8, <2>3, <2>4, <2>5, <2>6, <2>7
  <1>9. CASE ~(Unique(i) /\ Open(i))
    <2>1. conn' = [conn EXCEPT ![i].callback = "detail"] /\ c' = c
      BY <1>1, <1>9
    <2>2. /\ conn' \in [Conns -> [state : {"none", "kConnected", "kDisconnecting",
                                          "kDisconnected"},
                                  callback : {"removeConnection", "detail"}]]
          /\ conn'[i].callback = "detail" /\ \A j \in Conns : j # i => conn'[j] = conn[j]
          /\ conn'[i].state = conn[i].state
      BY <1>7, <2>1
    <2>3. ASSUME Open(i)
          PROVE  i \in held \/ HasFor(c'.queue, "forceCloseInLoop", i) \/ i \in shared'
      <3>1. ~Unique(i) /\ conn[i].state # "kDisconnected"
        BY <1>9, <2>3 DEF Open
      <3>2. closing # i /\ ~HasFor(c.queue, "connectDestroyed", i)
        BY <3>1 DEF IInv, ConnsInv, Conns, NoConn
      <3>3. i \in held \/ \E f \in ConnFunctors : InQueue(f, i)
        BY <3>1, <3>2 DEF Unique
      <3>4. i \in held \/ InQueue("forceCloseInLoop", i) \/ InQueue("writeComplete", i)
        BY <1>6, <3>2, <3>3 DEF ConnFunctors
      <3>. QED  BY <1>1, <1>6, <2>1, <3>4
    <2>4. Sound(c') /\ QueueOnly(c, c') /\ batch \in 0 .. Len(c'.queue)
      BY <2>1 DEF IInv, QueueOnly, LoopInv
    <2>. QED  BY <1>1, <1>2, <1>3, <1>4, <1>5, <2>1, <2>2, <2>3, <2>4
  <1>. QED  BY <1>8, <1>9

LEMMA DestructConnectedKeeps ==
    ASSUME IInv, NEW i \in Conns, DestructConnected(i)
    PROVE  IInv'
  <1>1. /\ M_connect' = M_connect /\ phase' = phase /\ batch' = batch /\ pollout' = pollout
        /\ pc' = pc /\ counts' = counts /\ M_nextConnId' = M_nextConnId /\ held' = held
        /\ closing' = closing /\ M_retry' = M_retry /\ clientConnect' = clientConnect
        /\ restarting' = restarting /\ calling' = calling /\ keeper' = keeper
        /\ raced' = raced /\ slow' = slow /\ letGo' = letGo /\ touched' = touched
        /\ abandoned' = (abandoned \/ ConnectorFunctorQueued)
    BY DEF DestructConnected, DropsConnector
  <1>2. /\ client = "alive" /\ client' = "gone" /\ M_connection = i /\ M_connection' = NoConn
        /\ pollout = FALSE /\ restarting = FALSE
        /\ \A t \in Threads : calling[t] = "none" /\ pc[t] = "idle"
        /\ Sound(c') /\ QueueOnly(c, c') /\ batch \in 0 .. Len(c'.queue)
        /\ c.M_state = "kConnected" /\ aborted' \in {"no", "~Connector"}
        /\ \A j : HasFor(c'.queue, "connectDestroyed", j) <=>
                      HasFor(c.queue, "connectDestroyed", j)
        /\ Open(i) => i \in held \/ HasFor(c'.queue, "forceCloseInLoop", i) \/ i \in shared'
        /\ shared' \subseteq Conns /\ \A j \in Conns : Attached(j) <=> j = i
    BY DestructConnectedFacts
  <1>3. /\ conn' \in [Conns -> [state : {"none", "kConnected", "kDisconnecting",
                                        "kDisconnected"},
                                callback : {"removeConnection", "detail"}]]
        /\ conn'[i].callback = "detail" /\ \A j \in Conns : j # i => conn'[j] = conn[j]
        /\ \/ conn'[i].state = conn[i].state
           \/ Open(i) /\ conn'[i].state = "kDisconnecting"
    BY DestructConnectedFacts
  <1>4. \A j \in Conns : (Open(j)' <=> Open(j)) /\ (Attached(j)' <=> j = i)
    <2>1. Open(i)' <=> Open(i)
      BY <1>3 DEF Open
    <2>2. \A j \in Conns : Open(j)' <=> Open(j)
      BY <1>3, <2>1 DEF Open
    <2>. QED  BY <1>1, <1>2, <2>2 DEF Attached
  <1>5. LoopInv'
    BY <1>1, <1>2 DEF IInv, LoopInv
  <1>6. CallsInv' /\ FlagsInv'
    <2>1. abandoned' \in BOOLEAN
      BY <1>1
    <2>. QED  BY <1>1, <2>1, FrameCalls DEF IInv, FlagsInv
  <1>7. AbortInv'
    BY <1>2 DEF AbortInv
  <1>8. ConnsInv'
    <2>1. \A j \in Conns : /\ conn'[j].state = "none" <=> conn[j].state = "none"
                           /\ conn[j].state = "kDisconnected" =>
                                  conn'[j].state = "kDisconnected"
      BY <1>3 DEF Open
    <2>2. \A j \in Conns : conn'[j].state = "none" <=> j >= M_nextConnId'
      BY <1>1, <2>1 DEF IInv, ConnsInv
    <2>3. \A j \in Conns : HasFor(c'.queue, "connectDestroyed", j) =>
              conn'[j].state = "kDisconnected"
      BY <1>2, <2>1 DEF IInv, ConnsInv
    <2>4. closing' # NoConn => conn'[closing].state = "kDisconnected"
      BY <1>1, <2>1 DEF IInv, ConnsInv
    <2>5. c'.connections = 1 <=> \E j \in Conns : Attached(j)'
      BY <1>2, <1>4 DEF IInv, ConnsInv, QueueOnly
    <2>6. \A j \in Conns : Attached(j)' => j = M_nextConnId' - 1
      BY <1>1, <1>2, <1>4 DEF IInv, ConnsInv
    <2>. QED  BY <1>1, <1>2, <1>3, <2>2, <2>3, <2>4, <2>5, <2>6 DEF IInv, ConnsInv
  <1>9. AliveInv'
    BY <1>1, <1>2 DEF AliveInv
  <1>10. GoneInv'
    <2>1. \A j \in Conns : Open(j) => j = i
      BY <1>2 DEF Attached
    <2>2. c'.M_state = "kConnected"
      BY <1>2 DEF QueueOnly
    <2>. QED  BY <1>1, <1>2, <1>3, <1>4, <2>1, <2>2 DEF GoneInv
  <1>11. PendingInv'
    BY <1>2 DEF PendingInv, QueueOnly
  <1>. QED
    BY <1>2, <1>5, <1>6, <1>7, <1>8, <1>9, <1>10, <1>11 DEF IInv

-----------------------------------------------------------------------------
(* The invariant holds.                                                    *)

LEMMA InitIInv ==
    ASSUME Init
    PROVE  IInv
  <1>1. /\ M_connect = FALSE /\ phase = "events" /\ batch = 0 /\ pollout = FALSE
        /\ pc = [t \in Threads |-> "idle"] /\ calls = 0 /\ lastCall = "none"
        /\ overlapped = FALSE /\ aborted = "no"
        /\ client = "alive" /\ M_retry \in BOOLEAN /\ clientConnect = TRUE
        /\ M_connection = NoConn /\ M_nextConnId = 1 /\ held = {} /\ closing = NoConn
        /\ conn = [i \in Conns |-> [state |-> "none", callback |-> "removeConnection"]]
        /\ restarting = FALSE /\ keeper = "none" /\ raced = FALSE /\ touched = FALSE
        /\ abandoned = FALSE /\ slow = FALSE /\ shared = {} /\ letGo = {}
        /\ calling = [t \in Threads |-> "none"]
    BY DEF Init, ConnectorInit
  <1>2. /\ c = [M_state |-> "kDisconnected", M_retryDelayMs |-> kInitRetryDelayMs,
                M_channel |-> "none", queue |-> <<>>, timers |-> 0, ripe |-> 0,
                sockets |-> 0, connections |-> 0, gaveUp |-> FALSE]
    BY DEF Init, ConnectorInit
  <1>3. /\ c.M_state = "kDisconnected" /\ c.M_retryDelayMs = kInitRetryDelayMs
        /\ c.M_channel = "none" /\ c.queue = <<>> /\ c.timers = 0 /\ c.ripe = 0
        /\ c.sockets = 0 /\ c.connections = 0
    BY <1>2
  <1>4. c \in ConnectorRecord
    <2>1. <<>> \in Seq(FunctorSet) /\ kInitRetryDelayMs \in Int
      BY ConnectorAssumption
    <2>. QED  BY <1>2, <2>1 DEF ConnectorRecord
  <1>5. Len(c.queue) = 0
    BY <1>3
  <1>6. \A f, i : ~Has(c.queue, f) /\ ~HasFor(c.queue, f, i) /\ Once(c.queue, f)
    BY <1>5 DEF Has, HasFor, Once
  <1>7. Sound(c)
    BY <1>3, <1>4, <1>6, ConnectorAssumption DEF Sound
  <1>8. \A i \in Conns : conn[i].state = "none" /\ conn[i].callback = "removeConnection"
    BY <1>1
  <1>9. \A i \in Conns : ~Attached(i) /\ M_connection # i
    BY <1>1, <1>8 DEF Attached, Open, Conns, NoConn
  <1>10. LoopInv
    <2>1. batch \in 0 .. Len(c.queue)
      BY <1>1, <1>5
    <2>. QED  BY <1>1, <2>1 DEF LoopInv
  <1>11. CallsInv
    <2>1. calls \in 0 .. MaxCalls
      BY <1>1, ConnectorAssumption
    <2>2. /\ pc \in [Threads -> {"idle", "startInLoop", "stopInLoop"}]
          /\ calling \in [Threads -> {"none", "connect", "stop"}]
      BY <1>1
    <2>. QED  BY <1>1, <2>1, <2>2 DEF CallsInv
  <1>12. ConnsInv
    <2>1. M_nextConnId \in 1 .. MaxConns + 1 /\ \A i \in Conns : i >= M_nextConnId
      BY <1>1, TcpClientAssumption DEF Conns
    <2>2. conn \in [Conns -> [state : {"none", "kConnected", "kDisconnecting", "kDisconnected"},
                              callback : {"removeConnection", "detail"}]]
      BY <1>1
    <2>. QED  BY <1>1, <1>3, <1>6, <1>8, <1>9, <2>1, <2>2 DEF ConnsInv
  <1>13. AliveInv /\ GoneInv
    BY <1>1, <1>8, <1>9 DEF AliveInv, GoneInv
  <1>14. FlagsInv /\ AbortInv
    BY <1>1 DEF FlagsInv, AbortInv
  <1>15. PendingInv
    BY <1>1 DEF PendingInv
  <1>. QED
    BY <1>7, <1>10, <1>11, <1>12, <1>13, <1>14, <1>15 DEF IInv

LEMMA StutterIInv ==
    ASSUME IInv, UNCHANGED vars
    PROVE  IInv'
  <1>1. /\ UNCHANGED <<M_connect, c, phase, batch, pollout, pc, counts, M_connection,
                       M_nextConnId, conn, closing, clientVars, raced, shared, abandoned,
                       slow, touched>>
        /\ held' = held /\ letGo' = letGo /\ aborted' = aborted
    BY DEF vars, connectorVars, connVars, history
  <1>2. held' \subseteq Conns /\ letGo' \subseteq Conns /\ AbortInv'
    BY <1>1 DEF IInv, ConnsInv, AbortInv
  <1>. QED  BY <1>1, <1>2, HeldKeeps

LEMMA PollFacts ==
    ASSUME Poll
    PROVE  LoopReady /\ Quiet /\ \E r \in 0 .. c.timers : PollReturns(r)
  BY DEF Poll, Quiet

LEMMA ConnectorRunsFacts ==
    ASSUME ConnectorRuns
    PROVE  /\ LoopReady /\ Quiet /\ ConnectorHeld \in BOOLEAN
           /\ \/ DoPendingFunctors \/ RetryTimer(ConnectorHeld)
              \/ RunStartInLoop \/ RunStopInLoop \/ ResetChannel
  BY QuietSteps DEF ConnectorRuns, ConnectorHeld

LEMMA ConnectorRunsKeeps ==
    ASSUME IInv, ConnectorRuns
    PROVE  IInv'
  BY ConnectorRunsFacts, DoPendingFunctorsKeeps, RetryTimerKeeps, RunStartInLoopKeeps,
     RunStopInLoopKeeps, ResetChannelKeeps

LEMMA NextIInv ==
    ASSUME IInv, [Next]_vars
    PROVE  IInv'
  <1>1. CASE ClientLoopStep
    <2>1. CASE Poll
      BY <2>1, PollFacts, PollReturnsKeeps
    <2>. QED
      BY <1>1, <2>1, ConnectorRunsKeeps, WritableKeeps, RunForceCloseKeeps,
         RunConnectDestroyedKeeps, RunWriteCompleteKeeps, RemoveConnectionKeeps,
         DetailRemoveConnectionKeeps, RestartConnectorKeeps, StrayFunctorKeeps,
         KeeperExpiresKeeps DEF ClientLoopStep
  <1>2. CASE UserStep
    BY <1>2, ConnectInLoopKeeps, StopInLoopThreadKeeps, DisconnectKeeps, SendCompletesKeeps,
       HoldKeeps, ReleaseKeeps, DestructUnconnectedKeeps, DestructConnectedKeeps DEF UserStep
  <1>3. CASE SocketFails \/ \E i \in Conns : HandleClose(i)
    BY <1>3, SocketFailsKeeps, HandleCloseKeeps
  <1>4. CASE \E t \in Threads :
                \/ \E call \in {"connect", "stop"} : BeginCall(t, call)
                \/ CallConnector(t) \/ QueueElsewhere(t)
    BY <1>4, BeginCallKeeps, CallConnectorKeeps, QueueElsewhereKeeps
  <1>5. CASE UNCHANGED vars
    BY <1>5, StutterIInv
  <1>. QED  BY <1>1, <1>2, <1>3, <1>4, <1>5 DEF Next

(* The state that the connector and the client keep is consistent, however *)
(* often connect() and stop() are called.                                  *)
THEOREM Invariance == Spec => []IInv
  <1>1. Init => IInv
    BY InitIInv
  <1>2. IInv /\ [Next]_vars => IInv'
    BY NextIInv
  <1>. QED  BY <1>1, <1>2, PTL DEF Spec

-----------------------------------------------------------------------------
(* What follows, however often connect() and stop() are called.            *)

LEMMA IInvTypes ==
    ASSUME IInv
    PROVE  TypeOK
  <1>1. c \in ConnectorRecord /\ c.queue \in Seq(FunctorSet)
    BY QueueFacts DEF IInv
  <1>2. c.connections \in Nat /\ c.sockets \in Nat
    BY DEF IInv, Sound
  <1>3. ConnectorTypeOK
    <2>1. /\ c.M_state \in {"kDisconnected", "kConnecting", "kConnected"}
          /\ c.M_channel \in {"none", "registered", "removed"}
          /\ c.gaveUp \in BOOLEAN
      BY <1>1 DEF ConnectorRecord
    <2>2. /\ c.M_retryDelayMs \in kInitRetryDelayMs .. kMaxRetryDelayMs
          /\ c.timers \in 0 .. MaxTimers /\ c.ripe \in 0 .. c.timers
      BY DEF IInv, Sound
    <2>. QED  BY <1>2, <2>1, <2>2 DEF ConnectorTypeOK, IInv, LoopInv, CallsInv
  <1>4. FunctorSet = [f : ConnectorFunctors, of : {0}]
            \union [f : {"forceCloseInLoop", "connectDestroyed", "writeComplete"}, of : Conns]
    <2>1. ConnFunctors = {"forceCloseInLoop", "connectDestroyed", "writeComplete"}
      BY DEF ConnFunctors
    <2>. QED  BY <2>1 DEF FunctorSet
  <1>5. M_connection \in 0 .. M_nextConnId - 1 /\ M_nextConnId \in 1 .. MaxConns + 1
    <2>1. M_connection \in Conns => M_connection = M_nextConnId - 1
      BY DEF IInv, AliveInv, GoneInv, ConnsInv, Conns, NoConn
    <2>2. M_nextConnId \in 1 .. MaxConns + 1 /\ M_connection \in Conns \union {0}
      BY DEF IInv, ConnsInv, AliveInv, NoConn
    <2>. QED  BY <2>1, <2>2, TcpClientAssumption
  <1>6. aborted \in {"no", "startInLoop", "connecting", "handleWrite", "removeConnection",
                    "freed", "~Connector", "~TcpConnection"}
    BY DEF IInv, AbortInv
  <1>7. /\ client \in {"alive", "gone"} /\ M_retry \in BOOLEAN /\ clientConnect \in BOOLEAN
        /\ restarting \in BOOLEAN /\ keeper \in {"none", "set", "due"}
        /\ raced \in BOOLEAN /\ abandoned \in BOOLEAN /\ slow \in BOOLEAN /\ touched \in BOOLEAN
    BY DEF IInv, AliveInv, CallsInv, FlagsInv
  <1>8. /\ held \subseteq Conns /\ closing \in Conns \union {NoConn} /\ shared \subseteq Conns
        /\ letGo \subseteq Conns /\ calling \in [Threads -> {"none", "connect", "stop"}]
        /\ conn \in [Conns -> [state : {"none", "kConnected", "kDisconnecting", "kDisconnected"},
                               callback : {"removeConnection", "detail"}]]
    BY DEF IInv, ConnsInv, CallsInv
  <1>. QED  BY <1>1, <1>3, <1>4, <1>5, <1>6, <1>7, <1>8 DEF TypeOK

(* Every variable keeps its type: in particular the retry delay stays      *)
(* between its bounds, and a socket is not closed twice.                   *)
THEOREM TypeCorrect == Spec => []TypeOK
  BY Invariance, IInvTypes, PTL

LEMMA IInvSockets ==
    ASSUME IInv
    PROVE  SocketsAreOwned
  BY DEF IInv, Sound, SocketsAreOwned

(* connect(), retry(), handleWrite() and the connection's close: every     *)
(* socket has one owner and is closed once, even if start() finds the      *)
(* attempt that stop() has not ended yet.                                  *)
THEOREM SocketsOwned == Spec => []SocketsAreOwned
  BY Invariance, IInvSockets, PTL

LEMMA IInvRetry ==
    ASSUME IInv
    PROVE  RetryIsPending
  <1>1. Queued("startInLoop") <=> Has(c.queue, "startInLoop")
    BY QueueFacts, QueueWords DEF IInv
  <1>. QED  BY <1>1 DEF IInv, PendingInv, First, RetryIsPending, Running

(* retry(), stopInLoop() and restart(): whatever the order of calls and    *)
(* failures, a connector that should connect has its next attempt coming.  *)
THEOREM RetryPending == Spec => []RetryIsPending
  BY Invariance, IInvRetry, PTL

LEMMA IInvDeadClient ==
    ASSUME IInv
    PROVE  DeadClientUntouched
  BY DEF IInv, FlagsInv, DeadClientUntouched

(* ~TcpClient(): newConnection() and removeConnection() are not called on  *)
(* a client that is gone.                                                  *)
THEOREM DeadClient == Spec => []DeadClientUntouched
  BY Invariance, IInvDeadClient, PTL

LEMMA IInvOrphan ==
    ASSUME IInv
    PROVE  OrphanEndsDisconnected
  <1>. SUFFICES ASSUME NEW i \in 1 .. M_nextConnId - 1, Open(i)
                PROVE  Referenced(i) \/ i \in shared \union letGo
    BY DEF OrphanEndsDisconnected
  <1>1. i \in Conns
    BY TcpClientAssumption DEF IInv, ConnsInv, Conns
  <1>2. CASE client = "alive"
    BY <1>1, <1>2 DEF IInv, AliveInv, Attached, Referenced
  <1>3. CASE client = "gone"
    <2>1. i \in held \/ HasFor(c.queue, "forceCloseInLoop", i) \/ i \in shared \/ i \in letGo
      BY <1>1, <1>3 DEF IInv, GoneInv
    <2>2. HasFor(c.queue, "forceCloseInLoop", i) => InQueue("forceCloseInLoop", i)
      BY QueueFacts, QueueWords DEF IInv
    <2>. QED  BY <2>1, <2>2 DEF Referenced, ConnFunctors
  <1>. QED  BY <1>2, <1>3 DEF IInv, AliveInv

(* ~TcpConnection(): an open connection has an owner left, or its client   *)
(* took the functor of a send() or the pointer of a user for one, and this *)
(* went while the connection was up.                                       *)
THEOREM OrphanEnds == Spec => []OrphanEndsDisconnected
  BY Invariance, IInvOrphan, PTL

-----------------------------------------------------------------------------
(* As long as start() has found the connector idle, SerialInv is kept too. *)

LEMMA SerialNumbers ==
    ASSUME IInv
    PROVE  c.timers \in Nat /\ c.ripe \in Nat /\ c.ripe <= c.timers
  <1>1. c.timers \in 0 .. MaxTimers /\ c.ripe \in 0 .. c.timers /\ MaxTimers \in Nat
    BY ConnectorAssumption DEF IInv, Sound
  <1>. QED  BY <1>1

(* An idle connector: nothing is left of earlier calls.                    *)
LEMMA IdleFacts ==
    ASSUME IInv, ConnectorIdle
    PROVE  /\ c.M_state = "kDisconnected" /\ c.M_channel = "none" /\ c.timers = 0
           /\ ~First /\ ~Last /\ ~Has(c.queue, "startInLoop") /\ closing = NoConn
  <1>1. c.queue \in Seq(FunctorSet) /\ c \in ConnectorRecord
    BY QueueFacts DEF IInv
  <1>2. \A f \in ConnectorFunctors : ~Has(c.queue, f)
    BY <1>1, QueueWords DEF ConnectorIdle, ConnectorFunctorQueued
  <1>3. c.M_state = "kDisconnected" /\ c.timers = 0 /\ \A t \in Threads : pc[t] = "idle"
    BY DEF ConnectorIdle
  <1>4. c.M_channel = "none"
    BY <1>1, <1>2, <1>3 DEF IInv, Sound, ConnectorFunctors, ConnectorRecord
  <1>5. ~First /\ ~Last /\ ~Has(c.queue, "startInLoop")
    BY <1>2, <1>3 DEF First, Last, ConnectorFunctors
  <1>. QED  BY <1>3, <1>4, <1>5, ClosingFacts

LEMMA FrameToken ==
    ASSUME TokenInv, c'.M_state = c.M_state, c'.timers = c.timers,
           c'.M_channel \in {c.M_channel, "none"}, pc' = pc,
           Has(c'.queue, "startInLoop") => Has(c.queue, "startInLoop"),
           Once(c.queue, "startInLoop") => Once(c'.queue, "startInLoop")
    PROVE  TokenInv'
  <1>1. First' => First
    BY DEF First
  <1>. QED  BY <1>1 DEF TokenInv

(* The right to make an attempt is with the timer or with the attempt.     *)
LEMMA TokenSpent ==
    ASSUME ~First', c'.timers <= 1, c'.timers = 1 => c'.M_state = "kDisconnected"
    PROVE  TokenInv'
  BY DEF TokenInv, First, Once, Has

LEMMA FrameStopped ==
    ASSUME StoppedInv, UNCHANGED <<M_connect, pc, raced>>,
           Has(c'.queue, "stopInLoop") => Has(c.queue, "stopInLoop"),
           client = "gone" => client' = "gone"
    PROVE  StoppedInv'
  BY DEF StoppedInv, Last

LEMMA FrameSerial ==
    ASSUME SerialInv, c'.M_state = c.M_state, c'.M_channel = c.M_channel,
           c'.timers = c.timers, c'.ripe = c.ripe,
           UNCHANGED <<M_connect, pc, raced, phase>>,
           Has(c'.queue, "startInLoop") => Has(c.queue, "startInLoop"),
           Once(c.queue, "startInLoop") => Once(c'.queue, "startInLoop"),
           Has(c'.queue, "stopInLoop") => Has(c.queue, "stopInLoop"),
           client = "gone" => client' = "gone",
           restarting' \/ (closing' # NoConn /\ client' = "alive") => c.M_channel = "none",
           \A i \in Conns : HasFor(c'.queue, "forceCloseInLoop", i) =>
               HasFor(c.queue, "forceCloseInLoop", i) \/ client' = "gone",
           Early(c.queue, batch, "resetChannel") => Early(c'.queue, batch', "resetChannel"),
           StartsInv'
    PROVE  SerialInv'
  <1>1. TokenInv'
    BY FrameToken DEF SerialInv
  <1>2. StoppedInv'
    BY FrameStopped DEF SerialInv
  <1>3. ChannelInv'
    <2>1. raced' = raced /\ phase' = phase
      OBVIOUS
    <2>2. ChannelInv
      BY DEF SerialInv
    <2>. QED  BY <2>1, <2>2 DEF ChannelInv
  <1>. QED  BY <1>1, <1>2, <1>3 DEF SerialInv

(* Steps that leave the connector and the queue alone.                     *)
LEMMA FrameSerialSame ==
    ASSUME SerialInv, c' = c, UNCHANGED <<M_connect, pc, raced, phase, batch>>,
           client = "gone" => client' = "gone",
           restarting' \/ (closing' # NoConn /\ client' = "alive") => c.M_channel = "none",
           StartsInv'
    PROVE  SerialInv'
  BY FrameSerial

LEMMA AssertionsKept ==
    ASSUME SerialInv, raced => raced',
           aborted' = aborted \/ aborted' \in {"freed", "~Connector", "~TcpConnection"}
    PROVE  StartsInv'
  BY DEF SerialInv, StartsInv

LEMMA PollReturnsSerial ==
    ASSUME IInv, SerialInv, LoopReady, Quiet,
           NEW r \in 0 .. c.timers, PollReturns(r)
    PROVE  SerialInv'
  <1>1. c \in ConnectorRecord
    BY DEF IInv, Sound
  <1>2. /\ c' = [c EXCEPT !.ripe = r] /\ phase' = "events" /\ phase = "functors" /\ batch = 0
        /\ UNCHANGED <<M_connect, pc, counts>> /\ aborted' = aborted
    BY DEF PollReturns
  <1>3. /\ c'.M_state = c.M_state /\ c'.M_channel = c.M_channel /\ c'.timers = c.timers
        /\ c'.queue = c.queue
    BY <1>1, <1>2 DEF ConnectorRecord
  <1>4. TokenInv'
    BY <1>2, <1>3, FrameToken DEF SerialInv
  <1>5. StoppedInv'
    BY <1>2, <1>3, QuietFacts, FrameStopped DEF SerialInv
  <1>6. ~Early(c.queue, 0, "resetChannel")
    BY DEF Early
  <1>7. ChannelInv'
    BY <1>2, <1>3, <1>6, QuietFacts DEF SerialInv, ChannelInv, LoopReady
  <1>8. StartsInv'
    BY <1>2, QuietFacts, AssertionsKept
  <1>. QED  BY <1>4, <1>5, <1>7, <1>8 DEF SerialInv

LEMMA DoPendingFunctorsSerial ==
    ASSUME IInv, SerialInv, LoopReady, Quiet, DoPendingFunctors
    PROVE  SerialInv'
  <1>1. /\ c' = c /\ phase' = "functors" /\ batch' = Len(c.queue)
        /\ UNCHANGED <<M_connect, pc, counts>> /\ aborted' = aborted
    BY DEF DoPendingFunctors
  <1>2. TokenInv'
    BY <1>1, FrameToken DEF SerialInv
  <1>3. StoppedInv'
    BY <1>1, QuietFacts, FrameStopped DEF SerialInv
  <1>4. ASSUME c.timers > 0, c.M_channel # "none"
        PROVE  Early(c.queue, Len(c.queue), "resetChannel")
    <2>1. c.timers = 1
      BY <1>4, SerialNumbers DEF SerialInv, TokenInv
    <2>2. c.M_state = "kDisconnected"
      BY <2>1 DEF SerialInv, TokenInv
    <2>3. Has(c.queue, "resetChannel")
      BY <1>4, <2>2 DEF IInv, Sound, ConnectorRecord
    <2>4. Len(c.queue) \in Nat
      BY QueueFacts DEF IInv
    <2>. QED  BY <2>3, <2>4 DEF Has, Early
  <1>5. ChannelInv'
    BY <1>1, <1>4, QuietFacts DEF SerialInv, ChannelInv, LoopReady
  <1>6. StartsInv'
    BY <1>1, QuietFacts, AssertionsKept
  <1>. QED  BY <1>2, <1>3, <1>5, <1>6 DEF SerialInv

(* An attempt by d, with the right to make it.                             *)
LEMMA StartsSerial ==
    ASSUME NEW d \in ConnectorRecord, NEW b \in BOOLEAN,
           NEW o \in BOOLEAN, DoStartInLoop(d, b, o), d.M_state = "kDisconnected",
           d.timers = 0
    PROVE  /\ c'.queue = d.queue /\ c'.ripe = d.ripe
           /\ c'.timers <= 1 /\ (c'.timers = 1 => c'.M_state = "kDisconnected")
           /\ c'.timers > 0 => c'.M_channel = d.M_channel
           /\ \/ aborted' \in {"no", "~Connector"}
              \/ aborted' = "connecting" /\ d.M_channel # "none"
  <1>1. PICK a : /\ StartOutcome(d, b, c', a)
                 /\ aborted' = a \/ aborted' = "~Connector"
    BY StartFacts
  <1>. QED  BY <1>1 DEF StartOutcome

LEMMA RetryTimerSerial ==
    ASSUME IInv, SerialInv, LoopReady, Quiet, NEW o \in BOOLEAN,
           RetryTimer(o)
    PROVE  SerialInv'
  <1>. DEFINE d == [c EXCEPT !.timers = @ - 1, !.ripe = @ - 1]
  <1>1. /\ c.ripe > 0 /\ phase = "events" /\ phase' = phase /\ M_connect \in BOOLEAN
        /\ DoStartInLoop(d, M_connect, o) /\ UNCHANGED <<M_connect, pc>>
    BY DEF RetryTimer, Polled, IInv, CallsInv
  <1>2. /\ Sound(d) /\ d.timers = c.timers - 1 /\ d.ripe = c.ripe - 1
        /\ d.queue = c.queue /\ d.M_state = c.M_state /\ d.M_channel = c.M_channel
    BY <1>1, TimerRecord DEF IInv
  <1>. HIDE DEF d
  <1>3. c.timers = 1 /\ c.ripe = 1
    BY <1>1, SerialNumbers DEF SerialInv, TokenInv
  <1>4. c.M_state = "kDisconnected" /\ ~First
    BY <1>3 DEF SerialInv, TokenInv
  <1>5. /\ c'.queue = c.queue /\ c'.ripe = 0
        /\ c'.timers <= 1 /\ (c'.timers = 1 => c'.M_state = "kDisconnected")
        /\ \/ aborted' \in {"no", "~Connector"}
           \/ aborted' = "connecting" /\ c.M_channel # "none"
    <2>1. d \in ConnectorRecord /\ d.M_state = "kDisconnected" /\ d.timers = 0 /\ d.ripe = 0
      BY <1>2, <1>3, <1>4 DEF Sound
    <2>. QED  BY <1>1, <1>2, <2>1, StartsSerial
  <1>6. TokenInv'
    <2>1. ~First'
      BY <1>1, <1>4, <1>5 DEF First
    <2>. QED  BY <1>5, <2>1, TokenSpent
  <1>7. StoppedInv'
    BY <1>1, <1>5, QuietFacts, FrameStopped DEF SerialInv
  <1>8. ChannelInv'
    BY <1>1, <1>5, QuietFacts DEF SerialInv, ChannelInv, LoopReady
  <1>9. StartsInv'
    <2>1. raced \/ c.M_channel = "none"
      BY <1>1, <1>3 DEF SerialInv, ChannelInv
    <2>. QED  BY <1>5, <2>1, QuietFacts DEF StartsInv
  <1>. QED  BY <1>6, <1>7, <1>8, <1>9 DEF SerialInv

LEMMA RunStartInLoopSerial ==
    ASSUME IInv, SerialInv, LoopReady, Quiet, RunStartInLoop
    PROVE  SerialInv'
  <1>. DEFINE d == [c EXCEPT !.queue = Tail(@)]
  <1>1. /\ c.queue # <<>> /\ Head(c.queue).f = "startInLoop" /\ c.queue \in Seq(FunctorSet)
        /\ c \in ConnectorRecord
    BY RunsFacts DEF RunStartInLoop
  <1>2. d \in ConnectorRecord /\ QueueOnly(c, d) /\ d.queue = Tail(c.queue)
    BY <1>1, TailRecord
  <1>3. /\ DoStartInLoop(d, M_connect, TRUE) /\ UNCHANGED <<M_connect, pc>>
        /\ phase' = phase /\ M_connect \in BOOLEAN
    BY DEF RunStartInLoop, IInv, CallsInv
  <1>. HIDE DEF d
  <1>4. /\ Has(c.queue, "startInLoop")
        /\ Once(c.queue, "startInLoop") => ~Has(d.queue, "startInLoop")
        /\ Has(d.queue, "stopInLoop") => Has(c.queue, "stopInLoop")
        /\ \A i : HasFor(d.queue, "forceCloseInLoop", i) => HasFor(c.queue, "forceCloseInLoop", i)
    BY <1>1, <1>2, TailFacts
  <1>5. /\ c.M_state = "kDisconnected" /\ c.M_channel = "none" /\ c.timers = 0
        /\ ~Has(d.queue, "startInLoop") /\ \A t \in Threads : pc[t] # "startInLoop"
    BY <1>4 DEF SerialInv, TokenInv, First
  <1>6. /\ c'.queue = d.queue /\ c'.timers <= 1
        /\ (c'.timers = 1 => c'.M_state = "kDisconnected")
        /\ c'.timers > 0 => c'.M_channel = "none"
        /\ aborted' \in {"no", "~Connector"}
    BY <1>2, <1>3, <1>5, StartsSerial DEF QueueOnly
  <1>7. TokenInv'
    <2>1. ~First'
      BY <1>3, <1>5, <1>6 DEF First
    <2>. QED  BY <1>6, <2>1, TokenSpent
  <1>8. StoppedInv'
    BY <1>3, <1>4, <1>6, QuietFacts, FrameStopped DEF SerialInv
  <1>9. ChannelInv'
    BY <1>4, <1>6, QuietFacts DEF SerialInv, ChannelInv, LoopReady
  <1>10. StartsInv'
    BY <1>6 DEF StartsInv
  <1>. QED  BY <1>7, <1>8, <1>9, <1>10 DEF SerialInv

LEMMA RunStopInLoopSerial ==
    ASSUME IInv, SerialInv, LoopReady, Quiet, RunStopInLoop
    PROVE  SerialInv'
  <1>. DEFINE d == [c EXCEPT !.queue = Tail(@)]
  <1>1. /\ c.queue # <<>> /\ Head(c.queue).f = "stopInLoop" /\ c.queue \in Seq(FunctorSet)
        /\ c \in ConnectorRecord /\ batch \in Int /\ batch' = batch - 1
    BY RunsFacts DEF RunStopInLoop
  <1>2. d \in ConnectorRecord /\ QueueOnly(c, d) /\ d.queue = Tail(c.queue)
    BY <1>1, TailRecord
  <1>3. /\ c' = StopInLoop(d, M_connect) /\ UNCHANGED <<M_connect, pc, counts, phase>>
        /\ aborted' = aborted /\ M_connect \in BOOLEAN
    BY DEF RunStopInLoop, IInv, CallsInv
  <1>. HIDE DEF d
  <1>4. /\ Has(c.queue, "stopInLoop") /\ d.queue \in Seq(FunctorSet)
        /\ Has(d.queue, "startInLoop") => Has(c.queue, "startInLoop")
        /\ Once(c.queue, "startInLoop") => Once(d.queue, "startInLoop")
        /\ \A i : HasFor(d.queue, "forceCloseInLoop", i) => HasFor(c.queue, "forceCloseInLoop", i)
        /\ Early(c.queue, batch, "resetChannel") => Early(d.queue, batch', "resetChannel")
    BY <1>1, <1>2, TailFacts
  <1>5. StartsInv'
    BY <1>3, QuietFacts, AssertionsKept
  <1>6. CASE d.M_state # "kConnecting"
    <2>1. c' = d
      BY <1>3, <1>6 DEF StopInLoop
    <2>2. /\ c'.M_state = c.M_state /\ c'.M_channel = c.M_channel
          /\ c'.timers = c.timers /\ c'.ripe = c.ripe
      BY <1>2, <2>1 DEF QueueOnly
    <2>3. /\ raced' = raced /\ client' = client /\ restarting' = restarting
          /\ closing' = closing /\ closing = NoConn /\ ~restarting
      BY QuietFacts DEF LoopReady
    <2>. QED  BY <1>3, <1>4, <1>5, <2>1, <2>2, <2>3, FrameSerial
  <1>7. CASE d.M_state = "kConnecting"
    <2>1. AttemptFails(d, M_connect, c')
      BY <1>2, <1>3, <1>7, FailsFacts DEF StopInLoop
    <2>2. c.M_state = "kConnecting" /\ d.timers = c.timers
      BY <1>2, <1>7 DEF QueueOnly
    <2>3. c.timers = 0 /\ ~First
      BY <2>2, SerialNumbers DEF SerialInv, TokenInv
    <2>4. /\ c'.M_state = "kDisconnected"
          /\ c'.queue = Append(d.queue, Functor("resetChannel"))
          /\ c'.timers = IF M_connect THEN 1 ELSE 0
      BY <1>3, <2>1, <2>2, <2>3 DEF AttemptFails
    <2>5. /\ Has(c'.queue, "startInLoop") => Has(d.queue, "startInLoop")
          /\ \A i : HasFor(c'.queue, "forceCloseInLoop", i) =>
                 HasFor(d.queue, "forceCloseInLoop", i)
      BY <1>4, <2>4, AppendFacts, FunctorFacts DEF ConnectorFunctors
    <2>6. TokenInv'
      <3>1. ~First'
        BY <1>3, <1>4, <2>3, <2>5 DEF First
      <3>. QED  BY <2>4, <3>1, TokenSpent
    <2>7. StoppedInv'
      BY <1>3, <1>4, QuietFacts, FrameStopped DEF SerialInv
    <2>8. M_connect => raced
      <3>1. client = "gone" => ~M_connect
        BY <2>2 DEF IInv, GoneInv
      <3>. QED  BY <1>4, <3>1 DEF SerialInv, StoppedInv, Last
    <2>9. ChannelInv'
      <3>1. c'.timers > 0 => raced'
        BY <2>4, <2>8, QuietFacts
      <3>. QED  BY <1>4, <2>5, <3>1, QuietFacts DEF SerialInv, ChannelInv, LoopReady
    <2>. QED  BY <1>5, <2>6, <2>7, <2>9 DEF SerialInv
  <1>. QED  BY <1>6, <1>7

LEMMA ResetChannelSerial ==
    ASSUME IInv, SerialInv, LoopReady, Quiet, ResetChannel
    PROVE  SerialInv'
  <1>1. /\ c.queue # <<>> /\ Head(c.queue).f = "resetChannel" /\ c.queue \in Seq(FunctorSet)
    BY RunsFacts DEF ResetChannel
  <1>2. /\ c' = [c EXCEPT !.queue = Tail(@), !.M_channel = "none"]
        /\ UNCHANGED <<M_connect, phase, pc, counts>> /\ aborted' = aborted
    BY DEF ResetChannel
  <1>3. /\ c'.queue = Tail(c.queue) /\ c'.M_channel = "none"
        /\ c'.M_state = c.M_state /\ c'.timers = c.timers
    BY <1>1, <1>2, ResetRecord DEF IInv
  <1>4. /\ Has(c'.queue, "startInLoop") => Has(c.queue, "startInLoop")
        /\ Has(c'.queue, "stopInLoop") => Has(c.queue, "stopInLoop")
        /\ Once(c.queue, "startInLoop") => Once(c'.queue, "startInLoop")
        /\ \A i : HasFor(c'.queue, "forceCloseInLoop", i) =>
               HasFor(c.queue, "forceCloseInLoop", i)
    BY <1>1, <1>3, TailFacts
  <1>5. TokenInv'
    BY <1>2, <1>3, <1>4, FrameToken DEF SerialInv
  <1>6. StoppedInv'
    BY <1>2, <1>4, QuietFacts, FrameStopped DEF SerialInv
  <1>7. ChannelInv'
    BY <1>3, <1>4, QuietFacts DEF SerialInv, ChannelInv
  <1>8. StartsInv'
    BY <1>2, QuietFacts, AssertionsKept
  <1>. QED  BY <1>5, <1>6, <1>7, <1>8 DEF SerialInv

LEMMA StrayFunctorSerial ==
    ASSUME IInv, SerialInv, StrayFunctor
    PROVE  SerialInv'
  <1>1. /\ Quiet /\ LoopReady /\ aborted' = "freed" /\ c' = c
        /\ UNCHANGED <<M_connect, pc, counts, phase, batch>>
    BY QuietSteps DEF StrayFunctor
  <1>2. StartsInv'
    BY <1>1 DEF StartsInv
  <1>. QED  BY <1>1, <1>2, QuietFacts, FrameSerialSame DEF LoopReady

(* An attempt ends in the events of an iteration: a timer set now is not   *)
(* due before the next one.                                                *)
LEMMA AttemptEndsSerial ==
    ASSUME IInv, SerialInv, LoopReady, c.M_state = "kConnecting",
           AttemptFails(c, M_connect, c') \/ AttemptSucceeds(c, M_connect, c'),
           UNCHANGED <<M_connect, phase, pc, counts, aborted, raced, client, restarting, closing>>,
           phase = "events"
    PROVE  SerialInv'
  <1>1. c.queue \in Seq(FunctorSet) /\ M_connect \in BOOLEAN
    BY QueueFacts DEF IInv, CallsInv
  <1>2. c.timers = 0 /\ ~First /\ c.ripe = 0
    BY SerialNumbers DEF SerialInv, TokenInv
  <1>3. /\ c'.queue = Append(c.queue, Functor("resetChannel")) /\ c'.ripe = 0
        /\ c'.timers <= 1 /\ (c'.timers = 1 => c'.M_state = "kDisconnected")
    <2>1. CASE AttemptFails(c, M_connect, c')
      BY <1>1, <1>2, <2>1 DEF AttemptFails
    <2>2. CASE AttemptSucceeds(c, M_connect, c')
      BY <1>1, <1>2, <2>2 DEF AttemptSucceeds
    <2>. QED  BY <2>1, <2>2
  <1>4. /\ Has(c'.queue, "startInLoop") => Has(c.queue, "startInLoop")
        /\ Has(c'.queue, "stopInLoop") => Has(c.queue, "stopInLoop")
        /\ \A i : HasFor(c'.queue, "forceCloseInLoop", i) =>
               HasFor(c.queue, "forceCloseInLoop", i)
    BY <1>1, <1>3, AppendFacts, FunctorFacts DEF ConnectorFunctors
  <1>5. TokenInv'
    <2>1. ~First'
      BY <1>2, <1>4 DEF First
    <2>. QED  BY <1>3, <2>1, TokenSpent
  <1>6. StoppedInv'
    BY <1>4, FrameStopped DEF SerialInv
  <1>7. ChannelInv'
    BY <1>3, <1>4 DEF SerialInv, ChannelInv, LoopReady
  <1>8. StartsInv'
    BY AssertionsKept
  <1>. QED  BY <1>5, <1>6, <1>7, <1>8 DEF SerialInv

LEMMA SocketFailsSerial ==
    ASSUME IInv, SerialInv, SocketFails
    PROVE  SerialInv'
  <1>1. /\ LoopReady /\ Quiet /\ c.M_channel = "registered" /\ c' = HandleError(c, M_connect)
        /\ UNCHANGED <<M_connect, phase, pc, counts, aborted>> /\ phase = "events"
    BY QuietSteps DEF SocketFails, ErrorEvent, Polled
  <1>2. c.M_state = "kConnecting" /\ c \in ConnectorRecord /\ M_connect \in BOOLEAN
    BY <1>1 DEF IInv, Sound, CallsInv
  <1>3. AttemptFails(c, M_connect, c')
    BY <1>1, <1>2, FailsFacts DEF HandleError
  <1>. QED  BY <1>1, <1>2, <1>3, QuietFacts, AttemptEndsSerial

LEMMA WritableSerial ==
    ASSUME IInv, SerialInv, Writable
    PROVE  SerialInv'
  <1>1. /\ LoopReady /\ WriteEvent /\ UNCHANGED <<closing, clientVars>> /\ raced' = raced
    BY DEF Writable
  <1>2. /\ pollout \/ c.M_channel = "registered"
        /\ UNCHANGED <<M_connect, phase, batch, pc, counts>> /\ phase = "events"
    BY <1>1 DEF WriteEvent
  <1>3. client' = client /\ restarting' = restarting /\ closing' = closing
    BY <1>1 DEF clientVars
  <1>4. c \in ConnectorRecord /\ M_connect \in BOOLEAN
    BY DEF IInv, Sound, CallsInv
  <1>5. c.M_state # "kConnected"
    BY <1>2 DEF IInv, Sound, LoopInv
  <1>6. c' \in HandleWrite(c, M_connect) /\ aborted' = aborted
    BY <1>1, <1>5 DEF WriteEvent
  <1>7. CASE c.M_state # "kConnecting"
    <2>1. c' = c
      BY <1>6, <1>7 DEF HandleWrite
    <2>2. StartsInv'
      BY <1>1, <1>6, AssertionsKept
    <2>. QED  BY <1>1, <1>2, <1>3, <2>1, <2>2, FrameSerialSame DEF LoopReady
  <1>8. CASE c.M_state = "kConnecting"
    <2>1. \/ c' = Retry(RemoveAndResetChannel(c), M_connect)
          \/ c' = Connected(RemoveAndResetChannel(c), M_connect)
      BY <1>6, <1>8 DEF HandleWrite
    <2>2. AttemptFails(c, M_connect, c') \/ AttemptSucceeds(c, M_connect, c')
      BY <1>4, <2>1, FailsFacts, SucceedsFacts
    <2>. QED  BY <1>1, <1>2, <1>3, <1>6, <1>8, <2>2, AttemptEndsSerial
  <1>. QED  BY <1>7, <1>8

LEMMA DropSerial ==
    ASSUME IInv, SerialInv, NEW f \in ConnFunctors, RunsFunctor(f),
           c' = [c EXCEPT !.queue = Tail(@)],
           UNCHANGED <<M_connect, phase, pc, counts, clientVars, history>>,
           aborted' = aborted \/ aborted' = "~TcpConnection",
           closing' # NoConn /\ client = "alive" => c.M_channel = "none",
           ~restarting
    PROVE  SerialInv'
  <1>1. /\ c.queue # <<>> /\ Head(c.queue).f = f /\ c.queue \in Seq(FunctorSet)
        /\ c \in ConnectorRecord /\ batch \in Int /\ batch' = batch - 1
    BY RunsFacts
  <1>2. QueueOnly(c, c') /\ c'.queue = Tail(c.queue)
    BY <1>1, TailRecord
  <1>3. f # "resetChannel"
    BY DEF ConnFunctors
  <1>4. /\ Has(c'.queue, "startInLoop") => Has(c.queue, "startInLoop")
        /\ Has(c'.queue, "stopInLoop") => Has(c.queue, "stopInLoop")
        /\ Once(c.queue, "startInLoop") => Once(c'.queue, "startInLoop")
        /\ \A i : HasFor(c'.queue, "forceCloseInLoop", i) =>
               HasFor(c.queue, "forceCloseInLoop", i)
        /\ Early(c.queue, batch, "resetChannel") => Early(c'.queue, batch', "resetChannel")
    BY <1>1, <1>2, <1>3, TailFacts
  <1>5. raced' = raced /\ client' = client /\ restarting' = restarting
    BY DEF clientVars, history
  <1>6. StartsInv'
    BY <1>5, AssertionsKept
  <1>7. /\ c'.M_state = c.M_state /\ c'.M_channel = c.M_channel
        /\ c'.timers = c.timers /\ c'.ripe = c.ripe
    BY <1>2 DEF QueueOnly
  <1>. QED  BY <1>4, <1>5, <1>6, <1>7, FrameSerial

LEMMA ConnStepsSerial ==
    ASSUME IInv, SerialInv,
           \E i \in Conns : RunForceClose(i) \/ RunConnectDestroyed(i) \/ RunWriteComplete(i)
    PROVE  SerialInv'
  <1>1. CASE \E i \in Conns : RunForceClose(i)
    <2>1. PICK i \in Conns : RunForceClose(i)
      BY <1>1
    <2>2. /\ LoopReady /\ RunsFunctor("forceCloseInLoop") /\ Head(c.queue).of = i
          /\ c' = [c EXCEPT !.queue = Tail(@)]
          /\ UNCHANGED <<M_connect, phase, pc, counts, aborted, clientVars, history>>
      BY <2>1 DEF RunForceClose
    <2>3. HasFor(c.queue, "forceCloseInLoop", i)
      BY <2>2, RunsFacts, TailFacts
    <2>4. client = "gone" /\ ~restarting /\ "forceCloseInLoop" \in ConnFunctors
      BY <2>2, <2>3 DEF SerialInv, ChannelInv, LoopReady, ConnFunctors
    <2>. QED  BY <2>2, <2>4, DropSerial
  <1>2. CASE \E i \in Conns : RunConnectDestroyed(i)
    <2>1. /\ LoopReady /\ RunsFunctor("connectDestroyed")
          /\ c' = [c EXCEPT !.queue = Tail(@)] /\ closing' = closing
          /\ UNCHANGED <<M_connect, phase, pc, counts, aborted, clientVars, history>>
      BY <1>2 DEF RunConnectDestroyed
    <2>2. closing = NoConn /\ ~restarting /\ "connectDestroyed" \in ConnFunctors
      BY <2>1 DEF LoopReady, ConnFunctors
    <2>. QED  BY <2>1, <2>2, DropSerial
  <1>3. CASE \E i \in Conns : RunWriteComplete(i)
    <2>1. /\ LoopReady /\ RunsFunctor("writeComplete")
          /\ c' = [c EXCEPT !.queue = Tail(@)] /\ closing' = closing
          /\ UNCHANGED <<M_connect, phase, pc, counts, clientVars, history>>
          /\ aborted' = aborted \/ aborted' = "~TcpConnection"
      BY <1>3 DEF RunWriteComplete, DropsPointer, connVars
    <2>2. closing = NoConn /\ ~restarting /\ "writeComplete" \in ConnFunctors
      BY <2>1 DEF LoopReady, ConnFunctors
    <2>. QED  BY <2>1, <2>2, DropSerial
  <1>. QED  BY <1>1, <1>2, <1>3

LEMMA HandleCloseSerial ==
    ASSUME IInv, SerialInv, NEW i \in Conns, HandleClose(i)
    PROVE  SerialInv'
  <1>1. /\ c' = c /\ UNCHANGED <<M_connect, pc, counts, phase, batch>> /\ aborted' = aborted
        /\ client' = client /\ raced' = raced /\ c.M_channel = "none"
    BY DEF HandleClose, connectorVars, clientVars, history
  <1>2. StartsInv'
    BY <1>1, AssertionsKept
  <1>. QED  BY <1>1, <1>2, FrameSerialSame

LEMMA SendCompletesSerial ==
    ASSUME IInv, SerialInv, SendCompletes
    PROVE  SerialInv'
  <1>1. PICK i \in Conns : Push(OfConn("writeComplete", i))
    BY DEF SendCompletes
  <1>. DEFINE x == OfConn("writeComplete", i)
  <1>2. x \in FunctorSet /\ x.f = "writeComplete"
    BY FunctorFacts DEF ConnFunctors
  <1>3. /\ LoopReady /\ Quiet /\ UNCHANGED <<M_connect, phase, batch, pc, counts>>
        /\ aborted' = aborted
    BY QuietSteps DEF SendCompletes
  <1>. HIDE DEF x
  <1>4. /\ QueueOnly(c, c')
        /\ Has(c'.queue, "startInLoop") => Has(c.queue, "startInLoop")
        /\ Has(c'.queue, "stopInLoop") => Has(c.queue, "stopInLoop")
        /\ Once(c.queue, "startInLoop") => Once(c'.queue, "startInLoop")
        /\ \A j : HasFor(c'.queue, "forceCloseInLoop", j) =>
               HasFor(c.queue, "forceCloseInLoop", j)
        /\ Early(c.queue, batch, "resetChannel") => Early(c'.queue, batch, "resetChannel")
    BY <1>1, <1>2, PushFacts DEF x
  <1>5. StartsInv'
    BY <1>3, QuietFacts, AssertionsKept
  <1>6. /\ c'.M_state = c.M_state /\ c'.M_channel = c.M_channel
        /\ c'.timers = c.timers /\ c'.ripe = c.ripe
    BY <1>4 DEF QueueOnly
  <1>7. /\ raced' = raced /\ client' = client /\ restarting' = restarting
        /\ closing' = closing /\ closing = NoConn /\ ~restarting
    BY <1>3, QuietFacts DEF LoopReady
  <1>. QED  BY <1>3, <1>4, <1>5, <1>6, <1>7, FrameSerial

LEMMA RemoveConnectionSerial ==
    ASSUME IInv, SerialInv, RemoveConnection
    PROVE  SerialInv'
  <1>1. /\ UNCHANGED <<M_connect, pc, counts, phase>> /\ batch' = batch /\ client' = client
        /\ raced' = raced /\ closing # NoConn
    BY DEF RemoveConnection
  <1>2. /\ client = "alive" /\ c'.M_state = "kConnected" /\ c'.M_channel = c.M_channel
        /\ c'.timers = c.timers /\ c'.ripe = c.ripe /\ aborted' = aborted
        /\ \A f : Has(c'.queue, f) <=> Has(c.queue, f) \/ f = "connectDestroyed"
        /\ \A f, i : HasFor(c'.queue, f, i) <=>
               HasFor(c.queue, f, i) \/ (f = "connectDestroyed" /\ i = closing)
        /\ \A f : f # "connectDestroyed" /\ Once(c.queue, f) => Once(c'.queue, f)
        /\ \A f, b : Early(c.queue, b, f) => Early(c'.queue, b, f)
    BY RemoveConnectionFacts
  <1>3. c.M_state = "kConnected"
    BY <1>1, ClosingFacts
  <1>4. c.M_channel = "none"
    BY <1>1, <1>2 DEF SerialInv, ChannelInv
  <1>5. StartsInv'
    BY <1>1, <1>2, AssertionsKept
  <1>6. /\ Has(c'.queue, "startInLoop") => Has(c.queue, "startInLoop")
        /\ Has(c'.queue, "stopInLoop") => Has(c.queue, "stopInLoop")
        /\ Once(c.queue, "startInLoop") => Once(c'.queue, "startInLoop")
        /\ \A i \in Conns : HasFor(c'.queue, "forceCloseInLoop", i) =>
               HasFor(c.queue, "forceCloseInLoop", i)
        /\ Early(c.queue, batch, "resetChannel") => Early(c'.queue, batch', "resetChannel")
    BY <1>1, <1>2
  <1>. QED  BY <1>1, <1>2, <1>3, <1>4, <1>5, <1>6, FrameSerial

LEMMA DetailRemoveConnectionSerial ==
    ASSUME IInv, SerialInv, DetailRemoveConnection
    PROVE  SerialInv'
  <1>1. /\ UNCHANGED <<M_connect, pc, counts, phase>> /\ batch' = batch /\ client' = client
        /\ restarting' = restarting /\ raced' = raced /\ aborted' = aborted
        /\ closing # NoConn /\ closing' = NoConn /\ c' = HandedBack(c)
    BY DEF DetailRemoveConnection, clientVars, history
  <1>2. ~restarting /\ c.connections = 1
    BY <1>1, ClosingFacts
  <1>3. /\ c'.queue = c.queue /\ c'.M_state = c.M_state /\ c'.M_channel = c.M_channel
        /\ c'.timers = c.timers /\ c'.ripe = c.ripe
    BY <1>1, <1>2, BackRecord DEF IInv
  <1>4. StartsInv'
    BY <1>1, AssertionsKept
  <1>. QED  BY <1>1, <1>2, <1>3, <1>4, FrameSerial

LEMMA RestartConnectorSerial ==
    ASSUME IInv, SerialInv, RestartConnector
    PROVE  SerialInv'
  <1>. DEFINE d == [c EXCEPT !.M_state = "kDisconnected", !.M_retryDelayMs = kInitRetryDelayMs]
  <1>1. /\ restarting /\ restarting' = FALSE /\ M_connect' = TRUE
        /\ DoStartInLoop(d, TRUE, TRUE) /\ UNCHANGED <<pc, phase>> /\ raced' = (raced \/ ~M_connect)
        /\ client' = client /\ closing' = closing
    BY DEF RestartConnector, Restart, connVars
  <1>2. /\ Sound(d) /\ d.queue = c.queue /\ d.M_state = "kDisconnected"
        /\ d.M_channel = c.M_channel /\ d.timers = c.timers
    BY <1>1, RestartRecord
  <1>. HIDE DEF d
  <1>3. c.M_state = "kConnected" /\ closing = NoConn
    BY <1>1 DEF IInv, AliveInv
  <1>4. c.timers = 0 /\ ~First /\ c.M_channel = "none"
    BY <1>1, <1>3, SerialNumbers DEF SerialInv, TokenInv, ChannelInv
  <1>5. /\ c'.queue = c.queue
        /\ c'.timers <= 1 /\ (c'.timers = 1 => c'.M_state = "kDisconnected")
        /\ c'.timers > 0 => c'.M_channel = "none"
        /\ aborted' \in {"no", "~Connector"}
    <2>1. d \in ConnectorRecord
      BY <1>2 DEF Sound
    <2>. QED  BY <1>1, <1>2, <1>4, <2>1, StartsSerial
  <1>6. TokenInv'
    <2>1. ~First'
      BY <1>1, <1>4, <1>5 DEF First
    <2>. QED  BY <1>5, <2>1, TokenSpent
  <1>7. StoppedInv'
    BY <1>1, <1>5 DEF SerialInv, StoppedInv, Last
  <1>8. ChannelInv'
    BY <1>1, <1>3, <1>5 DEF SerialInv, ChannelInv
  <1>9. StartsInv'
    BY <1>5 DEF StartsInv
  <1>. QED  BY <1>6, <1>7, <1>8, <1>9 DEF SerialInv

LEMMA ConnectInLoopSerial ==
    ASSUME IInv, SerialInv, ConnectInLoop, ~overlapped'
    PROVE  SerialInv'
  <1>1. /\ client = "alive" /\ client' = client /\ restarting' = restarting /\ ~restarting
        /\ Calls("start") /\ DoStartInLoop(c, TRUE, TRUE) /\ UNCHANGED <<pc, phase>>
        /\ closing' = closing
    BY DEF ConnectInLoop, LoopStart, Unaffected, connVars
  <1>2. ConnectorIdle
    BY <1>1, CallsFacts
  <1>3. /\ c.M_state = "kDisconnected" /\ c.M_channel = "none" /\ c.timers = 0
        /\ ~First /\ ~Last
    BY <1>2, IdleFacts
  <1>4. closing = NoConn
    BY <1>2, IdleFacts
  <1>5. /\ c'.queue = c.queue
        /\ c'.timers <= 1 /\ (c'.timers = 1 => c'.M_state = "kDisconnected")
        /\ c'.timers > 0 => c'.M_channel = "none"
        /\ aborted' \in {"no", "~Connector"}
    <2>1. c \in ConnectorRecord
      BY DEF IInv, Sound
    <2>. QED  BY <1>1, <1>3, <2>1, StartsSerial
  <1>6. TokenInv'
    <2>1. ~First'
      BY <1>1, <1>3, <1>5 DEF First
    <2>. QED  BY <1>5, <2>1, TokenSpent
  <1>7. StoppedInv'
    BY <1>1, <1>3, <1>5 DEF StoppedInv, Last
  <1>8. ChannelInv'
    BY <1>1, <1>4, <1>5 DEF SerialInv, ChannelInv
  <1>9. StartsInv'
    BY <1>5 DEF StartsInv
  <1>. QED  BY <1>6, <1>7, <1>8, <1>9 DEF SerialInv

(* stop() in the loop thread, and ~TcpClient() without a connection: the   *)
(* functor is queued and M_connect is reset.                               *)
LEMMA StopQueuedSerial ==
    ASSUME IInv, SerialInv, Push(Functor("stopInLoop")), M_connect' = FALSE,
           UNCHANGED <<phase, batch, pc, raced, aborted, closing, restarting>>,
           client' = client \/ client' = "gone"
    PROVE  SerialInv'
  <1>. DEFINE x == Functor("stopInLoop")
  <1>1. x \in FunctorSet /\ x.f = "stopInLoop" /\ Push(x)
    BY FunctorFacts DEF ConnectorFunctors
  <1>. HIDE DEF x
  <1>2. /\ QueueOnly(c, c')
        /\ Has(c'.queue, "startInLoop") => Has(c.queue, "startInLoop")
        /\ Once(c.queue, "startInLoop") => Once(c'.queue, "startInLoop")
        /\ \A j : HasFor(c'.queue, "forceCloseInLoop", j) =>
               HasFor(c.queue, "forceCloseInLoop", j)
        /\ Early(c.queue, batch, "resetChannel") => Early(c'.queue, batch, "resetChannel")
    BY <1>1, PushFacts
  <1>3. /\ c'.M_state = c.M_state /\ c'.M_channel = c.M_channel
        /\ c'.timers = c.timers /\ c'.ripe = c.ripe
    BY <1>2 DEF QueueOnly
  <1>4. TokenInv'
    BY <1>2, <1>3, FrameToken DEF SerialInv
  <1>5. StoppedInv'
    BY DEF StoppedInv
  <1>6. ChannelInv'
    <2>1. client' = "alive" => client = "alive"
      OBVIOUS
    <2>2. client = "gone" => client' = "gone"
      OBVIOUS
    <2>. QED  BY <1>2, <1>3, <2>1, <2>2 DEF SerialInv, ChannelInv
  <1>7. StartsInv'
    BY AssertionsKept
  <1>. QED  BY <1>4, <1>5, <1>6, <1>7 DEF SerialInv

LEMMA StopInLoopThreadSerial ==
    ASSUME IInv, SerialInv, StopInLoopThread
    PROVE  SerialInv'
  <1>1. /\ Push(Functor("stopInLoop")) /\ M_connect' = FALSE
        /\ UNCHANGED <<phase, batch, pc, raced, aborted, closing, restarting>>
        /\ client' = client
    BY DEF StopInLoopThread, LoopStop, Calls, Push, Unaffected, connVars, history
  <1>. QED  BY <1>1, StopQueuedSerial

LEMMA DestructUnconnectedSerial ==
    ASSUME IInv, SerialInv, DestructUnconnected
    PROVE  SerialInv'
  <1>1. /\ Push(Functor("stopInLoop")) /\ M_connect' = FALSE
        /\ UNCHANGED <<phase, batch, pc, raced, aborted, closing, restarting>>
        /\ client' = "gone"
    BY DEF DestructUnconnected, MayDestruct, connVars, history
  <1>. QED  BY <1>1, StopQueuedSerial

LEMMA DestructConnectedSerial ==
    ASSUME IInv, SerialInv, NEW i \in Conns, DestructConnected(i)
    PROVE  SerialInv'
  <1>1. /\ UNCHANGED <<M_connect, pc, counts, raced, phase>> /\ batch' = batch
        /\ restarting' = restarting
    BY DEF DestructConnected
  <1>2. /\ client' = "gone" /\ restarting = FALSE /\ QueueOnly(c, c')
        /\ aborted' \in {"no", "~Connector"}
        /\ \A f : f # "forceCloseInLoop" => (Has(c'.queue, f) <=> Has(c.queue, f))
        /\ \A f : f # "forceCloseInLoop" /\ Once(c.queue, f) => Once(c'.queue, f)
        /\ \A f, b : Early(c.queue, b, f) => Early(c'.queue, b, f)
    BY DestructConnectedFacts
  <1>3. /\ c'.M_state = c.M_state /\ c'.M_channel = c.M_channel
        /\ c'.timers = c.timers /\ c'.ripe = c.ripe
    BY <1>2 DEF QueueOnly
  <1>4. StartsInv'
    BY <1>2 DEF StartsInv
  <1>5. /\ Has(c'.queue, "startInLoop") => Has(c.queue, "startInLoop")
        /\ Has(c'.queue, "stopInLoop") => Has(c.queue, "stopInLoop")
        /\ Once(c.queue, "startInLoop") => Once(c'.queue, "startInLoop")
        /\ Early(c.queue, batch, "resetChannel") => Early(c'.queue, batch', "resetChannel")
    BY <1>1, <1>2
  <1>. QED  BY <1>1, <1>2, <1>3, <1>4, <1>5, FrameSerial

LEMMA CallConnectorSerial ==
    ASSUME IInv, SerialInv, NEW t \in Threads, CallConnector(t), ~overlapped'
    PROVE  SerialInv'
  <1>1. /\ c' = c /\ UNCHANGED <<phase, batch>> /\ aborted' = aborted /\ UNCHANGED Unaffected
    BY CallConnectorFacts
  <1>2. raced' = raced /\ client' = client /\ closing' = closing /\ restarting' = restarting
    BY <1>1, UnaffectedFacts
  <1>3. StartsInv'
    BY <1>1, <1>2, AssertionsKept
  <1>4. ChannelInv'
    BY <1>1, <1>2 DEF SerialInv, ChannelInv
  <1>5. pc \in [Threads -> {"idle", "startInLoop", "stopInLoop"}] /\ pc[t] = "idle"
    BY CallConnectorFacts DEF IInv, CallsInv
  <1>6. CASE Calls("start") /\ pc' = [pc EXCEPT ![t] = "startInLoop"]
    <2>1. ConnectorIdle
      BY <1>6, CallsFacts
    <2>2. /\ c.M_state = "kDisconnected" /\ c.M_channel = "none" /\ c.timers = 0
          /\ ~First /\ ~Last
      BY <2>1, IdleFacts
    <2>3. \A u \in Threads : pc'[u] = IF u = t THEN "startInLoop" ELSE pc[u]
      BY <1>5, <1>6
    <2>4. /\ ~Has(c.queue, "startInLoop")
          /\ \A u \in Threads : pc'[u] = "startInLoop" => u = t
      BY <2>2, <2>3 DEF First
    <2>5. TokenInv'
      BY <1>1, <2>2, <2>4 DEF SerialInv, TokenInv
    <2>6. StoppedInv'
      BY <1>1, <2>2, <2>3 DEF StoppedInv, Last
    <2>. QED  BY <1>3, <1>4, <2>5, <2>6 DEF SerialInv
  <1>7. CASE Calls("stop") /\ pc' = [pc EXCEPT ![t] = "stopInLoop"]
    <2>1. ~M_connect'
      BY <1>7, CallsFacts
    <2>2. \A u \in Threads : pc'[u] = IF u = t THEN "stopInLoop" ELSE pc[u]
      BY <1>5, <1>7
    <2>3. /\ First' => First
          /\ \A u \in Threads : pc'[u] = "startInLoop" => pc[u] = "startInLoop"
      BY <1>1, <2>2 DEF First
    <2>4. TokenInv'
      BY <1>1, <2>3 DEF SerialInv, TokenInv
    <2>5. StoppedInv'
      BY <2>1 DEF StoppedInv
    <2>. QED  BY <1>3, <1>4, <2>4, <2>5 DEF SerialInv
  <1>. QED  BY <1>6, <1>7, CallConnectorFacts

LEMMA QueueElsewhereSerial ==
    ASSUME IInv, SerialInv, NEW t \in Threads, QueueElsewhere(t)
    PROVE  SerialInv'
  <1>. DEFINE x == Functor(pc[t])
  <1>1. /\ x.f \in {"startInLoop", "stopInLoop"} /\ x \in FunctorSet
        /\ x.f = pc[t] /\ Push(x) /\ UNCHANGED <<phase, batch>> /\ aborted' = aborted
        /\ UNCHANGED Unaffected
    BY QueueElsewhereFacts
  <1>2. /\ M_connect' = M_connect /\ pc'[t] = "idle"
        /\ \A u \in Threads : u # t => pc'[u] = pc[u]
    BY QueueElsewhereFacts
  <1>3. raced' = raced /\ client' = client /\ closing' = closing /\ restarting' = restarting
    BY <1>1, UnaffectedFacts
  <1>. HIDE DEF x
  <1>4. /\ QueueOnly(c, c')
        /\ \A f : Has(c'.queue, f) <=> Has(c.queue, f) \/ x.f = f
        /\ \A f : Once(c.queue, f) /\ (x.f # f \/ ~Has(c.queue, f)) => Once(c'.queue, f)
        /\ \A j : HasFor(c'.queue, "forceCloseInLoop", j) =>
               HasFor(c.queue, "forceCloseInLoop", j)
        /\ Early(c.queue, batch, "resetChannel") => Early(c'.queue, batch, "resetChannel")
    BY <1>1, PushFacts
  <1>5. /\ c'.M_state = c.M_state /\ c'.M_channel = c.M_channel
        /\ c'.timers = c.timers /\ c'.ripe = c.ripe
    BY <1>4 DEF QueueOnly
  <1>6. StartsInv'
    BY <1>1, <1>3, AssertionsKept
  <1>7. ChannelInv'
    BY <1>1, <1>3, <1>4, <1>5 DEF SerialInv, ChannelInv
  <1>8. StoppedInv'
    <2>1. Last' => Last
      BY <1>1, <1>2, <1>4 DEF Last
    <2>. QED  BY <1>2, <1>3, <2>1 DEF SerialInv, StoppedInv
  <1>9. TokenInv'
    <2>1. First' => First
      BY <1>1, <1>2, <1>4 DEF First
    <2>2. x.f = "startInLoop" =>
              ~Has(c.queue, "startInLoop") /\ \A u \in Threads : pc'[u] # "startInLoop"
      BY <1>1, <1>2 DEF SerialInv, TokenInv
    <2>3. Once(c'.queue, "startInLoop")
      BY <1>4, <2>2 DEF SerialInv, TokenInv
    <2>4. \A u \in Threads : pc'[u] = "startInLoop" =>
              /\ ~Has(c'.queue, "startInLoop")
              /\ \A v \in Threads : pc'[v] = "startInLoop" => v = u
      BY <1>2, <1>4, <2>2 DEF SerialInv, TokenInv
    <2>5. /\ First' => c'.M_state = "kDisconnected" /\ c'.M_channel = "none" /\ c'.timers = 0
          /\ c'.timers <= 1
          /\ c'.timers = 1 => c'.M_state = "kDisconnected"
      BY <1>5, <2>1 DEF SerialInv, TokenInv
    <2>. QED  BY <2>3, <2>4, <2>5 DEF TokenInv
  <1>. QED  BY <1>6, <1>7, <1>8, <1>9 DEF SerialInv

(* Steps of users and of the timer that leave the connector alone.         *)
LEMMA OtherStepsSerial ==
    ASSUME IInv, SerialInv,
           \/ Disconnect \/ Hold \/ \E i \in Conns : Release(i)
           \/ KeeperExpires \/ UNCHANGED vars
           \/ \E t \in Threads, call \in {"connect", "stop"} : BeginCall(t, call)
    PROVE  SerialInv'
  <1>1. /\ raced' = raced /\ client' = client /\ restarting' = restarting
        /\ closing' = closing
    BY DEF Disconnect, Hold, Release, KeeperExpires, BeginCall, Unaffected, vars, connVars,
           clientVars, history
  <1>2. /\ c' = c /\ UNCHANGED <<M_connect, pc, phase, batch>>
        /\ aborted' = aborted \/ aborted' \in {"~Connector", "~TcpConnection"}
    BY DEF Disconnect, Hold, Release, KeeperExpires, BeginCall, vars, connectorVars,
           DropsPointer
  <1>3. restarting' \/ (closing' # NoConn /\ client' = "alive") => c.M_channel = "none"
    BY <1>1 DEF SerialInv, ChannelInv
  <1>4. StartsInv'
    BY <1>1, <1>2, AssertionsKept
  <1>. QED  BY <1>1, <1>2, <1>3, <1>4, FrameSerialSame

LEMMA ConnectorRunsSerial ==
    ASSUME IInv, SerialInv, ConnectorRuns
    PROVE  SerialInv'
  BY ConnectorRunsFacts, DoPendingFunctorsSerial, RetryTimerSerial, RunStartInLoopSerial,
     RunStopInLoopSerial, ResetChannelSerial

LEMMA NextSerial ==
    ASSUME IInv, SerialInv, [Next]_vars, ~overlapped'
    PROVE  SerialInv'
  <1>1. CASE ClientLoopStep
    <2>1. CASE Poll
      BY <2>1, PollFacts, PollReturnsSerial
    <2>. QED
      BY <1>1, <2>1, ConnectorRunsSerial, WritableSerial, ConnStepsSerial,
         RemoveConnectionSerial, DetailRemoveConnectionSerial, RestartConnectorSerial,
         StrayFunctorSerial, OtherStepsSerial DEF ClientLoopStep
  <1>2. CASE UserStep
    BY <1>2, ConnectInLoopSerial, StopInLoopThreadSerial, SendCompletesSerial, OtherStepsSerial,
       DestructUnconnectedSerial, DestructConnectedSerial DEF UserStep
  <1>3. CASE SocketFails \/ \E i \in Conns : HandleClose(i)
    BY <1>3, SocketFailsSerial, HandleCloseSerial
  <1>4. CASE \E t \in Threads :
                \/ \E call \in {"connect", "stop"} : BeginCall(t, call)
                \/ CallConnector(t) \/ QueueElsewhere(t)
    BY <1>4, CallConnectorSerial, QueueElsewhereSerial, OtherStepsSerial
  <1>5. CASE UNCHANGED vars
    BY <1>5, OtherStepsSerial
  <1>. QED  BY <1>1, <1>2, <1>3, <1>4, <1>5 DEF Next

LEMMA InitSerial ==
    ASSUME Init
    PROVE  SerialInv
  <1>1. /\ pc = [t \in Threads |-> "idle"] /\ M_connect = FALSE /\ aborted = "no"
        /\ closing = NoConn /\ restarting = FALSE
        /\ c.M_state = "kDisconnected" /\ c.M_channel = "none" /\ c.queue = <<>>
        /\ c.timers = 0
    BY DEF Init, ConnectorInit
  <1>2. \A f, i : ~Has(c.queue, f) /\ ~HasFor(c.queue, f, i) /\ Once(c.queue, f)
    BY <1>1 DEF Has, HasFor, Once
  <1>3. ~First /\ \A t \in Threads : pc[t] = "idle"
    BY <1>1, <1>2 DEF First
  <1>. QED
    BY <1>1, <1>2, <1>3 DEF SerialInv, TokenInv, StoppedInv, ChannelInv, StartsInv

(* A start() that has overlapped is not forgotten.                         *)
LEMMA NextOverlapped ==
    ASSUME overlapped, [Next]_vars
    PROVE  overlapped'
  <1>1. CASE overlapped' = overlapped
    BY <1>1
  <1>2. CASE \E call \in {"start", "stop"} : Calls(call)
    BY <1>2 DEF Calls
  <1>3. CASE ClientLoopStep
    <2>1. UNCHANGED counts
      BY <1>3 DEF ClientLoopStep, Poll, PollReturns, ConnectorRuns, DoPendingFunctors, RetryTimer,
         RunStartInLoop, RunStopInLoop, ResetChannel, Writable, WriteEvent, RunForceClose,
         RunConnectDestroyed, RunWriteComplete, RemoveConnection, DetailRemoveConnection,
         RestartConnector, Restart, StrayFunctor, KeeperExpires
    <2>. QED  BY <1>1, <2>1 DEF counts
  <1>4. CASE UserStep
    BY <1>1, <1>2, <1>4 DEF UserStep, ConnectInLoop, LoopStart, StopInLoopThread, LoopStop,
       Disconnect, SendCompletes, Hold, Release, DestructUnconnected, DestructConnected,
       connectorVars, counts
  <1>5. CASE SocketFails \/ \E i \in Conns : HandleClose(i)
    BY <1>1, <1>5 DEF SocketFails, ErrorEvent, HandleClose, connectorVars, counts
  <1>6. CASE \E t \in Threads :
                \/ \E call \in {"connect", "stop"} : BeginCall(t, call)
                \/ CallConnector(t) \/ QueueElsewhere(t)
    BY <1>1, <1>2, <1>6 DEF BeginCall, CallConnector, Start, Stop, QueueElsewhere, Queues,
       connectorVars, counts
  <1>7. CASE UNCHANGED vars
    BY <1>1, <1>7 DEF vars, connectorVars, counts
  <1>. QED  BY <1>3, <1>4, <1>5, <1>6, <1>7 DEF Next

(* The right to make the next attempt is in one place, however often       *)
(* stop() and start() follow each other, until a start() comes before the  *)
(* last one has ended.                                                     *)
THEOREM SerialInvariance == Spec => [](overlapped \/ SerialInv)
  <1>1. Init => overlapped \/ SerialInv
    BY InitSerial
  <1>2. IInv /\ (overlapped \/ SerialInv) /\ [Next]_vars => (overlapped \/ SerialInv)'
    BY NextSerial, NextOverlapped
  <1>. QED  BY <1>1, <1>2, Invariance, PTL DEF Spec

LEMMA SerialSingle ==
    ASSUME IInv, overlapped \/ SerialInv
    PROVE  SingleAttempt
  <1>1. CASE overlapped
    BY <1>1 DEF SingleAttempt
  <1>2. CASE SerialInv
    <2>1. c.timers \in Nat /\ c.connections \in {0, 1}
      BY SerialNumbers DEF IInv, Sound
    <2>2. /\ c.timers <= 1 /\ (c.timers = 1 => c.M_state = "kDisconnected")
          /\ c.connections = 1 => c.M_state = "kConnected"
      BY <1>2 DEF SerialInv, TokenInv, IInv, Sound
    <2>3. c.timers + c.connections + (IF c.M_state = "kConnecting" THEN 1 ELSE 0) <= 1
      BY <2>1, <2>2
    <2>. QED  BY <2>3 DEF SingleAttempt
  <1>. QED  BY <1>1, <1>2

(* startInLoop()/retry()/restart(): one attempt, one retry timer or one    *)
(* connection at a time, through any number of calls of connect() and      *)
(* stop(), unless a start() came before the last one had ended.            *)
THEOREM OneAttempt == Spec => []SingleAttempt
  BY Invariance, SerialInvariance, SerialSingle, PTL

-----------------------------------------------------------------------------
(* What ~TcpClient() and its keeper leave behind: FateInv is kept too.     *)

LEMMA FrameFate ==
    ASSUME FateInv, UNCHANGED <<client, slow, abandoned>>, keeper' = "none" <=> keeper = "none",
           client = "gone" => /\ c.M_state = "kConnected" => c'.M_state = "kConnected"
                              /\ HasConnector(c'.queue) => HasConnector(c.queue),
           ResetInv', EndInv'
    PROVE  FateInv'
  <1>1. LeftInv'
    BY DEF FateInv, LeftInv
  <1>. QED  BY <1>1 DEF FateInv

(* Only the queue is changed, if anything.                                 *)
LEMMA FrameReset ==
    ASSUME FateInv, c'.M_state = c.M_state, c'.M_channel = c.M_channel,
           phase' = phase \/ phase' = "events",
           Early(c.queue, batch, "resetChannel") => Early(c'.queue, batch', "resetChannel")
    PROVE  ResetInv'
  BY DEF FateInv, ResetInv

LEMMA GoesOn ==
    ASSUME aborted' \notin {"freed", "~Connector", "~TcpConnection"}
    PROVE  EndInv'
  BY DEF EndInv

(* A functor of the queue, or a functor more, and no other change.         *)
LEMMA FrameQueue ==
    ASSUME FateInv, UNCHANGED <<client, slow, abandoned, phase>>,
           keeper' = "none" <=> keeper = "none",
           c'.M_state = c.M_state, c'.M_channel = c.M_channel,
           client = "gone" => (HasConnector(c'.queue) => HasConnector(c.queue)),
           Early(c.queue, batch, "resetChannel") => Early(c'.queue, batch', "resetChannel"),
           EndInv'
    PROVE  FateInv'
  BY FrameReset, FrameFate

LEMMA PollFate ==
    ASSUME IInv, FateInv, Running, Poll
    PROVE  FateInv'
  <1>1. Quiet /\ \E r \in 0 .. c.timers : PollReturns(r)
    BY PollFacts
  <1>2. PICK r \in 0 .. c.timers : PollReturns(r)
    BY <1>1
  <1>3. /\ c' = [c EXCEPT !.ripe = r] /\ phase' = "events" /\ batch' = batch
        /\ aborted' = aborted
    BY <1>2 DEF PollReturns
  <1>4. c'.M_state = c.M_state /\ c'.M_channel = c.M_channel /\ c'.queue = c.queue
    BY <1>3 DEF IInv, Sound, ConnectorRecord
  <1>5. ResetInv'
    BY <1>3 DEF ResetInv
  <1>6. EndInv'
    BY <1>3, GoesOn DEF Running
  <1>. QED  BY <1>1, <1>4, <1>5, <1>6, QuietFacts, FrameFate

LEMMA DoPendingFunctorsFate ==
    ASSUME IInv, FateInv, Quiet, DoPendingFunctors
    PROVE  FateInv'
  <1>1. c' = c /\ batch' = Len(c.queue) /\ aborted' = aborted /\ aborted = "no"
    BY DEF DoPendingFunctors, Polled, LoopIsFree, Running
  <1>2. ResetInv'
    <2>1. c.M_channel = "removed" => Has(c.queue, "resetChannel")
      BY DEF IInv, Sound
    <2>2. Has(c.queue, "resetChannel") => Early(c.queue, Len(c.queue), "resetChannel")
      BY QueueFacts DEF Has, Early, IInv
    <2>. QED  BY <1>1, <2>1, <2>2 DEF ResetInv
  <1>3. EndInv'
    BY <1>1, GoesOn
  <1>. QED  BY <1>1, <1>2, <1>3, QuietFacts, FrameFate

(* startInLoop(), in the loop thread.                                      *)
LEMMA OutcomeFacts ==
    ASSUME NEW d, NEW b \in BOOLEAN, NEW e, NEW a, StartOutcome(d, b, e, a)
    PROVE  /\ a \in {"no", "startInLoop", "connecting"}
           /\ e.queue = d.queue
           /\ d.M_state = "kConnected" => e = d
           /\ e.M_state = "kConnected" => e = d
           /\ a = "no" => d.M_state = "kDisconnected"
           /\ a = "no" /\ ~b => e = d
  BY DEF StartOutcome

LEMMA RetryTimerFate ==
    ASSUME IInv, FateInv, Quiet, RetryTimer(ConnectorHeld)
    PROVE  FateInv'
  <1>. DEFINE d == [c EXCEPT !.timers = @ - 1, !.ripe = @ - 1]
              o == ConnectorHeld
  <1>1. /\ Sound(d) /\ d.queue = c.queue /\ d.M_state = c.M_state /\ d.M_channel = c.M_channel
    BY TimerRecord DEF IInv, RetryTimer
  <1>2. DoStartInLoop(d, M_connect, o) /\ batch' = batch /\ phase' = phase
    BY DEF RetryTimer
  <1>3. M_connect \in BOOLEAN /\ d \in ConnectorRecord /\ o \in BOOLEAN
    BY <1>1 DEF IInv, CallsInv, Sound, ConnectorHeld
  <1>. HIDE DEF d, o
  <1>4. PICK a : /\ StartOutcome(d, M_connect, c', a)
                 /\ \/ aborted' = a
                    \/ a = "no" /\ aborted' = "~Connector" /\ ~o /\ DestructorFails(c')
    BY <1>2, <1>3, StartFacts
  <1>5. /\ a \in {"no", "startInLoop", "connecting"} /\ c'.queue = c.queue
        /\ c.M_state = "kConnected" => c' = d
        /\ c'.M_state = "kConnected" => c' = d
        /\ a = "no" => c.M_state = "kDisconnected"
        /\ a = "no" /\ ~M_connect => c' = d
    BY <1>1, <1>3, <1>4, OutcomeFacts
  <1>6. ResetInv'
    BY <1>1, <1>2, <1>5 DEF FateInv, ResetInv
  <1>7. EndInv'
    <2>1. CASE aborted' = a
      BY <1>5, <2>1, GoesOn
    <2>2. CASE a = "no" /\ aborted' = "~Connector" /\ ~o /\ DestructorFails(c')
      <3>1. client = "gone" /\ keeper = "none"
        BY <2>2 DEF o, ConnectorHeld, IInv, AliveInv
      <3>2. c.M_state = "kDisconnected" /\ ~M_connect
        BY <1>5, <2>2, <3>1 DEF IInv, GoneInv
      <3>3. c.M_channel # "none"
        BY <1>1, <1>5, <2>2, <3>2 DEF DestructorFails
      <3>4. Has(c.queue, "resetChannel")
        BY <3>2, <3>3 DEF IInv, Sound, ConnectorRecord
      <3>5. HasConnector(c.queue)
        BY <3>4 DEF HasConnector, ConnectorFunctors
      <3>6. slow
        BY <3>1, <3>2, <3>5 DEF FateInv, LeftInv
      <3>. QED  BY <2>2, <3>6, QuietFacts DEF EndInv
    <2>. QED  BY <1>4, <2>1, <2>2
  <1>. QED  BY <1>1, <1>5, <1>6, <1>7, QuietFacts, FrameFate

(* A functor leaves the queue.                                             *)
LEMMA TailFate ==
    ASSUME NEW q \in Seq(FunctorSet), q # <<>>
    PROVE  /\ HasConnector(Tail(q)) => HasConnector(q)
           /\ Head(q).f \in ConnectorFunctors => HasConnector(q)
           /\ \A b \in Int : Early(q, b, "resetChannel") /\ Head(q).f # "resetChannel" =>
                  Early(Tail(q), b - 1, "resetChannel")
  BY TailFacts DEF HasConnector

LEMMA RunStartInLoopFate ==
    ASSUME IInv, FateInv, Quiet, RunStartInLoop
    PROVE  FateInv'
  <1>. DEFINE d == [c EXCEPT !.queue = Tail(@)]
  <1>1. /\ c.queue # <<>> /\ Head(c.queue).f = "startInLoop" /\ c.queue \in Seq(FunctorSet)
        /\ c \in ConnectorRecord /\ batch \in Int /\ batch' = batch - 1
    BY RunsFacts DEF RunStartInLoop
  <1>2. d \in ConnectorRecord /\ QueueOnly(c, d) /\ d.queue = Tail(c.queue)
    BY <1>1, TailRecord
  <1>3. DoStartInLoop(d, M_connect, TRUE) /\ phase' = phase /\ M_connect \in BOOLEAN
    BY DEF RunStartInLoop, IInv, CallsInv
  <1>. HIDE DEF d
  <1>4. StartOutcome(d, M_connect, c', aborted')
    BY <1>2, <1>3, StartHeld
  <1>5. /\ aborted' \in {"no", "startInLoop", "connecting"} /\ c'.queue = Tail(c.queue)
        /\ c.M_state = "kConnected" => c' = d
        /\ c'.M_state = "kConnected" => c' = d
    BY <1>2, <1>3, <1>4, OutcomeFacts DEF QueueOnly
  <1>6. d.M_state = c.M_state /\ d.M_channel = c.M_channel
    BY <1>2 DEF QueueOnly
  <1>7. /\ HasConnector(c'.queue) => HasConnector(c.queue)
        /\ Early(c.queue, batch, "resetChannel") => Early(c'.queue, batch', "resetChannel")
    BY <1>1, <1>5, TailFate
  <1>8. ResetInv'
    BY <1>3, <1>5, <1>6, <1>7 DEF FateInv, ResetInv
  <1>9. EndInv'
    BY <1>5, GoesOn
  <1>. QED  BY <1>5, <1>6, <1>7, <1>8, <1>9, QuietFacts, FrameFate

(* An attempt ends: of a client that went, a stopInLoop() is queued.       *)
LEMMA AttemptFate ==
    ASSUME IInv, FateInv, UNCHANGED <<client, slow, abandoned, keeper>>,
           c.M_state = "kConnecting", ResetInv', EndInv'
    PROVE  FateInv'
  <1>1. client = "gone" => HasConnector(c.queue)
    BY DEF IInv, GoneInv, HasConnector, ConnectorFunctors
  <1>. QED  BY <1>1, FrameFate

LEMMA RunStopInLoopFate ==
    ASSUME IInv, FateInv, Quiet, RunStopInLoop
    PROVE  FateInv'
  <1>. DEFINE d == [c EXCEPT !.queue = Tail(@)]
  <1>1. /\ c.queue # <<>> /\ Head(c.queue).f = "stopInLoop" /\ c.queue \in Seq(FunctorSet)
        /\ c \in ConnectorRecord /\ batch \in Int /\ batch' = batch - 1 /\ aborted = "no"
    BY RunsFacts DEF RunStopInLoop
  <1>2. d \in ConnectorRecord /\ QueueOnly(c, d) /\ d.queue = Tail(c.queue)
    BY <1>1, TailRecord
  <1>3. /\ c' = StopInLoop(d, M_connect) /\ phase' = phase /\ M_connect \in BOOLEAN
        /\ aborted' = aborted
    BY DEF RunStopInLoop, IInv, CallsInv
  <1>. HIDE DEF d
  <1>4. EndInv'
    BY <1>1, <1>3, GoesOn
  <1>5. CASE d.M_state # "kConnecting"
    <2>1. c' = d
      BY <1>3, <1>5 DEF StopInLoop
    <2>2. /\ HasConnector(c'.queue) => HasConnector(c.queue)
          /\ Early(c.queue, batch, "resetChannel") => Early(c'.queue, batch', "resetChannel")
      BY <1>1, <1>2, <2>1, TailFate
    <2>. QED  BY <1>2, <1>3, <1>4, <2>1, <2>2, QuietFacts, FrameQueue DEF QueueOnly
  <1>6. CASE d.M_state = "kConnecting"
    <2>1. AttemptFails(d, M_connect, c')
      BY <1>2, <1>3, <1>6, FailsFacts DEF StopInLoop
    <2>2. ResetInv'
      BY <2>1 DEF AttemptFails, ResetInv
    <2>3. c.M_state = "kConnecting" /\ HasConnector(c.queue)
      BY <1>1, <1>2, <1>6, TailFate DEF QueueOnly, ConnectorFunctors
    <2>. QED  BY <1>4, <2>2, <2>3, QuietFacts, FrameFate
  <1>. QED  BY <1>5, <1>6

LEMMA ResetChannelFate ==
    ASSUME IInv, FateInv, Quiet, ResetChannel
    PROVE  FateInv'
  <1>1. /\ c.queue # <<>> /\ Head(c.queue).f = "resetChannel" /\ c.queue \in Seq(FunctorSet)
        /\ aborted = "no"
    BY RunsFacts DEF ResetChannel
  <1>2. c' = [c EXCEPT !.queue = Tail(@), !.M_channel = "none"] /\ aborted' = aborted
    BY DEF ResetChannel
  <1>3. c'.queue = Tail(c.queue) /\ c'.M_state = c.M_state /\ c'.M_channel = "none"
    BY <1>1, <1>2, ResetRecord DEF IInv
  <1>4. HasConnector(c'.queue) => HasConnector(c.queue)
    BY <1>1, <1>3, TailFate
  <1>5. ResetInv' /\ EndInv'
    BY <1>1, <1>2, <1>3, GoesOn DEF ResetInv
  <1>. QED  BY <1>3, <1>4, <1>5, QuietFacts, FrameFate

LEMMA SocketFailsFate ==
    ASSUME IInv, FateInv, Running, SocketFails
    PROVE  FateInv'
  <1>1. /\ UNCHANGED <<client, slow, abandoned, keeper>> /\ c.M_channel = "registered"
        /\ c' = HandleError(c, M_connect) /\ aborted' = aborted
    BY DEF SocketFails, ErrorEvent, clientVars, history
  <1>2. c.M_state = "kConnecting" /\ c \in ConnectorRecord /\ M_connect \in BOOLEAN
    BY <1>1 DEF IInv, Sound, CallsInv
  <1>3. AttemptFails(c, M_connect, c')
    BY <1>1, <1>2, FailsFacts DEF HandleError
  <1>4. ResetInv' /\ EndInv'
    BY <1>1, <1>3, GoesOn DEF ResetInv, AttemptFails, Running
  <1>. QED  BY <1>1, <1>2, <1>4, AttemptFate

LEMMA WritableFate ==
    ASSUME IInv, FateInv, Running, Writable
    PROVE  FateInv'
  <1>1. /\ WriteEvent /\ UNCHANGED <<client, slow, abandoned, keeper>>
    BY DEF Writable, clientVars
  <1>2. /\ phase = "events" /\ phase' = phase /\ batch' = batch
        /\ \/ c' = c
           \/ c.M_state = "kConnecting"
        /\ aborted' \in {"no", "handleWrite"}
    BY <1>1 DEF WriteEvent, HandleWrite, Running
  <1>3. ResetInv' /\ EndInv'
    BY <1>2, GoesOn DEF ResetInv
  <1>4. CASE c' = c
    BY <1>1, <1>3, <1>4, FrameFate
  <1>5. CASE c.M_state = "kConnecting"
    BY <1>1, <1>3, <1>5, AttemptFate
  <1>. QED  BY <1>2, <1>4, <1>5

(* A functor of the connector runs after it: LeftInv says who left it.     *)
LEMMA StrayFunctorFate ==
    ASSUME IInv, FateInv, StrayFunctor
    PROVE  FateInv'
  <1>1. /\ batch > 0 /\ Head(c.queue).f \in ConnectorFunctors /\ ~ConnectorAlive
        /\ aborted' = "freed" /\ c' = c /\ UNCHANGED <<client, slow, abandoned, keeper, phase>>
        /\ batch' = batch
    BY DEF StrayFunctor, clientVars, history
  <1>2. c.queue \in Seq(FunctorSet) /\ c.queue # <<>>
    <2>1. batch \in 0 .. Len(c.queue) /\ c.queue \in Seq(FunctorSet)
      BY QueueFacts DEF IInv, LoopInv
    <2>. QED  BY <1>1, <2>1
  <1>3. HasConnector(c.queue)
    BY <1>1, <1>2, TailFate
  <1>4. client = "gone" /\ keeper = "none"
    BY <1>1 DEF ConnectorAlive, ConnectorHeld, IInv, AliveInv
  <1>5. EndInv'
    BY <1>1, <1>3, <1>4 DEF EndInv, FateInv, LeftInv
  <1>. QED  BY <1>1, <1>5, FrameQueue

(* The keeper expires: a channel that is still there has a functor queued. *)
LEMMA KeeperExpiresFate ==
    ASSUME IInv, FateInv, KeeperExpires
    PROVE  FateInv'
  <1>1. /\ c' = c /\ UNCHANGED <<client, abandoned, phase>> /\ batch' = batch
        /\ slow' = (slow \/ ConnectorFunctorQueued) /\ keeper = "due" /\ aborted = "no"
        /\ aborted' = IF DestructorFails(c) THEN "~Connector" ELSE aborted
    BY DEF KeeperExpires, Polled, LoopIsFree, Running
  <1>2. ConnectorFunctorQueued <=> HasConnector(c.queue)
    BY QueueFacts, QueueWords DEF ConnectorFunctorQueued, HasConnector, IInv
  <1>3. ResetInv'
    BY <1>1, FrameReset
  <1>4. LeftInv'
    BY <1>1, <1>2 DEF FateInv, LeftInv
  <1>5. EndInv'
    <2>1. client = "gone"
      BY <1>1 DEF FateInv, LeftInv
    <2>2. CASE c.M_channel = "none"
      BY <1>1, <2>2, GoesOn DEF DestructorFails
    <2>3. CASE c.M_channel = "registered"
      <3>1. HasConnector(c.queue)
        BY <2>1, <2>3 DEF IInv, Sound, GoneInv, HasConnector, ConnectorFunctors
      <3>. QED  BY <1>1, <1>2, <3>1 DEF EndInv
    <2>4. CASE c.M_channel = "removed"
      <3>1. HasConnector(c.queue)
        BY <2>4 DEF IInv, Sound, HasConnector, ConnectorFunctors
      <3>. QED  BY <1>1, <1>2, <3>1 DEF EndInv
    <2>. QED  BY <2>2, <2>3, <2>4 DEF IInv, Sound, ConnectorRecord
  <1>. QED  BY <1>3, <1>4, <1>5 DEF FateInv

(* A functor of a connection runs.                                         *)
LEMMA DropFate ==
    ASSUME IInv, FateInv, NEW f \in ConnFunctors, RunsFunctor(f),
           c' = [c EXCEPT !.queue = Tail(@)],
           UNCHANGED <<phase, client, slow, abandoned, keeper>>, EndInv'
    PROVE  FateInv'
  <1>1. /\ c.queue # <<>> /\ Head(c.queue).f = f /\ c.queue \in Seq(FunctorSet)
        /\ c \in ConnectorRecord /\ batch \in Int /\ batch' = batch - 1
    BY RunsFacts
  <1>2. QueueOnly(c, c') /\ c'.queue = Tail(c.queue)
    BY <1>1, TailRecord
  <1>3. f # "resetChannel"
    BY DEF ConnFunctors
  <1>4. /\ HasConnector(c'.queue) => HasConnector(c.queue)
        /\ Early(c.queue, batch, "resetChannel") => Early(c'.queue, batch', "resetChannel")
    BY <1>1, <1>2, <1>3, TailFate
  <1>5. c'.M_state = c.M_state /\ c'.M_channel = c.M_channel
    BY <1>2 DEF QueueOnly
  <1>. QED  BY <1>4, <1>5, FrameQueue

LEMMA MadeBefore ==
    ASSUME NEW n \in 1 .. MaxConns + 1, NEW i \in 1 .. MaxConns, ~(i >= n)
    PROVE  i \in 1 .. n - 1
  BY TcpClientAssumption

(* ~TcpConnection() of a connection that is up: nothing refers to it any   *)
(* more, so that it is one of the exceptions of OrphanEndsDisconnected.    *)
LEMMA DropsEnd ==
    ASSUME OrphanEndsDisconnected', IInv', NEW i \in Conns, Running, DropsPointer(i),
           conn' = conn
    PROVE  EndInv'
  <1>1. CASE aborted' = aborted
    BY <1>1, GoesOn DEF Running
  <1>2. CASE Open(i) /\ ~Referenced(i)' /\ aborted' = "~TcpConnection"
    <2>1. Open(i)' /\ conn'[i].state # "none"
      BY <1>2 DEF Open
    <2>2. i \in 1 .. M_nextConnId' - 1
      <3>1. M_nextConnId' \in 1 .. MaxConns + 1 /\ ~(i >= M_nextConnId')
        BY <2>1 DEF IInv, ConnsInv
      <3>2. i \in 1 .. MaxConns
        BY DEF Conns
      <3>. QED  BY <3>1, <3>2, MadeBefore
    <2>3. i \in shared' \union letGo'
      BY <1>2, <2>1, <2>2 DEF OrphanEndsDisconnected
    <2>. QED  BY <1>2, <2>3 DEF EndInv
  <1>. QED  BY <1>1, <1>2 DEF DropsPointer

LEMMA ConnStepsFate ==
    ASSUME IInv, IInv', OrphanEndsDisconnected', FateInv, Running,
           \E i \in Conns : RunForceClose(i) \/ RunConnectDestroyed(i) \/ RunWriteComplete(i)
    PROVE  FateInv'
  <1>1. CASE \E i \in Conns : RunForceClose(i)
    <2>1. /\ RunsFunctor("forceCloseInLoop") /\ c' = [c EXCEPT !.queue = Tail(@)]
          /\ UNCHANGED <<phase, client, slow, abandoned, keeper>> /\ aborted' = aborted
      BY <1>1 DEF RunForceClose, clientVars, history
    <2>2. EndInv' /\ "forceCloseInLoop" \in ConnFunctors
      BY <2>1, GoesOn DEF Running, ConnFunctors
    <2>. QED  BY <2>1, <2>2, DropFate
  <1>2. CASE \E i \in Conns : RunConnectDestroyed(i)
    <2>1. /\ RunsFunctor("connectDestroyed") /\ c' = [c EXCEPT !.queue = Tail(@)]
          /\ UNCHANGED <<phase, client, slow, abandoned, keeper>> /\ aborted' = aborted
      BY <1>2 DEF RunConnectDestroyed, clientVars, history
    <2>2. EndInv' /\ "connectDestroyed" \in ConnFunctors
      BY <2>1, GoesOn DEF Running, ConnFunctors
    <2>. QED  BY <2>1, <2>2, DropFate
  <1>3. CASE \E i \in Conns : RunWriteComplete(i)
    <2>1. PICK i \in Conns : RunWriteComplete(i)
      BY <1>3
    <2>2. /\ RunsFunctor("writeComplete") /\ c' = [c EXCEPT !.queue = Tail(@)]
          /\ UNCHANGED <<phase, client, slow, abandoned, keeper>>
          /\ conn' = conn /\ DropsPointer(i)
      BY <2>1 DEF RunWriteComplete, connVars, clientVars, history
    <2>3. EndInv' /\ "writeComplete" \in ConnFunctors
      BY <2>2, DropsEnd DEF ConnFunctors
    <2>. QED  BY <2>2, <2>3, DropFate
  <1>. QED  BY <1>1, <1>2, <1>3

(* As long as the client is there, nothing is left behind.                 *)
LEMMA AliveFate ==
    ASSUME FateInv, client = "alive", client' = client, abandoned' = abandoned,
           keeper' = keeper, ResetInv', EndInv'
    PROVE  FateInv'
  BY DEF FateInv, LeftInv

LEMMA RemoveConnectionFate ==
    ASSUME IInv, FateInv, Running, RemoveConnection
    PROVE  FateInv'
  <1>1. client' = client /\ abandoned' = abandoned /\ keeper' = keeper /\ phase' = phase
        /\ batch' = batch
    BY DEF RemoveConnection
  <1>2. /\ client = "alive" /\ c'.M_state = "kConnected" /\ c'.M_channel = c.M_channel
        /\ aborted' = aborted
        /\ \A f, b : Early(c.queue, b, f) => Early(c'.queue, b, f)
        /\ closing # NoConn
    BY RemoveConnectionFacts DEF RemoveConnection
  <1>3. c.M_state = "kConnected"
    BY <1>2, ClosingFacts
  <1>4. ResetInv'
    BY <1>1, <1>2, <1>3 DEF FateInv, ResetInv
  <1>5. EndInv'
    BY <1>2, GoesOn DEF Running
  <1>. QED  BY <1>1, <1>2, <1>4, <1>5, AliveFate

LEMMA DetailRemoveConnectionFate ==
    ASSUME IInv, FateInv, Running, DetailRemoveConnection
    PROVE  FateInv'
  <1>1. /\ UNCHANGED <<client, slow, abandoned, keeper, phase>> /\ batch' = batch
        /\ aborted' = aborted /\ closing # NoConn /\ c' = HandedBack(c)
    BY DEF DetailRemoveConnection, clientVars, history
  <1>2. c'.queue = c.queue /\ c'.M_state = c.M_state /\ c'.M_channel = c.M_channel
    BY <1>1, ClosingFacts, BackRecord DEF IInv
  <1>3. EndInv'
    BY <1>1, GoesOn DEF Running
  <1>. QED  BY <1>1, <1>2, <1>3, FrameQueue

LEMMA RestartConnectorFate ==
    ASSUME IInv, FateInv, RestartConnector
    PROVE  FateInv'
  <1>. DEFINE d == [c EXCEPT !.M_state = "kDisconnected", !.M_retryDelayMs = kInitRetryDelayMs]
  <1>1. /\ restarting /\ DoStartInLoop(d, TRUE, TRUE) /\ client' = client
        /\ abandoned' = abandoned /\ keeper' = keeper
    BY DEF RestartConnector, Restart
  <1>2. Sound(d) /\ d.M_state = "kDisconnected"
    BY <1>1, RestartRecord
  <1>. HIDE DEF d
  <1>3. StartOutcome(d, TRUE, c', aborted')
    BY <1>1, <1>2, StartHeld DEF Sound
  <1>4. /\ aborted' \in {"no", "startInLoop", "connecting"}
        /\ c'.M_state = "kConnected" => c' = d
    BY <1>3, OutcomeFacts
  <1>5. ResetInv'
    BY <1>2, <1>4 DEF ResetInv
  <1>6. EndInv' /\ client = "alive"
    BY <1>1, <1>4, GoesOn DEF IInv, AliveInv
  <1>. QED  BY <1>1, <1>5, <1>6, AliveFate

LEMMA ConnectInLoopFate ==
    ASSUME IInv, FateInv, ConnectInLoop
    PROVE  FateInv'
  <1>1. /\ client = "alive" /\ DoStartInLoop(c, TRUE, TRUE) /\ UNCHANGED <<phase, batch>>
        /\ UNCHANGED Unaffected
    BY DEF ConnectInLoop, LoopStart
  <1>2. client' = client /\ abandoned' = abandoned /\ keeper' = keeper
    BY <1>1, UnaffectedFacts
  <1>3. StartOutcome(c, TRUE, c', aborted')
    BY <1>1, StartHeld DEF IInv, Sound
  <1>4. /\ aborted' \in {"no", "startInLoop", "connecting"}
        /\ c'.M_state = "kConnected" => c' = c
    BY <1>3, OutcomeFacts
  <1>5. ResetInv' /\ EndInv'
    BY <1>1, <1>4, GoesOn DEF FateInv, ResetInv
  <1>. QED  BY <1>1, <1>2, <1>5, AliveFate

(* A functor is queued.                                                    *)
LEMMA PushReset ==
    ASSUME IInv, FateInv, NEW x \in FunctorSet, x.f # "resetChannel", Push(x),
           UNCHANGED <<phase, batch>>
    PROVE  ResetInv'
  <1>1. QueueOnly(c, c') /\ \A f, b : Early(c.queue, b, f) => Early(c'.queue, b, f)
    BY PushFacts
  <1>2. c'.M_state = c.M_state /\ c'.M_channel = c.M_channel
    BY <1>1 DEF QueueOnly
  <1>. QED  BY <1>1, <1>2, FrameReset

LEMMA StopInLoopThreadFate ==
    ASSUME IInv, FateInv, Running, StopInLoopThread
    PROVE  FateInv'
  <1>1. /\ client = "alive" /\ Push(Functor("stopInLoop")) /\ UNCHANGED <<phase, batch>>
        /\ aborted' = aborted /\ UNCHANGED Unaffected
    BY DEF StopInLoopThread, LoopStop, Push
  <1>2. client' = client /\ abandoned' = abandoned /\ keeper' = keeper
    BY <1>1, UnaffectedFacts
  <1>3. ResetInv'
    BY <1>1, FunctorFacts, PushReset DEF ConnectorFunctors
  <1>4. EndInv'
    BY <1>1, GoesOn DEF Running
  <1>. QED  BY <1>1, <1>2, <1>3, <1>4, AliveFate

LEMMA SendCompletesFate ==
    ASSUME IInv, FateInv, Running, SendCompletes
    PROVE  FateInv'
  <1>1. PICK i \in Conns : M_connection = i /\ Push(OfConn("writeComplete", i))
    BY DEF SendCompletes
  <1>2. /\ UNCHANGED <<phase, batch>> /\ aborted' = aborted /\ client' = client
        /\ abandoned' = abandoned /\ keeper' = keeper
    BY DEF SendCompletes, clientVars, history
  <1>3. client = "alive"
    BY <1>1 DEF IInv, AliveInv, GoneInv, Conns, NoConn
  <1>4. ResetInv'
    BY <1>1, <1>2, FunctorFacts, PushReset DEF ConnFunctors
  <1>5. EndInv'
    BY <1>2, GoesOn DEF Running
  <1>. QED  BY <1>2, <1>3, <1>4, <1>5, AliveFate

LEMMA CallConnectorFate ==
    ASSUME IInv, FateInv, Running, NEW t \in Threads, CallConnector(t)
    PROVE  FateInv'
  <1>1. /\ client = "alive" /\ c' = c /\ UNCHANGED <<phase, batch>> /\ aborted' = aborted
        /\ UNCHANGED Unaffected
    BY CallConnectorFacts
  <1>2. client' = client /\ abandoned' = abandoned /\ keeper' = keeper
    BY <1>1, UnaffectedFacts
  <1>3. ResetInv' /\ EndInv'
    BY <1>1, GoesOn, FrameReset DEF Running
  <1>. QED  BY <1>1, <1>2, <1>3, AliveFate

LEMMA QueueElsewhereFate ==
    ASSUME IInv, FateInv, Running, NEW t \in Threads, QueueElsewhere(t)
    PROVE  FateInv'
  <1>1. /\ client = "alive" /\ Functor(pc[t]) \in FunctorSet
        /\ Functor(pc[t]).f \in {"startInLoop", "stopInLoop"} /\ Push(Functor(pc[t]))
        /\ UNCHANGED <<phase, batch>> /\ aborted' = aborted /\ UNCHANGED Unaffected
    BY QueueElsewhereFacts
  <1>2. client' = client /\ abandoned' = abandoned /\ keeper' = keeper
    BY <1>1, UnaffectedFacts
  <1>3. ResetInv'
    BY <1>1, PushReset
  <1>4. EndInv'
    BY <1>1, GoesOn DEF Running
  <1>. QED  BY <1>1, <1>2, <1>3, <1>4, AliveFate

(* ~TcpClient() without a connection: the keeper holds the connector.      *)
LEMMA DestructUnconnectedFate ==
    ASSUME IInv, FateInv, Running, DestructUnconnected
    PROVE  FateInv'
  <1>1. /\ client = "alive" /\ client' = "gone" /\ keeper' = "set"
        /\ Push(Functor("stopInLoop")) /\ UNCHANGED <<phase, batch>> /\ aborted' = aborted
        /\ abandoned' = abandoned
    BY DEF DestructUnconnected, MayDestruct, history
  <1>2. ResetInv'
    BY <1>1, FunctorFacts, PushReset DEF ConnectorFunctors
  <1>3. EndInv'
    BY <1>1, GoesOn DEF Running
  <1>4. LeftInv'
    BY <1>1 DEF FateInv, LeftInv
  <1>. QED  BY <1>2, <1>3, <1>4 DEF FateInv

(* ~TcpClient() with a connection: the connector is gone, and what it has  *)
(* queued is left behind.                                                  *)
LEMMA DestructConnectedFate ==
    ASSUME IInv, FateInv, NEW i \in Conns, DestructConnected(i)
    PROVE  FateInv'
  <1>1. /\ client = "alive" /\ client' = "gone" /\ Sound(c') /\ QueueOnly(c, c')
        /\ batch \in 0 .. Len(c'.queue) /\ c.M_state = "kConnected" /\ aborted = "no"
        /\ \A f : f # "forceCloseInLoop" => (Has(c'.queue, f) <=> Has(c.queue, f))
        /\ \A f, b : Early(c.queue, b, f) => Early(c'.queue, b, f)
    BY DestructConnectedFacts
  <1>2. /\ UNCHANGED <<phase, batch, keeper, slow>>
        /\ aborted' = IF DestructorFails(c) THEN "~Connector" ELSE aborted
        /\ abandoned' = (abandoned \/ ConnectorFunctorQueued)
    BY DEF DestructConnected, DropsConnector
  <1>3. c'.M_state = c.M_state /\ c'.M_channel = c.M_channel
    BY <1>1 DEF QueueOnly
  <1>4. ConnectorFunctorQueued <=> HasConnector(c.queue)
    BY QueueFacts, QueueWords DEF ConnectorFunctorQueued, HasConnector, IInv
  <1>5. HasConnector(c'.queue) => HasConnector(c.queue)
    BY <1>1 DEF HasConnector, ConnectorFunctors
  <1>6. LeftInv'
    BY <1>1, <1>2, <1>3, <1>4, <1>5 DEF FateInv, LeftInv
  <1>7. ResetInv'
    BY <1>1, <1>2, <1>3, FrameReset
  <1>8. EndInv'
    <2>1. CASE ~DestructorFails(c)
      BY <1>1, <1>2, <2>1, GoesOn
    <2>2. CASE DestructorFails(c)
      <3>1. c.M_channel = "removed" /\ Has(c.queue, "resetChannel")
        BY <1>1, <2>2 DEF DestructorFails, IInv, Sound, ConnectorRecord
      <3>2. abandoned'
        BY <1>2, <1>4, <3>1 DEF HasConnector, ConnectorFunctors
      <3>3. phase' = "events" \/ Early(c'.queue, batch', "resetChannel")
        BY <1>1, <1>3, <1>7, <3>1 DEF ResetInv
      <3>4. ResetChannelDue'
        <4>1. batch' \in Nat /\ Len(c'.queue) \in Nat
          BY <1>1, <1>2 DEF Sound, ConnectorRecord
        <4>. QED  BY <3>3, <4>1 DEF Early, ResetChannelDue
      <3>. QED  BY <1>2, <2>2, <3>2, <3>4 DEF EndInv
    <2>. QED  BY <2>1, <2>2
  <1>. QED  BY <1>6, <1>7, <1>8 DEF FateInv

(* Steps that leave the connector alone.                                   *)
LEMMA OtherStepsFate ==
    ASSUME IInv, FateInv, Running,
           \/ Disconnect \/ Hold \/ \E i \in Conns : HandleClose(i)
           \/ \E t \in Threads, call \in {"connect", "stop"} : BeginCall(t, call)
    PROVE  FateInv'
  <1>1. UNCHANGED <<c, client, slow, abandoned, phase, batch, aborted, keeper>>
    BY DEF Disconnect, Hold, HandleClose, BeginCall, Unaffected, connectorVars, clientVars,
           history
  <1>2. EndInv'
    BY <1>1, GoesOn DEF Running
  <1>. QED  BY <1>1, <1>2, FrameQueue

LEMMA ReleaseFate ==
    ASSUME IInv, IInv', OrphanEndsDisconnected', FateInv, Running, NEW i \in Conns, Release(i)
    PROVE  FateInv'
  <1>1. /\ UNCHANGED <<c, client, slow, abandoned, phase, batch, keeper>>
        /\ conn' = conn /\ DropsPointer(i)
    BY DEF Release, clientVars
  <1>2. EndInv'
    BY <1>1, DropsEnd
  <1>. QED  BY <1>1, <1>2, FrameQueue

LEMMA StutterFate ==
    ASSUME FateInv, UNCHANGED vars
    PROVE  FateInv'
  BY DEF FateInv, LeftInv, ResetInv, EndInv, ResetChannelDue, vars, connectorVars, clientVars,
         history

LEMMA ConnectorRunsFate ==
    ASSUME IInv, FateInv, ConnectorRuns
    PROVE  FateInv'
  BY ConnectorRunsFacts, DoPendingFunctorsFate, RetryTimerFate, RunStartInLoopFate,
     RunStopInLoopFate, ResetChannelFate

LEMMA NextFate ==
    ASSUME IInv, IInv', OrphanEndsDisconnected', FateInv, [Next]_vars
    PROVE  FateInv'
  <1>1. CASE UNCHANGED vars
    BY <1>1, StutterFate
  <1>2. CASE Next
    <2>0. Running
      BY <1>2 DEF Next
    <2>1. CASE ClientLoopStep
      BY <2>0, <2>1, PollFate, ConnectorRunsFate, WritableFate, ConnStepsFate,
         RemoveConnectionFate, DetailRemoveConnectionFate, RestartConnectorFate,
         StrayFunctorFate, KeeperExpiresFate DEF ClientLoopStep
    <2>2. CASE UserStep
      BY <2>0, <2>2, ConnectInLoopFate, StopInLoopThreadFate, SendCompletesFate,
         OtherStepsFate, ReleaseFate, DestructUnconnectedFate, DestructConnectedFate
      DEF UserStep
    <2>3. CASE SocketFails \/ \E i \in Conns : HandleClose(i)
      BY <2>0, <2>3, SocketFailsFate, OtherStepsFate
    <2>4. CASE \E t \in Threads :
                  \/ \E call \in {"connect", "stop"} : BeginCall(t, call)
                  \/ CallConnector(t) \/ QueueElsewhere(t)
      BY <2>0, <2>4, CallConnectorFate, QueueElsewhereFate, OtherStepsFate
    <2>. QED  BY <1>2, <2>1, <2>2, <2>3, <2>4 DEF Next
  <1>. QED  BY <1>1, <1>2

LEMMA InitFate ==
    ASSUME Init
    PROVE  FateInv
  <1>1. /\ client = "alive" /\ keeper = "none" /\ abandoned = FALSE /\ aborted = "no"
        /\ c.M_state = "kDisconnected"
    BY DEF Init, ConnectorInit
  <1>. QED  BY <1>1 DEF FateInv, LeftInv, ResetInv, EndInv

(* What ~TcpClient() leaves behind, and how the program can end by it.     *)
THEOREM FateInvariance == Spec => []FateInv
  <1>1. Init => FateInv
    BY InitFate
  <1>2. /\ IInv /\ IInv' /\ OrphanEndsDisconnected' /\ FateInv /\ [Next]_vars
        => FateInv'
    BY NextFate
  <1>. QED  BY <1>1, <1>2, Invariance, OrphanEnds, PTL DEF Spec

LEMMA FateDeadConnector ==
    ASSUME IInv, FateInv
    PROVE  DeadConnectorUnregistered
  <1>. SUFFICES ASSUME ~ConnectorAlive, c.M_channel = "registered"
                PROVE  slow
    BY DEF DeadConnectorUnregistered
  <1>1. client = "gone" /\ keeper = "none"
    BY DEF ConnectorAlive, ConnectorHeld, IInv, AliveInv
  <1>2. c.M_state = "kConnecting"
    BY DEF IInv, Sound
  <1>3. HasConnector(c.queue)
    BY <1>1, <1>2 DEF IInv, GoneInv, HasConnector, ConnectorFunctors
  <1>. QED  BY <1>1, <1>2, <1>3 DEF FateInv, LeftInv

(* ~Connector(): the poller has no channel of a connector that is gone,    *)
(* unless the second of the keeper was too short for the functors of       *)
(* stop().                                                                 *)
THEOREM DeadConnector == Spec => []DeadConnectorUnregistered
  BY Invariance, FateInvariance, FateDeadConnector, PTL

LEMMA AssertionsHold ==
    ASSUME IInv, overlapped \/ SerialInv, FateInv
    PROVE  ClientAssertionsHold
  <1>1. aborted \notin {"handleWrite", "removeConnection"}
    BY DEF IInv, AbortInv
  <1>2. /\ aborted = "startInLoop" => overlapped
        /\ aborted = "connecting" => overlapped \/ raced
    BY DEF SerialInv, StartsInv
  <1>. QED  BY <1>1, <1>2 DEF FateInv, EndInv, ClientAssertionsHold

(* The assertions of Connector, TcpClient and ~TcpConnection() hold, and   *)
(* no functor meets a connector that is gone, but in the cases that        *)
(* ClientAssertionsHold names, through any number of calls of connect()    *)
(* and stop() and however users treat their pointers.                      *)
THEOREM ClientAssertions == Spec => []ClientAssertionsHold
  BY Invariance, SerialInvariance, FateInvariance, AssertionsHold, PTL

=============================================================================
