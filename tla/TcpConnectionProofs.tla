------------------------ MODULE TcpConnectionProofs ------------------------
(***************************************************************************)
(* Proofs about TcpConnection, for any number of threads, any calls of the *)
(* users and any sizes, and about Buffer, in which a connection keeps its  *)
(* bytes.                                                                  *)
(*                                                                         *)
(* The properties of a connection depend on one another through its state: *)
(* which functors may be queued, whether the owner was told, what the      *)
(* channel asks for.  Most of it holds only until a call of another thread *)
(* is overtaken by the close, since SetState then leaves kDisconnected     *)
(* again.  That accepted never exceeds asked is left to TLC: it needs the  *)
(* sum of the lengths of all sends under way.                              *)
(***************************************************************************)
EXTENDS TcpConnection, Buffer, SequenceTheorems, TLAPS

Functors == [f : FunctorNames, len : 0 .. MaxBytes]
Calls    == [step : {"run", "set", "queue"}, call : AllCalls, len : 0 .. MaxBytes]

Types ==
    /\ M_state \in {"kConnecting", "kConnected", "kDisconnecting", "kDisconnected"}
    /\ interest \subseteq {"read", "write"}
    /\ registered \in BOOLEAN
    /\ M_outputBuffer \in Seq(Nat)
    /\ wire \in Seq(Nat)
    /\ halfClosed \in BOOLEAN
    /\ queue \in Seq(Functors)
    /\ todo \subseteq {"close", "read", "write"}
    /\ callback \in {"none", "up", "message", "down", "functor"}
    /\ pc \in [Threads -> Calls]
    /\ overtaken \in BOOLEAN
    /\ removing \in Nat
    /\ closes \in Nat
    /\ asked \in 0 .. MaxBytes
    /\ accepted \in Nat
    /\ removed \in BOOLEAN
    /\ destroyed \in BOOLEAN
    /\ aborted \in BOOLEAN

Has(q, f) == \E i \in 1 .. Len(q) : q[i].f = f
Queued(f) == Has(queue, f)

(* Before connectEstablished() nothing has happened, and it comes once.    *)
Fresh ==
    /\ queue = <<Functor("connectEstablished")>>
    /\ interest = {} /\ ~registered /\ todo = {} /\ callback = "none"
    /\ M_outputBuffer = <<>>
    /\ \A t \in Threads : pc[t].step = "run"
    /\ ~timer /\ removing = 0 /\ ~overtaken /\ ~aborted

EstablishedOnce ==
    /\ M_state = "kConnecting" => Fresh
    /\ M_state # "kConnecting" => ~Queued("connectEstablished")

(* The first handler of a report finds the channel as poll() did.          *)
ReportIsFresh ==
    todo \intersect {"close", "read"} # {} =>
        /\ callback = "none"
        /\ registered
        /\ "read" \in todo <=> "read" \in interest
        /\ "close" \in todo <=> "read" \notin todo

(* shutdown() assigns kDisconnecting before it queues its functor.         *)
ShutdownIsAnnounced ==
    (Queued("shutdown") \/ \E t \in Threads : pc[t].step = "queue" /\ pc[t].call = "shutdown")
        => M_state \in {"kDisconnecting", "kDisconnected"}

(* The owner hears of the close once, from the handleClose() that left the *)
(* channel without interest.                                               *)
OwnerToldOnce ==
    /\ M_state # "kDisconnected" =>
          closes = 0 /\ ~destroyed /\ callback # "down"
    /\ closes = 0 => removing = 0 /\ ~removed
    /\ closes # 0 => closes = 1 /\ callback # "down"
    /\ removed => removing = 0
    /\ removing <= 1
    /\ Queued("connectDestroyed") => removed

QuietWhenDown ==
    /\ M_state = "kDisconnected" => interest = {}
    /\ aborted => M_state = "kDisconnected" /\ registered
    /\ destroyed => ~registered /\ todo = {}

(* The bytes of s are in order and numbered up to k.                       *)
Ordered(s, k) ==
    /\ \A i \in 1 .. Len(s) : s[i] <= k
    /\ \A i, j \in 1 .. Len(s) : i < j => s[i] < s[j]

IInv ==
    /\ Types
    /\ EstablishedOnce
    /\ ReportIsFresh
    /\ ShutdownIsAnnounced
    /\ ~overtaken => OwnerToldOnce /\ QuietWhenDown
    /\ WritingIffPending
    /\ Ordered(wire \o M_outputBuffer, accepted)
-----------------------------------------------------------------------------
USE TcpConnectionAssumption

(* Concatenations of bytes.                                                *)
LEMMA BytesConcat ==
    ASSUME NEW s \in Seq(Nat), NEW t \in Seq(Nat)
    PROVE  /\ s \o t \in Seq(Nat) /\ Len(s \o t) = Len(s) + Len(t)
           /\ \A i \in 1 .. Len(s) + Len(t) :
                 (s \o t)[i] = IF i <= Len(s) THEN s[i] ELSE t[i - Len(s)]
BY ConcatProperties

LEMMA BytesAssociate ==
    ASSUME NEW s \in Seq(Nat), NEW t \in Seq(Nat), NEW u \in Seq(Nat)
    PROVE  (s \o t) \o u = s \o (t \o u)
BY ConcatAssociative, SMTT(30)

LEMMA HasAppend ==
    ASSUME NEW q \in Seq(Functors), NEW x \in Functors
    PROVE  /\ Append(q, x) \in Seq(Functors)
           /\ \A f : Has(Append(q, x), f) <=> Has(q, f) \/ x.f = f
<1>1. /\ Append(q, x) \in Seq(Functors) /\ Len(Append(q, x)) = Len(q) + 1 /\ Len(q) \in Nat
      /\ \A i \in 1 .. Len(q) : Append(q, x)[i] = q[i]
      /\ Append(q, x)[Len(q) + 1] = x
    BY AppendProperties, LenProperties
<1>2. \A i \in 1 .. Len(q) : i \in 1 .. Len(Append(q, x))
    BY <1>1
<1>3. Len(q) + 1 \in 1 .. Len(Append(q, x))
    BY <1>1
<1>4. \A i \in 1 .. Len(Append(q, x)) : i \in 1 .. Len(q) \/ i = Len(q) + 1
    BY <1>1
<1>. QED  BY <1>1, <1>2, <1>3, <1>4, Zenon DEF Has

LEMMA HasTail ==
    ASSUME NEW q \in Seq(Functors), q # <<>>
    PROVE  /\ Tail(q) \in Seq(Functors)
           /\ Head(q) \in Functors /\ Has(q, Head(q).f)
           /\ \A f : Has(Tail(q), f) => Has(q, f)
<1>1. /\ Tail(q) \in Seq(Functors) /\ Head(q) \in Functors
      /\ 1 \in 1 .. Len(q) /\ Head(q) = q[1]
      /\ \A i \in 1 .. Len(Tail(q)) : i + 1 \in 1 .. Len(q) /\ Tail(q)[i] = q[i + 1]
    BY HeadTailProperties
<1>. QED  BY <1>1, Zenon DEF Has

LEMMA HasConcat ==
    ASSUME NEW q \in Seq(Functors), NEW r \in Seq(Functors)
    PROVE  /\ q \o r \in Seq(Functors)
           /\ \A f : Has(q \o r, f) => Has(q, f) \/ Has(r, f)
<1>1. /\ q \o r \in Seq(Functors) /\ Len(q \o r) = Len(q) + Len(r)
      /\ Len(q) \in Nat /\ Len(r) \in Nat
      /\ \A i \in 1 .. Len(q) + Len(r) :
            (q \o r)[i] = IF i <= Len(q) THEN q[i] ELSE r[i - Len(q)]
    BY ConcatProperties, LenProperties
<1>2. \A i \in 1 .. Len(q \o r) : \/ i \in 1 .. Len(q) /\ (q \o r)[i] = q[i]
                                  \/ /\ i - Len(q) \in 1 .. Len(r)
                                     /\ (q \o r)[i] = r[i - Len(q)]
    BY <1>1
<1>. QED  BY <1>1, <1>2, Zenon DEF Has

(* The functors that sendInLoop() may queue.                               *)
LEMMA HasFunctor ==
    ASSUME NEW f \in FunctorNames
    PROVE  /\ Functor(f) \in Functors /\ Functor(f).f = f
           /\ <<Functor(f)>> \in Seq(Functors)
           /\ \A g : Has(<<Functor(f)>>, g) <=> g = f
<1>1. Functor(f) \in Functors /\ Functor(f).f = f
    BY DEF Functor, Functors
<1>2. <<Functor(f)>> \in Seq(Functors) /\ Len(<<Functor(f)>>) = 1 /\ <<Functor(f)>>[1] = Functor(f)
    BY <1>1
<1>. QED  BY <1>1, <1>2 DEF Has

LEMMA HasNothing ==
    /\ <<>> \in Seq(Functors)
    /\ \A f : ~Has(<<>>, f)
<1>1. <<>> \in Seq(Functors) /\ Len(<<>>) = 0
    BY EmptySeq
<1>. QED  BY <1>1 DEF Has

-----------------------------------------------------------------------------
(* Later bytes after earlier ones.                                         *)
LEMMA OrderedConcat ==
    ASSUME NEW s \in Seq(Nat), NEW t \in Seq(Nat), NEW m \in Nat, NEW k \in Nat, m <= k,
           Ordered(s, m), Ordered(t, k), \A i \in 1 .. Len(t) : m < t[i]
    PROVE  s \o t \in Seq(Nat) /\ Ordered(s \o t, k)
<1> DEFINE u == s \o t
<1>1. /\ u \in Seq(Nat) /\ Len(u) = Len(s) + Len(t) /\ Len(s) \in Nat /\ Len(t) \in Nat
      /\ \A i \in 1 .. Len(s) + Len(t) :
            u[i] = IF i <= Len(s) THEN s[i] ELSE t[i - Len(s)]
    BY ConcatProperties, LenProperties
<1>2. /\ \A i \in 1 .. Len(s) : s[i] \in Nat /\ s[i] <= m
      /\ \A i \in 1 .. Len(t) : t[i] \in Nat /\ t[i] <= k /\ m < t[i]
      /\ \A i, j \in 1 .. Len(s) : i < j => s[i] < s[j]
      /\ \A i, j \in 1 .. Len(t) : i < j => t[i] < t[j]
    BY DEF Ordered
<1> HIDE DEF u
<1>3. \A i \in 1 .. Len(u) :
         /\ i <= Len(s) => i \in 1 .. Len(s) /\ u[i] = s[i]
         /\ i > Len(s) => i - Len(s) \in 1 .. Len(t) /\ u[i] = t[i - Len(s)]
    BY <1>1
<1>4. \A i \in 1 .. Len(u) : u[i] <= k
    <2>1. TAKE i \in 1 .. Len(u)
    <2>2. CASE i <= Len(s)
        <3>1. u[i] \in Nat /\ u[i] <= m
            BY <1>2, <1>3, <2>2
        <3>. QED  BY <3>1
    <2>3. CASE i > Len(s)
        BY <1>2, <1>3, <2>3
    <2>. QED  BY <1>1, <2>2, <2>3
<1>5. ASSUME NEW i \in 1 .. Len(u), NEW j \in 1 .. Len(u), i < j PROVE u[i] < u[j]
    <2>1. CASE j <= Len(s)
        <3>1. i <= Len(s)
            BY <1>1, <1>5, <2>1
        <3>2. i \in 1 .. Len(s) /\ u[i] = s[i] /\ j \in 1 .. Len(s) /\ u[j] = s[j]
            BY <1>3, <2>1, <3>1
        <3>. QED  BY <1>2, <1>5, <3>2
    <2>2. CASE j > Len(s) /\ i <= Len(s)
        <3>1. i \in 1 .. Len(s) /\ u[i] = s[i]
              /\ j - Len(s) \in 1 .. Len(t) /\ u[j] = t[j - Len(s)]
            BY <1>3, <2>2
        <3>2. u[i] <= m /\ m < u[j] /\ u[i] \in Nat /\ u[j] \in Nat
            BY <1>2, <3>1
        <3>. QED  BY <3>2
    <2>3. CASE i > Len(s)
        <3>1. j > Len(s) /\ i - Len(s) < j - Len(s)
            BY <1>1, <1>5, <2>3
        <3>2. /\ i - Len(s) \in 1 .. Len(t) /\ u[i] = t[i - Len(s)]
              /\ j - Len(s) \in 1 .. Len(t) /\ u[j] = t[j - Len(s)]
            BY <1>3, <2>3, <3>1
        <3>. QED  BY <1>2, <3>1, <3>2
    <2>. QED  BY <1>1, <2>1, <2>2, <2>3
<1>6. u \in Seq(Nat) /\ Ordered(u, k)
    BY <1>1, <1>4, <1>5 DEF Ordered
<1>. QED  BY <1>6 DEF u

LEMMA OrderedPrefix ==
    ASSUME NEW s \in Seq(Nat), NEW k \in Nat, NEW m \in Nat, m <= k, Ordered(s, m)
    PROVE  Ordered(s, k)
<1>1. \A i \in 1 .. Len(s) : s[i] \in Nat /\ s[i] <= m
    BY DEF Ordered
<1>. QED  BY <1>1 DEF Ordered
(* The bytes of one send() with the numbers m + 1 to n, as a sequence.     *)
LEMMA OrderedRange ==
    ASSUME NEW base \in Nat, NEW len \in Nat, NEW m \in 0 .. len, NEW n \in m .. len
    PROVE  LET part == SubSeq([i \in 1 .. len |-> base + i], m + 1, n) IN
           /\ part \in Seq(Nat) /\ Len(part) = n - m
           /\ Ordered(part, base + n)
           /\ \A i \in 1 .. Len(part) : base + m < part[i]
<1> DEFINE data == [i \in 1 .. len |-> base + i]
           part == SubSeq(data, m + 1, n)
<1>1. \A i \in m + 1 .. n : data[i] = base + i /\ data[i] \in Nat
    OBVIOUS
<1> HIDE DEF data
<1>2. /\ part \in Seq(Nat)
      /\ Len(part) = (IF m + 1 <= n THEN n - (m + 1) + 1 ELSE 0)
      /\ \A i \in 1 .. n - (m + 1) + 1 : part[i] = data[m + 1 + i - 1]
    BY <1>1, SubSeqProperties
<1> HIDE DEF part
<1>3. Len(part) = n - m
    BY <1>2
<1>4. \A i \in 1 .. Len(part) : part[i] = base + m + i
    <2>1. TAKE i \in 1 .. Len(part)
    <2>2. i \in 1 .. n - (m + 1) + 1 /\ m + 1 + i - 1 \in m + 1 .. n /\ m + 1 + i - 1 = m + i
        BY <1>3
    <2>3. part[i] = data[m + i] /\ m + i \in m + 1 .. n
        BY <1>2, <2>2
    <2>. QED  BY <1>1, <2>3
<1>5. Ordered(part, base + n) /\ \A i \in 1 .. Len(part) : base + m < part[i]
    BY <1>3, <1>4 DEF Ordered
<1>. QED  BY <1>2, <1>3, <1>5 DEF part, data

(* sendInLoop(): what goes to write(2) comes before what is kept, and      *)
(* nothing goes to write(2) while something is kept.                       *)
LEMMA SendKeepsOrder ==
    ASSUME IInv, NEW len \in 0 .. MaxBytes, NEW q, SendInLoop(len, q)
    PROVE  /\ wire' \in Seq(Nat) /\ M_outputBuffer' \in Seq(Nat) /\ accepted' \in Nat
           /\ Ordered(wire' \o M_outputBuffer', accepted')
<1>0. /\ wire \in Seq(Nat) /\ M_outputBuffer \in Seq(Nat) /\ accepted \in Nat
      /\ Ordered(wire \o M_outputBuffer, accepted)
      /\ len \in Nat
    BY DEF IInv, Types
<1>1. CASE GivesUp
    BY <1>0, <1>1 DEF SendInLoop, outVars
<1>2. CASE ~GivesUp
    <2> DEFINE data == [i \in 1 .. len |-> accepted + i]
    <2>1. PICK n \in 0 .. len :
             /\ ~TriesDirectly => n = 0
             /\ wire' = wire \o SubSeq(data, 1, n)
             /\ \/ M_outputBuffer' = M_outputBuffer \o SubSeq(data, n + 1, len)
                \/ M_outputBuffer' = M_outputBuffer
             /\ accepted' = accepted + len
        BY <1>2 DEF SendInLoop
    <2> DEFINE D1 == SubSeq(data, 1, n)
               D2 == SubSeq(data, n + 1, len)
    <2>2. /\ D1 \in Seq(Nat) /\ Ordered(D1, accepted + n)
          /\ \A i \in 1 .. Len(D1) : accepted < D1[i]
          /\ Len(D1) = n
        <3>1. 0 \in 0 .. len /\ n \in 0 .. len
            BY <1>0
        <3>2. LET part == SubSeq(data, 0 + 1, n) IN
              /\ part \in Seq(Nat) /\ Len(part) = n - 0
              /\ Ordered(part, accepted + n)
              /\ \A i \in 1 .. Len(part) : accepted + 0 < part[i]
            BY <1>0, <3>1, OrderedRange
        <3>3. 0 + 1 = 1 /\ n - 0 = n /\ accepted + 0 = accepted
            BY <1>0
        <3> HIDE DEF data
        <3>. QED  BY <3>2, <3>3
    <2>3. /\ D2 \in Seq(Nat) /\ Ordered(D2, accepted + len)
          /\ \A i \in 1 .. Len(D2) : accepted + n < D2[i]
        <3>1. n \in 0 .. len /\ len \in n .. len
            BY <1>0
        <3>. QED  BY <1>0, <3>1, OrderedRange
    <2>4. /\ wire' = wire \o D1
          /\ M_outputBuffer' = M_outputBuffer \o D2 \/ M_outputBuffer' = M_outputBuffer
        BY <2>1
    <2> HIDE DEF D1, D2
    <2>5. /\ accepted + n \in Nat /\ accepted + len \in Nat
          /\ accepted <= accepted + n /\ accepted + n <= accepted + len
          /\ accepted <= accepted + len
        BY <1>0
    <2>6. CASE TriesDirectly
        <3>1. M_outputBuffer = <<>> /\ wire \o M_outputBuffer = wire
            BY <1>0, <2>6, ConcatEmptySeq DEF TriesDirectly
        <3>2. wire' \in Seq(Nat) /\ Ordered(wire', accepted + n)
            BY <1>0, <2>2, <2>4, <2>5, <3>1, OrderedConcat
        <3>3. <<>> \o D2 = D2 /\ wire' \o <<>> = wire' /\ <<>> \in Seq(Nat)
            BY <2>3, <3>2, ConcatEmptySeq
        <3>4. M_outputBuffer' = D2 \/ M_outputBuffer' = <<>>
            BY <2>4, <3>1, <3>3
        <3>5. Ordered(wire' \o D2, accepted + len)
            BY <2>3, <2>5, <3>2, OrderedConcat
        <3>6. Ordered(wire', accepted + len)
            BY <2>5, <3>2, OrderedPrefix
        <3>. QED  BY <2>1, <2>3, <2>5, <3>2, <3>3, <3>4, <3>5, <3>6
    <2>7. CASE ~TriesDirectly
        <3>1. n = 0 /\ D1 = <<>> /\ wire' = wire
            BY <1>0, <2>1, <2>2, <2>4, <2>7, EmptySeq, ConcatEmptySeq
        <3>2. wire \o M_outputBuffer \in Seq(Nat)
            BY <1>0, ConcatProperties
        <3>3. Ordered(wire \o M_outputBuffer, accepted + len)
            BY <1>0, <2>5, <3>2, OrderedPrefix
        <3>4. accepted + n = accepted
            BY <1>0, <3>1
        <3>5. Ordered((wire \o M_outputBuffer) \o D2, accepted + len)
            BY <1>0, <2>3, <2>5, <3>2, <3>4, OrderedConcat
        <3>6. (wire \o M_outputBuffer) \o D2 = wire \o (M_outputBuffer \o D2)
            <4>1. wire \in Seq(Nat) /\ M_outputBuffer \in Seq(Nat) /\ D2 \in Seq(Nat)
                BY <1>0, <2>3
            <4>. QED  BY <4>1, BytesAssociate
        <3>7. M_outputBuffer \o D2 \in Seq(Nat)
            BY <1>0, <2>3, ConcatProperties
        <3>. QED  BY <1>0, <2>1, <2>4, <2>5, <3>1, <3>3, <3>5, <3>6, <3>7
    <2>. QED  BY <2>6, <2>7
<1>. QED  BY <1>1, <1>2
(* What else sendInLoop() changes.                                         *)
LEMMA SendKeepsQueue ==
    ASSUME NEW len, NEW q \in Seq(Functors), SendInLoop(len, q)
    PROVE  /\ queue' \in Seq(Functors)
           /\ \A f : Has(queue', f) => Has(q, f) \/ f \in {"writeComplete", "highWaterMark"}
<1>1. CASE GivesUp
    BY <1>1 DEF SendInLoop
<1>2. CASE ~GivesUp
    <2>1. PICK c \in BOOLEAN, d \in BOOLEAN :
             queue' = q \o (IF c THEN <<Functor("writeComplete")>> ELSE <<>>)
                        \o (IF d THEN <<Functor("highWaterMark")>> ELSE <<>>)
        BY <1>2 DEF SendInLoop
    <2> DEFINE A == IF c THEN <<Functor("writeComplete")>> ELSE <<>>
               B == IF d THEN <<Functor("highWaterMark")>> ELSE <<>>
    <2>2. A \in Seq(Functors) /\ \A f : Has(A, f) => f = "writeComplete"
        BY HasFunctor, HasNothing DEF FunctorNames
    <2>3. B \in Seq(Functors) /\ \A f : Has(B, f) => f = "highWaterMark"
        BY HasFunctor, HasNothing DEF FunctorNames
    <2>4. queue' = (q \o A) \o B
        BY <2>1
    <2> HIDE DEF A, B
    <2>5. q \o A \in Seq(Functors) /\ \A f : Has(q \o A, f) => Has(q, f) \/ Has(A, f)
        BY <2>2, HasConcat
    <2>6. /\ (q \o A) \o B \in Seq(Functors)
          /\ \A f : Has((q \o A) \o B, f) => Has(q \o A, f) \/ Has(B, f)
        BY <2>3, <2>5, HasConcat
    <2>. QED  BY <2>2, <2>3, <2>4, <2>5, <2>6
<1>. QED  BY <1>1, <1>2

LEMMA SendKeepsChannel ==
    ASSUME IInv, NEW len \in 0 .. MaxBytes, NEW q, SendInLoop(len, q)
    PROVE  /\ GivesUp => UNCHANGED <<interest, registered, M_outputBuffer>>
           /\ \/ UNCHANGED <<interest, registered>>
              \/ interest' = interest \union {"write"} /\ registered' = TRUE
           /\ ("write" \in interest <=> M_outputBuffer # <<>>) =>
                 ("write" \in interest' <=> M_outputBuffer' # <<>>)
           /\ halfClosed' = halfClosed
<1>1. CASE GivesUp
    BY <1>1 DEF SendInLoop, outVars, chanVars
<1>2. CASE ~GivesUp
    <2>0. accepted \in Nat /\ len \in Nat /\ M_outputBuffer \in Seq(Nat)
        BY DEF IInv, Types
    <2> DEFINE data == [i \in 1 .. len |-> accepted + i]
    <2>1. PICK n \in 0 .. len, keep \in BOOLEAN :
             /\ keep => len - n > 0
             /\ IF keep
                THEN /\ M_outputBuffer' = M_outputBuffer \o SubSeq(data, n + 1, len)
                     /\ IF "write" \in interest THEN UNCHANGED chanVars
                                                 ELSE Update(interest \union {"write"})
                ELSE UNCHANGED <<M_outputBuffer, chanVars>>
        <3>1. PICK n \in 0 .. len, faultError \in BOOLEAN :
                 IF ~faultError /\ len - n > 0
                 THEN /\ M_outputBuffer' = M_outputBuffer \o SubSeq(data, n + 1, len)
                      /\ IF "write" \in interest THEN UNCHANGED chanVars
                                                  ELSE Update(interest \union {"write"})
                 ELSE UNCHANGED <<M_outputBuffer, chanVars>>
            BY <1>2 DEF SendInLoop
        <3>2. (~faultError /\ len - n > 0) \in BOOLEAN
            OBVIOUS
        <3> HIDE DEF data
        <3>. QED  BY <3>1, <3>2
    <2>2. halfClosed' = halfClosed
        BY <1>2 DEF SendInLoop
    <2>3. CASE keep
        <3> DEFINE part == SubSeq(data, n + 1, len)
        <3>1. n \in 0 .. len /\ len \in n .. len
            BY <2>0
        <3>2. part \in Seq(Nat) /\ Len(part) = len - n
            BY <2>0, <3>1, OrderedRange
        <3>3. M_outputBuffer' = M_outputBuffer \o part
            BY <2>1, <2>3
        <3> HIDE DEF part
        <3>4. part # <<>>
            <4>1. Len(<<>>) = 0
                BY EmptySeq
            <4>. QED  BY <2>0, <2>1, <2>3, <3>2, <4>1
        <3>5. M_outputBuffer' # <<>>
            BY <2>0, <3>2, <3>3, <3>4, ConcatEqualIffEmpty
        <3>6. \/ UNCHANGED <<interest, registered>> /\ "write" \in interest
              \/ interest' = interest \union {"write"} /\ registered' = TRUE
            BY <2>1, <2>3 DEF Update, chanVars
        <3>. QED  BY <1>2, <2>2, <3>5, <3>6
    <2>4. CASE ~keep
        BY <1>2, <2>1, <2>2, <2>4 DEF chanVars
    <2>. QED  BY <2>3, <2>4
<1>. QED  BY <1>1, <1>2

-----------------------------------------------------------------------------
(* The state TcpServer::newConnection() leaves.                            *)
LEMMA InitIInv == Init => IInv
<1> SUFFICES ASSUME Init PROVE IInv
    OBVIOUS
<1>1. <<>> \in Seq(Nat) /\ Len(<<>>) = 0
    BY EmptySeq
<1>2. queue \in Seq(Functors) /\ \A f : Queued(f) => f = "connectEstablished"
    BY HasFunctor DEF Init, Queued, FunctorNames
<1>3. Idle \in Calls
    BY DEF Idle, Calls, AllCalls
<1>4. Types
    <2>1. pc \in [Threads -> Calls]
        BY <1>3 DEF Init
    <2>2. wire \in Seq(Nat) /\ M_outputBuffer \in Seq(Nat)
        BY <1>1 DEF Init
    <2>3. removing \in Nat /\ closes \in Nat /\ asked \in 0 .. MaxBytes /\ accepted \in Nat
        BY DEF Init
    <2>. QED  BY <1>2, <2>1, <2>2, <2>3, Zenon DEF Init, Types
<1>5. EstablishedOnce
    BY DEF Init, EstablishedOnce, Fresh, Idle
<1>6. ReportIsFresh /\ WritingIffPending
    BY DEF Init, ReportIsFresh, WritingIffPending, Open
<1>7. ShutdownIsAnnounced
    BY <1>2 DEF Init, ShutdownIsAnnounced, Idle
<1>8. OwnerToldOnce /\ QuietWhenDown
    BY <1>2 DEF Init, OwnerToldOnce, QuietWhenDown
<1>9. Ordered(wire \o M_outputBuffer, accepted)
    <2>1. wire \o M_outputBuffer = <<>>
        BY <1>1, ConcatEmptySeq DEF Init
    <2>. QED  BY <1>1, <2>1 DEF Ordered
<1>. QED  BY <1>4, <1>5, <1>6, <1>7, <1>8, <1>9 DEF IInv

(* The functor that runs; before connectEstablished() it is the only one.  *)
LEMMA RunsFacts ==
    ASSUME IInv, NEW f \in FunctorNames, Runs(f)
    PROVE  /\ Tail(queue) \in Seq(Functors)
           /\ \A g : Has(Tail(queue), g) => Has(queue, g)
           /\ Head(queue) \in Functors /\ Head(queue).len \in 0 .. MaxBytes
           /\ Queued(f)
           /\ M_state = "kConnecting" <=> f = "connectEstablished"
           /\ todo = {} /\ callback = "none"
<1>1. queue \in Seq(Functors) /\ queue # <<>> /\ Head(queue).f = f
    BY DEF IInv, Types, Runs
<1>2. /\ Tail(queue) \in Seq(Functors) /\ Head(queue) \in Functors /\ Has(queue, f)
      /\ \A g : Has(Tail(queue), g) => Has(queue, g)
    BY <1>1, HasTail
<1>3. Head(queue).len \in 0 .. MaxBytes
    BY <1>2 DEF Functors
<1>4. M_state = "kConnecting" => f = "connectEstablished"
    <2>1. ASSUME M_state = "kConnecting" PROVE Has(queue, f) => f = "connectEstablished"
        BY <2>1, HasFunctor DEF IInv, EstablishedOnce, Fresh, FunctorNames
    <2>. QED  BY <1>2, <2>1
<1>5. f = "connectEstablished" => M_state = "kConnecting"
    BY <1>2 DEF IInv, EstablishedOnce, Queued
<1>. QED  BY <1>2, <1>3, <1>4, <1>5 DEF Queued, Runs, AtRest
-----------------------------------------------------------------------------
(* One lemma per kind of step.  sendInLoop(), called or as a functor: the  *)
(* rest of the queue is q.                                                 *)
LEMMA SendKeeps ==
    ASSUME IInv, NEW len \in 0 .. MaxBytes, NEW q \in Seq(Functors), SendInLoop(len, q),
           \A f : Has(q, f) => Has(queue, f),
           M_state # "kConnecting", callback # "none" \/ todo = {}, ~aborted,
           asked' \in 0 .. MaxBytes,
           UNCHANGED <<connVars, ownerVars, todo, callback, threadVars, timer, aborted>>
    PROVE  IInv'
<1>1. /\ queue' \in Seq(Functors)
      /\ \A f : Has(queue', f) => Has(queue, f) \/ f \in {"writeComplete", "highWaterMark"}
    BY SendKeepsQueue
<1>2. /\ GivesUp => UNCHANGED <<interest, registered, M_outputBuffer>>
      /\ \/ UNCHANGED <<interest, registered>>
         \/ interest' = interest \union {"write"} /\ registered' = TRUE
      /\ ("write" \in interest <=> M_outputBuffer # <<>>) =>
            ("write" \in interest' <=> M_outputBuffer' # <<>>)
      /\ halfClosed' = halfClosed
    BY SendKeepsChannel
<1>3. /\ wire' \in Seq(Nat) /\ M_outputBuffer' \in Seq(Nat) /\ accepted' \in Nat
      /\ Ordered(wire' \o M_outputBuffer', accepted')
    BY SendKeepsOrder
<1>4. UNCHANGED <<M_state, todo, callback, pc, overtaken, timer, aborted, removing, removed,
                  closes, destroyed>>
    BY DEF connVars, ownerVars, threadVars
<1>5. Types'
    <2>1. interest' \subseteq {"read", "write"} /\ registered' \in BOOLEAN
        BY <1>2 DEF IInv, Types
    <2>. QED  BY <1>1, <1>2, <1>3, <1>4, <2>1 DEF IInv, Types
<1>6. EstablishedOnce'
    BY <1>1, <1>4 DEF IInv, EstablishedOnce, Queued
<1>7. ReportIsFresh' /\ ShutdownIsAnnounced'
    BY <1>1, <1>4 DEF IInv, ReportIsFresh, ShutdownIsAnnounced, Queued
<1>8. ~overtaken' => OwnerToldOnce' /\ QuietWhenDown'
    <2>1. ~overtaken' => OwnerToldOnce'
        BY <1>1, <1>4 DEF IInv, OwnerToldOnce, Queued
    <2>2. ~overtaken' => QuietWhenDown'
        BY <1>2, <1>4 DEF IInv, OwnerToldOnce, QuietWhenDown, GivesUp
    <2>. QED  BY <2>1, <2>2
<1>9. WritingIffPending'
    BY <1>2, <1>4 DEF IInv, WritingIffPending, Open
<1>. QED  BY <1>3, <1>5, <1>6, <1>7, <1>8, <1>9 DEF IInv

(* A step of the loop that touches neither the channel nor the buffer nor  *)
(* the owner: it may only add "forceClose" to the queue.                   *)
LEMMA QuietStepKeeps ==
    ASSUME IInv,
           queue' \in Seq(Functors),
           \A f : Has(queue', f) => Has(queue, f) \/ f = "forceClose",
           M_state # "kConnecting",
           \/ M_state' = M_state
           \/ M_state' = "kDisconnecting" /\ Open,
           todo' \subseteq {"write"} \/ callback # "none"
              \/ (todo' = todo /\ callback' = callback),
           callback' = callback \/ callback' \in {"none", "message", "functor"},
           halfClosed' \in BOOLEAN,
           todo' \subseteq todo,
           UNCHANGED <<chanVars, wire, M_outputBuffer, accepted, ownerVars, threadVars,
                       asked, aborted>>
    PROVE  IInv'
<1>1. UNCHANGED <<interest, registered, wire, M_outputBuffer, accepted, removing, removed,
                  closes, destroyed, pc, overtaken, asked, aborted>>
    BY DEF chanVars, ownerVars, threadVars
<1>2. M_state' # "kConnecting" /\ (M_state' = "kDisconnected" <=> M_state = "kDisconnected")
      /\ (Open' <=> Open)
      /\ (M_state \in {"kDisconnecting", "kDisconnected"} =>
             M_state' \in {"kDisconnecting", "kDisconnected"})
    BY DEF Open, IInv, Types
<1>3. Types'
    BY <1>1 DEF IInv, Types
<1>4. EstablishedOnce' /\ ShutdownIsAnnounced'
    BY <1>1, <1>2 DEF IInv, EstablishedOnce, ShutdownIsAnnounced, Queued
<1>5. ReportIsFresh'
    BY <1>1 DEF IInv, ReportIsFresh
<1>6. ~overtaken' => OwnerToldOnce'
    BY <1>1, <1>2 DEF IInv, OwnerToldOnce, Queued
<1>7. ~overtaken' => QuietWhenDown'
    BY <1>1, <1>2 DEF IInv, QuietWhenDown, Types
<1>8. WritingIffPending' /\ Ordered(wire \o M_outputBuffer, accepted)'
    BY <1>1, <1>2 DEF IInv, WritingIffPending
<1>. QED  BY <1>3, <1>4, <1>5, <1>6, <1>7, <1>8 DEF IInv

(* handleClose(), from the report of an event or from forceCloseInLoop().  *)
LEMMA HandleCloseKeeps ==
    ASSUME IInv, HandleClose, ~aborted, callback = "none", M_state # "kConnecting",
           queue' \in Seq(Functors), \A f : Has(queue', f) => Has(queue, f),
           todo' \subseteq {"write"}, todo' \subseteq todo,
           ~Open => "close" \in todo \/ "read" \in todo,
           UNCHANGED <<outVars, ownerVars, threadVars, asked>>
    PROVE  IInv'
<1>1. UNCHANGED <<wire, M_outputBuffer, accepted, halfClosed, removing, removed,
                  closes, destroyed, pc, overtaken, asked>>
    BY DEF outVars, ownerVars, threadVars
<1>2. CASE Open
    <2>1. M_state' = "kDisconnected" /\ interest' = {} /\ callback' = "down"
          /\ registered' \in BOOLEAN /\ aborted' = aborted
        BY <1>2 DEF HandleClose, Update
    <2>2. M_state # "kDisconnected"
        BY <1>2 DEF Open
    <2>3. Types'
        BY <1>1, <2>1 DEF IInv, Types
    <2>4. EstablishedOnce' /\ ShutdownIsAnnounced' /\ ReportIsFresh' /\ WritingIffPending'
        BY <1>1, <2>1
        DEF IInv, EstablishedOnce, ShutdownIsAnnounced, ReportIsFresh, WritingIffPending,
            Queued, Open
    <2>5. ~overtaken' => OwnerToldOnce' /\ QuietWhenDown'
        BY <1>1, <2>1, <2>2 DEF IInv, OwnerToldOnce, QuietWhenDown, Queued
    <2>. QED  BY <1>1, <2>3, <2>4, <2>5 DEF IInv
<1>3. CASE ~Open
    <2>1. UNCHANGED <<M_state, interest, registered, callback>> /\ aborted' \in BOOLEAN
        BY <1>3 DEF HandleClose, chanVars
    <2>2. M_state = "kDisconnected"
        BY <1>3 DEF IInv, Types, Open
    <2>3. registered
        BY <1>3 DEF IInv, ReportIsFresh
    <2>4. Types'
        BY <1>1, <2>1 DEF IInv, Types
    <2>5. EstablishedOnce' /\ ShutdownIsAnnounced' /\ ReportIsFresh' /\ WritingIffPending'
        BY <1>1, <2>1, <2>2
        DEF IInv, EstablishedOnce, ShutdownIsAnnounced, ReportIsFresh, WritingIffPending,
            Queued, Open
    <2>6. ~overtaken' => OwnerToldOnce' /\ QuietWhenDown'
        BY <1>1, <2>1, <2>2, <2>3 DEF IInv, OwnerToldOnce, QuietWhenDown, Queued
    <2>. QED  BY <1>1, <2>4, <2>5, <2>6 DEF IInv
<1>. QED  BY <1>2, <1>3
(* handleWrite() and write(2) takes n bytes.                               *)
LEMMA WriteSucceedsKeeps ==
    ASSUME IInv, NEW n \in 1 .. Len(M_outputBuffer), WriteSucceeds(n), ~aborted,
           todo = {"write"}, todo' = {},
           UNCHANGED <<connVars, ownerVars, callback, threadVars, asked, aborted>>
    PROVE  IInv'
<1>0. /\ wire \in Seq(Nat) /\ M_outputBuffer \in Seq(Nat) /\ accepted \in Nat
      /\ queue \in Seq(Functors)
      /\ M_state \in {"kConnecting", "kConnected", "kDisconnecting", "kDisconnected"}
    BY DEF IInv, Types
<1>1. UNCHANGED <<M_state, removing, removed, closes, destroyed, pc, overtaken, asked, callback,
                  accepted, aborted>>
    BY DEF connVars, ownerVars, threadVars, WriteSucceeds
<1>2. /\ interest' = interest \ {"write"} /\ registered' \in BOOLEAN /\ M_outputBuffer' = <<>>
      /\ halfClosed' \in BOOLEAN /\ "write" \in interest
    BY DEF WriteSucceeds, Update
<1>3. M_state # "kConnecting"
    BY <1>2 DEF IInv, EstablishedOnce, Fresh
<1>4. /\ queue' \in Seq(Functors)
      /\ \A f : Has(queue', f) <=> Has(queue, f) \/ f = "writeComplete"
    <2>1. Functor("writeComplete") \in Functors /\ Functor("writeComplete").f = "writeComplete"
        BY HasFunctor DEF FunctorNames
    <2>2. queue' = Append(queue, Functor("writeComplete"))
        BY DEF WriteSucceeds
    <2>. QED  BY <1>0, <2>1, <2>2, HasAppend
<1>5. wire' \in Seq(Nat) /\ M_outputBuffer' \in Seq(Nat)
      /\ Ordered(wire' \o M_outputBuffer', accepted')
    <2> DEFINE sent == SubSeq(M_outputBuffer, 1, n)
               out  == wire \o M_outputBuffer
               new  == wire \o sent
    <2>0. wire' = new
        BY DEF WriteSucceeds
    <2>1. sent \in Seq(Nat) /\ Len(sent) = n /\ \A i \in 1 .. n : sent[i] = M_outputBuffer[i]
        <3>1. \A i \in 1 .. n : M_outputBuffer[i] \in Nat
            BY <1>0
        <3>2. /\ sent \in Seq(Nat) /\ Len(sent) = (IF 1 <= n THEN n - 1 + 1 ELSE 0)
              /\ \A i \in 1 .. n - 1 + 1 : sent[i] = M_outputBuffer[1 + i - 1]
            BY <1>0, <3>1, SubSeqProperties
        <3> HIDE DEF sent
        <3>. QED  BY <1>0, <3>2
    <2> HIDE DEF sent
    <2>2. /\ out \in Seq(Nat) /\ Len(out) = Len(wire) + Len(M_outputBuffer)
          /\ \A i \in 1 .. Len(wire) + Len(M_outputBuffer) :
                out[i] = IF i <= Len(wire) THEN wire[i] ELSE M_outputBuffer[i - Len(wire)]
        BY <1>0, ConcatProperties
    <2>3. /\ new \in Seq(Nat) /\ Len(new) = Len(wire) + n
          /\ \A i \in 1 .. Len(wire) + n :
                new[i] = IF i <= Len(wire) THEN wire[i] ELSE sent[i - Len(wire)]
        <3>1. wire \in Seq(Nat) /\ sent \in Seq(Nat) /\ Len(sent) = n
            BY <1>0, <2>1
        <3>. QED  BY <3>1, BytesConcat
    <2>4. Ordered(out, accepted)
        BY DEF IInv
    <2> HIDE DEF out, new
    <2>5. Len(wire) \in Nat /\ Len(M_outputBuffer) \in Nat
        BY <1>0
    <2>6. \A i \in 1 .. Len(new) : i \in 1 .. Len(out) /\ new[i] = out[i]
        <3>1. TAKE i \in 1 .. Len(new)
        <3>2. i \in 1 .. Len(wire) + n /\ i \in 1 .. Len(wire) + Len(M_outputBuffer)
              /\ (i > Len(wire) => i - Len(wire) \in 1 .. n)
            BY <2>3, <2>5
        <3>3. CASE i <= Len(wire)
            BY <2>2, <2>3, <3>2, <3>3
        <3>4. CASE i > Len(wire)
            <4>0. ~(i <= Len(wire))
                BY <2>5, <3>4
            <4>1. new[i] = sent[i - Len(wire)]
                BY <2>3, <3>2, <4>0
            <4>2. out[i] = M_outputBuffer[i - Len(wire)]
                BY <2>2, <3>2, <4>0
            <4>3. sent[i - Len(wire)] = M_outputBuffer[i - Len(wire)]
                BY <2>1, <3>2, <3>4
            <4>. QED  BY <2>2, <3>2, <4>1, <4>2, <4>3
        <3>. QED  BY <2>5, <3>3, <3>4
    <2>7. Ordered(new, accepted)
        BY <2>4, <2>6 DEF Ordered
    <2>8. new \o <<>> = new /\ <<>> \in Seq(Nat)
        BY <2>3, ConcatEmptySeq, EmptySeq
    <2>. QED  BY <1>1, <1>2, <2>0, <2>3, <2>7, <2>8
<1>6. Types'
    <2>1. todo' \subseteq {"close", "read", "write"} /\ interest' \subseteq {"read", "write"}
        BY <1>2 DEF IInv, Types
    <2>. QED  BY <1>1, <1>2, <1>4, <1>5, <2>1 DEF IInv, Types
<1>7. EstablishedOnce' /\ ShutdownIsAnnounced' /\ ReportIsFresh'
    BY <1>1, <1>3, <1>4
    DEF IInv, EstablishedOnce, ShutdownIsAnnounced, ReportIsFresh, Queued
<1>8. WritingIffPending'
    BY <1>2 DEF WritingIffPending
<1>9. ~overtaken' => OwnerToldOnce' /\ QuietWhenDown'
    BY <1>1, <1>2, <1>4 DEF IInv, OwnerToldOnce, QuietWhenDown, Queued
<1>. QED  BY <1>5, <1>6, <1>7, <1>8, <1>9 DEF IInv

(* startReadInLoop() and stopReadInLoop(): of the interest only the part   *)
(* in reading changes.                                                     *)
LEMMA ReadSwitchKeeps ==
    ASSUME IInv, StartReadInLoop \/ StopReadInLoop, ~aborted, M_state # "kConnecting",
           callback # "none" \/ todo = {},
           queue' \in Seq(Functors), \A f : Has(queue', f) => Has(queue, f),
           overtaken' \in BOOLEAN, overtaken => overtaken', Open \/ overtaken',
           UNCHANGED <<M_state, outVars, ownerVars, todo, callback, pc, asked, aborted>>
    PROVE  IInv'
<1>1. UNCHANGED <<M_state, wire, M_outputBuffer, accepted, halfClosed, removing, removed,
                  closes, destroyed, todo, callback, pc, asked, aborted>>
    BY DEF outVars, ownerVars
<1>2. /\ "write" \in interest' <=> "write" \in interest
      /\ interest' \subseteq {"read", "write"} /\ registered' \in BOOLEAN
    BY DEF StartReadInLoop, StopReadInLoop, Update, chanVars, IInv, Types
<1>3. Types'
    BY <1>1, <1>2 DEF IInv, Types
<1>4. EstablishedOnce' /\ ShutdownIsAnnounced' /\ ReportIsFresh'
    BY <1>1 DEF IInv, EstablishedOnce, ShutdownIsAnnounced, ReportIsFresh, Queued
<1>5. WritingIffPending' /\ Ordered(wire \o M_outputBuffer, accepted)'
    BY <1>1, <1>2 DEF IInv, WritingIffPending, Open
<1>6. ~overtaken' => OwnerToldOnce' /\ QuietWhenDown'
    BY <1>1 DEF IInv, OwnerToldOnce, QuietWhenDown, Queued, Open
<1>. QED  BY <1>3, <1>4, <1>5, <1>6 DEF IInv

LEMMA PollKeeps ==
    ASSUME IInv, NEW h \in Handlers, Poll(h)
    PROVE  IInv'
<1>1. UNCHANGED <<M_state, interest, registered, wire, M_outputBuffer, accepted, halfClosed,
                  removing, removed, closes, destroyed, queue, callback, pc, overtaken, asked,
                  aborted>>
    BY DEF Poll, connVars, chanVars, outVars, ownerVars, threadVars
<1>2. registered /\ callback = "none" /\ todo' = h /\ h \subseteq {"close", "read", "write"}
    BY DEF Poll, AtRest, Handlers
<1>3. Types'
    BY <1>1, <1>2 DEF IInv, Types
<1>4. EstablishedOnce' /\ ShutdownIsAnnounced'
    BY <1>1, <1>2 DEF IInv, EstablishedOnce, ShutdownIsAnnounced, Fresh, Queued
<1>5. ReportIsFresh'
    BY <1>1, <1>2 DEF Poll, ReportIsFresh, Handlers
<1>6. WritingIffPending' /\ Ordered(wire \o M_outputBuffer, accepted)'
    BY <1>1 DEF IInv, WritingIffPending, Open
<1>7. ~overtaken' => OwnerToldOnce' /\ QuietWhenDown'
    BY <1>1, <1>2 DEF IInv, OwnerToldOnce, QuietWhenDown, Queued
<1>. QED  BY <1>3, <1>4, <1>5, <1>6, <1>7 DEF IInv
LEMMA ConnectEstablishedKeeps ==
    ASSUME IInv, ConnectEstablished
    PROVE  IInv'
<1>1. Fresh /\ M_state = "kConnecting" /\ todo = {} /\ callback = "none"
    BY RunsFacts DEF ConnectEstablished, FunctorNames, IInv, EstablishedOnce
<1>2. UNCHANGED <<wire, M_outputBuffer, accepted, halfClosed, removing, removed, closes,
                  destroyed, todo, pc, overtaken, asked, aborted>>
    BY DEF ConnectEstablished, outVars, ownerVars, threadVars
<1>3. M_state' = "kConnected" /\ interest' = {"read"} /\ callback' = "up" /\ registered' \in BOOLEAN
    BY DEF ConnectEstablished, Update
<1>4. queue' = <<>> /\ queue' \in Seq(Functors) /\ \A f : ~Has(queue', f)
    <2>1. queue = <<Functor("connectEstablished")>> /\ queue' = Tail(queue)
        BY <1>1 DEF Fresh, ConnectEstablished
    <2>2. Tail(queue) = <<>>
        BY <2>1
    <2>. QED  BY <2>1, <2>2, HasNothing
<1>5. Types'
    BY <1>2, <1>3, <1>4 DEF IInv, Types
<1>6. EstablishedOnce' /\ ReportIsFresh'
    BY <1>1, <1>2, <1>3, <1>4 DEF EstablishedOnce, ReportIsFresh, Queued
<1>7. ShutdownIsAnnounced'
    BY <1>1, <1>2, <1>4 DEF ShutdownIsAnnounced, Fresh, Queued
<1>8. WritingIffPending' /\ Ordered(wire \o M_outputBuffer, accepted)'
    BY <1>1, <1>2, <1>3 DEF IInv, WritingIffPending, Fresh
<1>9. ~overtaken' => OwnerToldOnce' /\ QuietWhenDown'
    BY <1>1, <1>2, <1>3, <1>4 DEF IInv, OwnerToldOnce, QuietWhenDown, Queued, Fresh
<1>. QED  BY <1>5, <1>6, <1>7, <1>8, <1>9 DEF IInv

(* connectDestroyed(): queued by an owner that was told of the close.      *)
LEMMA ConnectDestroyedKeeps ==
    ASSUME IInv, ConnectDestroyed, ~aborted
    PROVE  IInv'
<1>1. /\ queue' \in Seq(Functors) /\ \A f : Has(queue', f) => Has(queue, f)
      /\ Queued("connectDestroyed") /\ M_state # "kConnecting"
      /\ todo = {} /\ callback = "none"
    BY RunsFacts DEF ConnectDestroyed, FunctorNames
<1>2. UNCHANGED <<wire, M_outputBuffer, accepted, halfClosed, removing, removed, closes,
                  todo, callback, pc, overtaken, asked, aborted>>
    BY DEF ConnectDestroyed, outVars, threadVars
<1>3. M_state' = "kDisconnected" /\ interest' = {} /\ registered' = FALSE /\ destroyed' = TRUE
    BY DEF ConnectDestroyed
<1>4. Types'
    BY <1>1, <1>2, <1>3 DEF IInv, Types
<1>5. EstablishedOnce' /\ ReportIsFresh' /\ ShutdownIsAnnounced'
    BY <1>1, <1>2, <1>3 DEF IInv, EstablishedOnce, ReportIsFresh, ShutdownIsAnnounced, Queued
<1>6. WritingIffPending' /\ Ordered(wire \o M_outputBuffer, accepted)'
    BY <1>2, <1>3 DEF IInv, WritingIffPending, Open
<1>7. ~overtaken' => OwnerToldOnce'
    BY <1>1, <1>2, <1>3 DEF IInv, OwnerToldOnce, Queued
<1>8. ~overtaken' => QuietWhenDown'
    BY <1>1, <1>2, <1>3 DEF IInv, QuietWhenDown, ConnectDestroyed
<1>. QED  BY <1>4, <1>5, <1>6, <1>7, <1>8 DEF IInv

(* handleClose() after its connection callback: M_closeCallback.           *)
LEMMA DownReturnsKeeps ==
    ASSUME IInv, DownReturns
    PROVE  IInv'
<1>1. UNCHANGED <<M_state, interest, registered, wire, M_outputBuffer, accepted, halfClosed,
                  removed, destroyed, queue, todo, pc, overtaken, asked, aborted>>
    BY DEF DownReturns, connVars, chanVars, outVars, threadVars
<1>2. callback = "down" /\ callback' = "none" /\ closes' = closes + 1 /\ removing' = removing + 1
    BY DEF DownReturns
<1>3. closes \in Nat /\ removing \in Nat
    BY DEF IInv, Types
<1>4. Types'
    BY <1>1, <1>2, <1>3 DEF IInv, Types
<1>5. EstablishedOnce' /\ ReportIsFresh' /\ ShutdownIsAnnounced'
    BY <1>1, <1>2
    DEF IInv, EstablishedOnce, ReportIsFresh, ShutdownIsAnnounced, Fresh, Queued
<1>6. WritingIffPending' /\ Ordered(wire \o M_outputBuffer, accepted)'
    BY <1>1 DEF IInv, WritingIffPending, Open
<1>7. ~overtaken' => OwnerToldOnce' /\ QuietWhenDown'
    BY <1>1, <1>2, <1>3 DEF IInv, OwnerToldOnce, QuietWhenDown, Queued
<1>. QED  BY <1>4, <1>5, <1>6, <1>7 DEF IInv

(* The owner erases the connection and queues connectDestroyed().          *)
LEMMA RemoveConnectionKeeps ==
    ASSUME IInv, RemoveConnection, ~aborted
    PROVE  IInv'
<1>1. UNCHANGED <<M_state, interest, registered, wire, M_outputBuffer, accepted, halfClosed,
                  closes, destroyed, todo, callback, pc, overtaken, asked>>
    BY DEF RemoveConnection, connVars, chanVars, outVars, threadVars
<1>2. /\ removing \in Nat /\ removing > 0 /\ removing' = removing - 1
      /\ removed' = TRUE /\ queue \in Seq(Functors) /\ closes \in Nat
    BY DEF IInv, Types, RemoveConnection
<1>3. M_state # "kConnecting"
    BY <1>2 DEF IInv, EstablishedOnce, Fresh
<1>4. /\ queue' \in Seq(Functors)
      /\ \A f : Has(queue', f) => Has(queue, f) \/ f = "connectDestroyed"
      /\ aborted' \in BOOLEAN
      /\ ~removed => ~aborted'
    <2>1. Functor("connectDestroyed") \in Functors
          /\ Functor("connectDestroyed").f = "connectDestroyed"
        BY HasFunctor DEF FunctorNames
    <2>2. \/ queue' = queue /\ aborted' = TRUE /\ removed
          \/ queue' = Append(queue, Functor("connectDestroyed")) /\ aborted' = aborted
        BY DEF RemoveConnection
    <2>3. /\ Append(queue, Functor("connectDestroyed")) \in Seq(Functors)
          /\ \A f : Has(Append(queue, Functor("connectDestroyed")), f) =>
                Has(queue, f) \/ f = "connectDestroyed"
        BY <1>2, <2>1, HasAppend
    <2>4. aborted \in BOOLEAN
        BY DEF IInv, Types
    <2>5. CASE queue' = queue /\ aborted' = TRUE /\ removed
        BY <1>2, <2>5
    <2>6. CASE queue' = Append(queue, Functor("connectDestroyed")) /\ aborted' = aborted
        BY <2>3, <2>4, <2>6
    <2>. QED  BY <2>2, <2>5, <2>6
<1>5. Types'
    <2>1. removing' \in Nat /\ removed' \in BOOLEAN
        BY <1>2
    <2>. QED  BY <1>1, <1>4, <2>1 DEF IInv, Types
<1>6. EstablishedOnce' /\ ReportIsFresh' /\ ShutdownIsAnnounced'
    BY <1>1, <1>3, <1>4 DEF IInv, EstablishedOnce, ReportIsFresh, ShutdownIsAnnounced, Queued
<1>7. WritingIffPending' /\ Ordered(wire \o M_outputBuffer, accepted)'
    BY <1>1 DEF IInv, WritingIffPending, Open
<1>8. ASSUME ~overtaken PROVE OwnerToldOnce' /\ QuietWhenDown'
    <2>1. ~removed /\ removing = 1 /\ closes = 1
        BY <1>2, <1>8 DEF IInv, OwnerToldOnce
    <2>. QED  BY <1>1, <1>2, <1>4, <1>8, <2>1 DEF IInv, OwnerToldOnce, QuietWhenDown, Queued
<1>. QED  BY <1>1, <1>5, <1>6, <1>7, <1>8 DEF IInv

-----------------------------------------------------------------------------
(* The three steps of a call in another thread.                            *)
LEMMA TestKeeps ==
    ASSUME IInv, NEW t \in Threads, NEW m \in ThreadCalls, NEW len \in 0 .. MaxBytes,
           Test(t, m, len)
    PROVE  IInv'
<1>1. UNCHANGED <<M_state, interest, registered, wire, M_outputBuffer, accepted, halfClosed,
                  removing, removed, closes, destroyed, queue, todo, callback, overtaken,
                  aborted>>
    BY DEF Test, threadUnchanged, chanVars, outVars, ownerVars
<1>2. M_state # "kConnecting" /\ asked' \in 0 .. MaxBytes
    BY DEF Test, IInv, Types
<1>3. m \in AllCalls
    OBVIOUS
<1>4. /\ pc' \in [Threads -> Calls]
      /\ pc'[t].call = "shutdown" => pc'[t].step = "set"
      /\ \A u \in Threads : u # t => pc'[u] = pc[u]
    <2> DEFINE new == [step |-> IF m \in {"shutdown", "forceClose"} THEN "set" ELSE "queue",
                       call |-> m, len |-> len]
    <2>1. pc \in [Threads -> Calls] /\ pc' = [pc EXCEPT ![t] = new]
        BY DEF Test, IInv, Types
    <2>2. new \in Calls /\ (new.call = "shutdown" => new.step = "set")
        BY <1>3 DEF Calls
    <2> HIDE DEF new
    <2>. QED  BY <2>1, <2>2
<1>5. Types'
    BY <1>1, <1>2, <1>4 DEF IInv, Types
<1>6. EstablishedOnce' /\ ReportIsFresh' /\ WritingIffPending'
    BY <1>1, <1>2 DEF IInv, EstablishedOnce, ReportIsFresh, WritingIffPending, Open, Queued
<1>7. ShutdownIsAnnounced'
    <2>1. \A u \in Threads : pc'[u].step = "queue" /\ pc'[u].call = "shutdown" =>
             pc[u].step = "queue" /\ pc[u].call = "shutdown"
        BY <1>4
    <2>. QED  BY <1>1, <2>1 DEF IInv, ShutdownIsAnnounced, Queued
<1>8. (~overtaken' => OwnerToldOnce' /\ QuietWhenDown')
      /\ Ordered(wire \o M_outputBuffer, accepted)'
    BY <1>1 DEF IInv, OwnerToldOnce, QuietWhenDown, Queued
<1>. QED  BY <1>5, <1>6, <1>7, <1>8 DEF IInv

LEMMA SetStateKeeps ==
    ASSUME IInv, NEW t \in Threads, SetState(t)
    PROVE  IInv'
<1>1. UNCHANGED <<interest, registered, wire, M_outputBuffer, accepted, halfClosed,
                  removing, removed, closes, destroyed, queue, todo, callback, aborted, asked>>
    BY DEF SetState, threadUnchanged, chanVars, outVars, ownerVars
<1>2. M_state' = "kDisconnecting" /\ overtaken' = (overtaken \/ ~Open)
    BY DEF SetState
<1>3. M_state # "kConnecting"
    BY DEF SetState, IInv, EstablishedOnce, Fresh
<1>4. pc' \in [Threads -> Calls]
    <2>1. pc \in [Threads -> Calls] /\ pc' = [pc EXCEPT ![t].step = "queue"]
        BY DEF SetState, IInv, Types
    <2>2. [pc[t] EXCEPT !.step = "queue"] \in Calls
        BY <2>1 DEF Calls
    <2>. QED  BY <2>1, <2>2
<1>5. Types'
    BY <1>1, <1>2, <1>4 DEF IInv, Types
<1>6. EstablishedOnce' /\ ReportIsFresh' /\ ShutdownIsAnnounced'
    BY <1>1, <1>2, <1>3 DEF IInv, EstablishedOnce, ReportIsFresh, ShutdownIsAnnounced, Queued
<1>7. WritingIffPending' /\ Ordered(wire \o M_outputBuffer, accepted)'
    BY <1>1, <1>2 DEF IInv, WritingIffPending, Open
<1>8. ASSUME ~overtaken' PROVE OwnerToldOnce' /\ QuietWhenDown'
    <2>1. ~overtaken /\ M_state # "kDisconnected" /\ ~aborted
        BY <1>2, <1>8 DEF Open, IInv, QuietWhenDown
    <2>. QED  BY <1>1, <1>2, <2>1 DEF IInv, OwnerToldOnce, QuietWhenDown, Queued
<1>. QED  BY <1>5, <1>6, <1>7, <1>8 DEF IInv

LEMMA QueueInLoopKeeps ==
    ASSUME IInv, NEW t \in Threads, QueueInLoop(t)
    PROVE  IInv'
<1>1. UNCHANGED <<M_state, interest, registered, wire, M_outputBuffer, accepted, halfClosed,
                  removing, removed, closes, destroyed, todo, callback, overtaken, aborted,
                  asked>>
    BY DEF QueueInLoop, threadUnchanged, chanVars, outVars, ownerVars
<1>2. M_state # "kConnecting"
    BY DEF QueueInLoop, IInv, EstablishedOnce, Fresh
<1>3. pc[t].call \in AllCalls /\ pc[t].len \in 0 .. MaxBytes
    BY DEF IInv, Types, Calls
<1>4. /\ queue' \in Seq(Functors)
      /\ \A f : Has(queue', f) <=> Has(queue, f) \/ f = pc[t].call
    <2> DEFINE x == [f |-> pc[t].call, len |-> pc[t].len]
    <2>1. x \in Functors /\ x.f = pc[t].call
        BY <1>3 DEF Functors, FunctorNames
    <2>2. queue \in Seq(Functors) /\ queue' = Append(queue, x)
        BY DEF QueueInLoop, IInv, Types
    <2> HIDE DEF x
    <2>. QED  BY <2>1, <2>2, HasAppend
<1>5. /\ pc' \in [Threads -> Calls] /\ pc'[t].step = "run"
      /\ \A u \in Threads : u # t => pc'[u] = pc[u]
    <2>1. pc \in [Threads -> Calls] /\ pc' = [pc EXCEPT ![t] = Idle]
        BY DEF QueueInLoop, IInv, Types
    <2>2. Idle \in Calls /\ Idle.step = "run"
        BY DEF Idle, Calls, AllCalls
    <2>. QED  BY <2>1, <2>2
<1>6. Types'
    BY <1>1, <1>4, <1>5 DEF IInv, Types
<1>7. EstablishedOnce'
    BY <1>1, <1>2, <1>3, <1>4 DEF IInv, EstablishedOnce, Queued, AllCalls
<1>8. ShutdownIsAnnounced'
    <2>1. \A u \in Threads : pc'[u].step = "queue" /\ pc'[u].call = "shutdown" =>
             pc[u].step = "queue" /\ pc[u].call = "shutdown"
        BY <1>5
    <2>2. pc[t].step = "queue"
        BY DEF QueueInLoop
    <2>. QED  BY <1>1, <1>4, <2>1, <2>2 DEF IInv, ShutdownIsAnnounced, Queued
<1>9. ReportIsFresh' /\ WritingIffPending' /\ Ordered(wire \o M_outputBuffer, accepted)'
    BY <1>1 DEF IInv, ReportIsFresh, WritingIffPending, Open
<1>10. ~overtaken' => OwnerToldOnce' /\ QuietWhenDown'
    BY <1>1, <1>3, <1>4 DEF IInv, OwnerToldOnce, QuietWhenDown, Queued, AllCalls
<1>. QED  BY <1>6, <1>7, <1>8, <1>9, <1>10 DEF IInv
-----------------------------------------------------------------------------
(* Steps of the loop and of its users.                                     *)
LEMMA DispatchKeeps ==
    ASSUME IInv, DispatchStep, ~aborted
    PROVE  IInv'
<1>0. /\ queue \in Seq(Functors) /\ halfClosed \in BOOLEAN
      /\ todo \subseteq {"close", "read", "write"}
    BY DEF IInv, Types
<1>a. (todo # {} \/ callback # "none") => M_state # "kConnecting"
    BY DEF IInv, EstablishedOnce, Fresh
<1>1. CASE DownReturns
    BY <1>1, DownReturnsKeeps
<1>2. CASE CallbackReturns
    <2>1. /\ callback # "none" /\ callback' = "none" /\ queue' = queue /\ M_state' = M_state
          /\ todo' = todo /\ halfClosed' = halfClosed
          /\ UNCHANGED <<chanVars, wire, M_outputBuffer, accepted, ownerVars, threadVars,
                         asked, aborted>>
        BY <1>2 DEF CallbackReturns, connVars, outVars
    <2>. QED  BY <1>0, <1>a, <2>1, QuietStepKeeps
<1>3. CASE CloseEvent
    <2>1. /\ HandleClose /\ callback = "none" /\ "close" \in todo /\ queue' = queue
          /\ todo' = todo \ {"close"}
          /\ UNCHANGED <<outVars, ownerVars, threadVars, asked>>
        BY <1>3 DEF CloseEvent
    <2>2. "read" \notin todo
        BY <2>1 DEF IInv, ReportIsFresh
    <2>. QED  BY <1>0, <1>a, <2>1, <2>2, HandleCloseKeeps
<1>4. CASE HandleRead
    <2>1. /\ callback = "none" /\ "close" \notin todo /\ "read" \in todo /\ queue' = queue
          /\ todo' = todo \ {"read"} /\ todo' \subseteq {"write"}
          /\ UNCHANGED <<outVars, ownerVars, threadVars, asked>>
        BY <1>0, <1>4 DEF HandleRead
    <2>2. CASE HandleClose
        BY <1>0, <1>a, <2>1, <2>2, HandleCloseKeeps
    <2>3. CASE /\ callback' = "message" \/ callback' = callback
               /\ UNCHANGED <<M_state, chanVars, aborted>>
        <3>1. UNCHANGED <<wire, M_outputBuffer, accepted, halfClosed>>
            BY <2>1 DEF outVars
        <3>. QED  BY <1>0, <1>a, <2>1, <2>3, <3>1, QuietStepKeeps
    <2>. QED  BY <1>4, <2>2, <2>3 DEF HandleRead
<1>5. CASE HandleWrite
    <2>1. /\ todo = {"write"} /\ todo' = {}
          /\ UNCHANGED <<connVars, ownerVars, callback, threadVars, timer, asked, aborted>>
        BY <1>5 DEF HandleWrite
    <2>2. CASE \E n \in 1 .. Len(M_outputBuffer) : WriteSucceeds(n)
        BY <2>1, <2>2, WriteSucceedsKeeps
    <2>3. CASE UNCHANGED <<outVars, chanVars, queue>>
        <3>1. UNCHANGED <<M_state, wire, M_outputBuffer, accepted, halfClosed>>
            BY <2>1, <2>3 DEF outVars, connVars
        <3>. QED  BY <1>0, <1>a, <2>1, <2>3, <3>1, QuietStepKeeps
    <2>. QED  BY <1>5, <2>2, <2>3 DEF HandleWrite
<1>. QED  BY <1>1, <1>2, <1>3, <1>4, <1>5 DEF DispatchStep

LEMMA FunctorKeeps ==
    ASSUME IInv, FunctorStep, ~aborted
    PROVE  IInv'
<1> USE DEF FunctorNames, AllCalls
<1>1. CASE RunSend
    <2>1. Runs("send")
        BY <1>1 DEF RunSend
    <2>2. /\ Tail(queue) \in Seq(Functors) /\ \A g : Has(Tail(queue), g) => Has(queue, g)
          /\ Head(queue).len \in 0 .. MaxBytes /\ M_state # "kConnecting" /\ todo = {}
        BY <2>1, RunsFacts
    <2>3. asked' \in 0 .. MaxBytes
        BY <1>1 DEF RunSend, IInv, Types
    <2>. QED  BY <1>1, <2>2, <2>3, SendKeeps DEF RunSend
<1>2. CASE RunShutdown
    <2>1. /\ queue' \in Seq(Functors) /\ \A g : Has(queue', g) => Has(queue, g)
          /\ M_state # "kConnecting" /\ todo = {}
        BY <1>2, RunsFacts DEF RunShutdown
    <2>2. /\ halfClosed' \in BOOLEAN /\ UNCHANGED <<M_state, todo, callback, wire,
                                                    M_outputBuffer, accepted>>
          /\ UNCHANGED <<chanVars, ownerVars, threadVars, asked, aborted>>
        BY <1>2 DEF RunShutdown, ShutdownInLoop, connVars
    <2>. QED  BY <2>1, <2>2, QuietStepKeeps
<1>3. CASE RunForceClose
    <2>1. /\ queue' \in Seq(Functors) /\ \A g : Has(queue', g) => Has(queue, g)
          /\ M_state # "kConnecting" /\ todo = {} /\ todo' = todo /\ callback = "none"
          /\ UNCHANGED <<outVars, ownerVars, threadVars, asked>>
        BY <1>3, RunsFacts DEF RunForceClose
    <2>2. CASE Open
        <3>1. HandleClose
            BY <1>3, <2>2 DEF RunForceClose
        <3>. QED  BY <2>1, <2>2, <3>1, HandleCloseKeeps
    <2>3. CASE ~Open
        <3>1. UNCHANGED <<M_state, chanVars, callback, aborted>>
            BY <1>3, <2>3 DEF RunForceClose
        <3>2. UNCHANGED <<wire, M_outputBuffer, accepted, halfClosed>> /\ halfClosed \in BOOLEAN
            BY <2>1 DEF outVars, IInv, Types
        <3>. QED  BY <2>1, <3>1, <3>2, QuietStepKeeps
    <2>. QED  BY <2>2, <2>3
<1>4. CASE RunReadSwitch
    <2>1. /\ queue' \in Seq(Functors) /\ \A g : Has(queue', g) => Has(queue, g)
          /\ M_state # "kConnecting" /\ todo = {}
        BY <1>4, RunsFacts DEF RunReadSwitch
    <2>2. overtaken' = (overtaken \/ ~Open) /\ overtaken' \in BOOLEAN
        BY <1>4 DEF RunReadSwitch
    <2>3. StartReadInLoop \/ StopReadInLoop
        BY <1>4 DEF RunReadSwitch
    <2>4. UNCHANGED <<M_state, outVars, ownerVars, todo, callback, pc, asked, aborted>>
        BY <1>4 DEF RunReadSwitch
    <2>. QED  BY <2>1, <2>2, <2>3, <2>4, ReadSwitchKeeps
<1>5. CASE RunUserCallback
    <2>1. /\ queue' \in Seq(Functors) /\ \A g : Has(queue', g) => Has(queue, g)
          /\ M_state # "kConnecting" /\ todo = {} /\ halfClosed \in BOOLEAN
        BY <1>5, RunsFacts DEF RunUserCallback, IInv, Types
    <2>2. /\ callback' = "functor"
          /\ UNCHANGED <<M_state, todo, wire, M_outputBuffer, accepted, halfClosed>>
          /\ UNCHANGED <<chanVars, ownerVars, threadVars, asked, aborted>>
        BY <1>5 DEF RunUserCallback, connVars, outVars
    <2>. QED  BY <2>1, <2>2, QuietStepKeeps
<1>. QED  BY <1>1, <1>2, <1>3, <1>4, <1>5, ConnectEstablishedKeeps, ConnectDestroyedKeeps
    DEF FunctorStep

LEMMA UserKeeps ==
    ASSUME IInv, UserStep \/ DelayExpires, ~aborted
    PROVE  IInv'
<1>0. /\ queue \in Seq(Functors) /\ halfClosed \in BOOLEAN /\ asked \in 0 .. MaxBytes
      /\ MaxBytes \in Nat
    BY DEF IInv, Types
<1>a. timer => M_state # "kConnecting"
    BY DEF IInv, EstablishedOnce, Fresh
<1>b. /\ Append(queue, Functor("forceClose")) \in Seq(Functors)
      /\ \A f : Has(Append(queue, Functor("forceClose")), f) =>
            Has(queue, f) \/ f = "forceClose"
    BY <1>0, HasAppend, HasFunctor DEF FunctorNames, AllCalls
<1>1. ASSUME NEW len \in 1 .. MaxBytes, Send(len) PROVE IInv'
    <2>1. M_state # "kConnecting" /\ (callback # "none" \/ todo = {})
        BY <1>1 DEF Send, InUserCode, AtRest
    <2>2. len \in 0 .. MaxBytes /\ asked' \in 0 .. MaxBytes
        BY <1>0, <1>1 DEF Send
    <2>3. SendInLoop(len, queue)
          /\ UNCHANGED <<connVars, ownerVars, todo, callback, threadVars, timer, aborted>>
        BY <1>1 DEF Send
    <2>. QED  BY <1>0, <2>1, <2>2, <2>3, SendKeeps
<1>2. CASE Shutdown
    <2>1. /\ M_state = "kConnected" /\ Open /\ M_state' = "kDisconnecting"
          /\ halfClosed' \in BOOLEAN
          /\ UNCHANGED <<queue, todo, callback, wire, M_outputBuffer, accepted>>
          /\ UNCHANGED <<chanVars, ownerVars, threadVars, asked, aborted>>
        BY <1>2 DEF Shutdown, ShutdownInLoop, Open
    <2>. QED  BY <1>0, <2>1, QuietStepKeeps
<1>3. CASE ForceClose
    <2>1. /\ M_state # "kConnecting" /\ Open /\ M_state' = "kDisconnecting"
          /\ queue' = Append(queue, Functor("forceClose"))
          /\ UNCHANGED <<todo, callback, wire, M_outputBuffer, accepted, halfClosed>>
          /\ UNCHANGED <<chanVars, ownerVars, threadVars, asked, aborted>>
        BY <1>3 DEF ForceClose, InUserCode, outVars
    <2>2. queue' \in Seq(Functors)
          /\ \A f : Has(queue', f) => Has(queue, f) \/ f = "forceClose"
        BY <1>b, <2>1
    <2>. QED  BY <1>0, <2>1, <2>2, QuietStepKeeps
<1>4. CASE ForceCloseWithDelay
    <2>1. /\ M_state # "kConnecting" /\ Open /\ M_state' = "kDisconnecting"
          /\ UNCHANGED <<queue, todo, callback, wire, M_outputBuffer, accepted, halfClosed>>
          /\ UNCHANGED <<chanVars, ownerVars, threadVars, asked, aborted>>
        BY <1>4 DEF ForceCloseWithDelay, InUserCode, outVars
    <2>. QED  BY <1>0, <2>1, QuietStepKeeps
<1>5. CASE ReadSwitch
    <2>1. /\ M_state # "kConnecting" /\ Open /\ (callback # "none" \/ todo = {})
          /\ StartReadInLoop \/ StopReadInLoop
        BY <1>5 DEF ReadSwitch, InUserCode, AtRest
    <2>2. /\ UNCHANGED <<M_state, outVars, ownerVars, todo, callback, pc, asked, aborted>>
          /\ queue' = queue /\ overtaken' = overtaken /\ overtaken \in BOOLEAN
        BY <1>5 DEF ReadSwitch, threadVars, IInv, Types
    <2>. QED  BY <1>0, <2>1, <2>2, ReadSwitchKeeps
<1>6. CASE DelayExpires
    <2>1. /\ UNCHANGED <<todo, callback, wire, M_outputBuffer, accepted, halfClosed>>
          /\ UNCHANGED <<chanVars, ownerVars, threadVars, asked, aborted>>
          /\ M_state # "kConnecting"
        BY <1>6, <1>a DEF DelayExpires, outVars
    <2>2. CASE Open
        <3>1. M_state' = "kDisconnecting" /\ queue' = Append(queue, Functor("forceClose"))
            BY <1>6, <2>2 DEF DelayExpires
        <3>2. queue' \in Seq(Functors)
              /\ \A f : Has(queue', f) => Has(queue, f) \/ f = "forceClose"
            BY <1>b, <3>1
        <3>. QED  BY <1>0, <2>1, <2>2, <3>1, <3>2, QuietStepKeeps
    <2>3. CASE ~Open
        <3>1. UNCHANGED <<M_state, queue>>
            BY <1>6, <2>3 DEF DelayExpires
        <3>. QED  BY <1>0, <2>1, <3>1, QuietStepKeeps
    <2>. QED  BY <2>2, <2>3
<1>. QED  BY <1>1, <1>2, <1>3, <1>4, <1>5, <1>6 DEF UserStep

(* Every step keeps the invariant.                                         *)
LEMMA NextKeeps == IInv /\ [Next]_vars => IInv'
<1> SUFFICES ASSUME IInv, [Next]_vars PROVE IInv'
    OBVIOUS
<1>1. CASE Next
    <2>1. ASSUME NEW t \in Threads, ThreadStep(t) PROVE IInv'
        BY <2>1, TestKeeps, SetStateKeeps, QueueInLoopKeeps DEF ThreadStep
    <2>2. ASSUME NEW h \in Handlers, Poll(h) PROVE IInv'
        BY <2>2, PollKeeps
    <2>. QED  BY <1>1, <2>1, <2>2, DispatchKeeps, FunctorKeeps, UserKeeps, RemoveConnectionKeeps
        DEF Next
<1>2. CASE UNCHANGED vars
    <2>1. UNCHANGED <<M_state, interest, registered, wire, M_outputBuffer, accepted, halfClosed,
                      removing, removed, closes, destroyed, queue, todo, callback, pc,
                      overtaken, timer, aborted, asked>>
        BY <1>2 DEF vars, connVars, chanVars, outVars, ownerVars, threadVars
    <2>2. Types' /\ EstablishedOnce' /\ ReportIsFresh' /\ ShutdownIsAnnounced'
        BY <2>1 DEF IInv, Types, EstablishedOnce, Fresh, ReportIsFresh, ShutdownIsAnnounced,
                    Queued
    <2>3. WritingIffPending' /\ Ordered(wire \o M_outputBuffer, accepted)'
        BY <2>1 DEF IInv, WritingIffPending, Open
    <2>4. ~overtaken' => OwnerToldOnce' /\ QuietWhenDown'
        BY <2>1 DEF IInv, OwnerToldOnce, QuietWhenDown, Queued
    <2>. QED  BY <2>2, <2>3, <2>4 DEF IInv
<1>. QED  BY <1>1, <1>2
-----------------------------------------------------------------------------
(* The inductive invariant holds however the loop, the users' callbacks    *)
(* and the other threads interleave.                                       *)
THEOREM Invariance == Spec => []IInv
BY InitIInv, NextKeeps, PTL DEF Spec

(* sendInLoop()/handleWrite(): while the connection is open, the channel   *)
(* waits for POLLOUT exactly when output is pending.                       *)
THEOREM WritingIffPendingHolds == Spec => []WritingIffPending
<1>1. IInv => WritingIffPending
    BY DEF IInv
<1>. QED  BY <1>1, Invariance, PTL

(* sendInLoop(): the bytes on the wire and in the output buffer are in the *)
(* order in which they were accepted, none of them twice.                  *)
THEOREM BytesInOrderHolds == Spec => []BytesInOrder
<1>1. IInv => BytesInOrder
    <2> SUFFICES ASSUME IInv PROVE BytesInOrder
        OBVIOUS
    <2> DEFINE out == wire \o M_outputBuffer
    <2>1. out \in Seq(Nat) /\ DOMAIN out = 1 .. Len(out)
        BY ConcatProperties, LenProperties DEF IInv, Types
    <2>2. Ordered(out, accepted)
        BY DEF IInv
    <2>3. BytesInOrder <=> \A i, j \in DOMAIN out : i < j => out[i] < out[j]
        BY DEF BytesInOrder
    <2> HIDE DEF out
    <2>. QED  BY <2>1, <2>2, <2>3 DEF Ordered
<1>. QED  BY <1>1, Invariance, PTL

(* handleClose(): until a call is overtaken by the close, the owner is told*)
(* at most once, and the only assertion that can fail is that of a channel *)
(* registered again without interest.                                      *)
THEOREM ClosedOnceHolds == Spec => []ClosedOnce
<1>1. IInv => ClosedOnce
    <2> SUFFICES ASSUME IInv, ~overtaken
                 PROVE  /\ closes <= 1
                        /\ aborted => M_state = "kDisconnected" /\ registered /\ interest = {}
        BY DEF ClosedOnce
    <2>1. closes <= 1
        BY DEF IInv, OwnerToldOnce
    <2>2. aborted => M_state = "kDisconnected" /\ registered /\ interest = {}
        BY DEF IInv, QuietWhenDown
    <2>. QED  BY <2>1, <2>2
<1>. QED  BY <1>1, Invariance, PTL

(* connectDestroyed(): afterwards the poller does not know the channel and *)
(* no handler is left to run, unless a call was overtaken by the close.    *)
THEOREM DestroyedIsQuietHolds == Spec => []DestroyedIsQuiet
<1>1. IInv => DestroyedIsQuiet
    BY DEF IInv, DestroyedIsQuiet, OwnerToldOnce, QuietWhenDown
<1>. QED  BY <1>1, Invariance, PTL

(* shutdownInLoop(): until a call is overtaken by the close, no step half  *)
(* closes a socket whose connection still has output to send, or has not   *)
(* begun to close.                                                         *)
THEOREM HalfCloseAfterOutputHolds == Spec => HalfCloseAfterOutput
<1> DEFINE HalfClose == halfClosed' /\ ~halfClosed /\ ~overtaken' =>
               \/ M_state' = "kDisconnected"
               \/ M_state' = "kDisconnecting" /\ M_outputBuffer' = <<>>
<1>1. IInv /\ [Next]_vars => [HalfClose]_vars
    <2> SUFFICES ASSUME IInv, Next, halfClosed' # halfClosed, ~overtaken'
                 PROVE  \/ M_state' = "kDisconnected"
                        \/ M_state' = "kDisconnecting" /\ M_outputBuffer' = <<>>
        OBVIOUS
    <2>0. halfClosed \in BOOLEAN
        BY DEF IInv, Types
    <2>1. halfClosed' = halfClosed \/ ~(\E len \in 1 .. MaxBytes : Send(len))
        <3>1. \A len \in 1 .. MaxBytes : len \in 0 .. MaxBytes
            OBVIOUS
        <3>. QED  BY <3>1, SendKeepsChannel DEF Send
    <2>2. halfClosed' = halfClosed \/ ~RunSend
        BY RunsFacts, SendKeepsChannel DEF RunSend, FunctorNames, AllCalls
    <2>3. \/ RunShutdown \/ Shutdown
          \/ todo = {"write"} /\ HandleWrite /\ \E n \in 1 .. Len(M_outputBuffer) : WriteSucceeds(n)
        BY <2>1, <2>2
        DEF Next, DispatchStep, FunctorStep, UserStep, ThreadStep, DownReturns, CallbackReturns,
            CloseEvent, HandleRead, HandleWrite, RunForceClose, RunReadSwitch, RunUserCallback,
            ConnectEstablished, ConnectDestroyed, Poll, RemoveConnection, DelayExpires,
            ForceClose, ForceCloseWithDelay, ReadSwitch, Test, SetState, QueueInLoop,
            threadUnchanged, outVars
    <2>4. CASE RunShutdown
        <3>1. Queued("shutdown") /\ "write" \notin interest
            BY <2>0, <2>4, RunsFacts DEF RunShutdown, ShutdownInLoop, FunctorNames, AllCalls
        <3>2. M_state \in {"kDisconnecting", "kDisconnected"}
            BY <3>1 DEF IInv, ShutdownIsAnnounced
        <3>3. UNCHANGED <<M_state, M_outputBuffer, overtaken>>
            BY <2>4 DEF RunShutdown, ShutdownInLoop, connVars, threadVars
        <3>. QED  BY <3>1, <3>2, <3>3 DEF IInv, WritingIffPending, Open
    <2>5. CASE Shutdown
        <3>1. /\ "write" \notin interest /\ M_state = "kConnected" /\ M_state' = "kDisconnecting"
              /\ UNCHANGED <<M_outputBuffer, overtaken>>
            BY <2>0, <2>5 DEF Shutdown, ShutdownInLoop, threadVars
        <3>. QED  BY <3>1 DEF IInv, WritingIffPending, Open
    <2>6. CASE HandleWrite /\ \E n \in 1 .. Len(M_outputBuffer) : WriteSucceeds(n)
        <3>1. /\ M_outputBuffer' = <<>> /\ halfClosed' = (M_state = "kDisconnecting")
              /\ M_state' = M_state /\ ~halfClosed
            BY <2>6 DEF HandleWrite, WriteSucceeds, connVars
        <3>. QED  BY <3>1 DEF IInv, Types
    <2>. QED  BY <2>3, <2>4, <2>5, <2>6
<1>2. HalfCloseAfterOutput <=> [][HalfClose]_vars
    BY DEF HalfCloseAfterOutput
<1>. QED  BY <1>1, <1>2, Invariance, PTL DEF Spec

-----------------------------------------------------------------------------
(***************************************************************************)
(* Buffer.  Each method is shown to keep the indexes in order and to do to *)
(* the readable bytes what ByteQueue says; a byte of the content is found  *)
(* by its index (ContentIs), so that makeSpace() and the rest are compared *)
(* byte by byte and not by unfolding SubSeq.                               *)
(***************************************************************************)

(* The buffer keeps its indexes in order, and room for a header.           *)
WellFormed(b) ==
    /\ b \in [data : Seq(Byte), reader : Nat, writer : Nat]
    /\ b.reader <= b.writer /\ b.writer <= Len(b.data)
    /\ kCheapPrepend <= Len(b.data)

LEMMA ContentFacts ==
    ASSUME NEW b, WellFormed(b)
    PROVE  /\ Content(b) \in Seq(Byte) /\ Len(Content(b)) = readableBytes(b)
           /\ readableBytes(b) \in Nat /\ Len(b.data) \in Nat
           /\ \A i \in 1 .. readableBytes(b) : Content(b)[i] = b.data[b.reader + i]
  <1>1. /\ b.data \in Seq(Byte) /\ b.reader \in Nat /\ b.writer \in Nat /\ Len(b.data) \in Nat
        /\ b.reader <= b.writer /\ b.writer <= Len(b.data)
    BY DEF WellFormed
  <1>2. \A i \in b.reader + 1 .. b.writer : b.data[i] \in Byte
    BY <1>1, ElementOfSeq
  <1>3. b.reader + 1 \in Int /\ b.writer \in Int
    BY <1>1
  <1>4. /\ Content(b) \in Seq(Byte)
        /\ Len(Content(b)) = IF b.reader + 1 <= b.writer THEN b.writer - (b.reader + 1) + 1 ELSE 0
        /\ \A i \in 1 .. b.writer - (b.reader + 1) + 1 :
               Content(b)[i] = b.data[(b.reader + 1) + i - 1]
    BY <1>2, <1>3, SubSeqProperties DEF Content
  <1>5. readableBytes(b) \in Nat /\ readableBytes(b) = b.writer - (b.reader + 1) + 1
    BY <1>1 DEF readableBytes
  <1>6. Len(Content(b)) = readableBytes(b)
    BY <1>1, <1>4 DEF readableBytes
  <1>7. \A i \in 1 .. readableBytes(b) : Content(b)[i] = b.data[b.reader + i]
    <2>1. \A i \in 1 .. readableBytes(b) : (b.reader + 1) + i - 1 = b.reader + i
      BY <1>1, <1>5
    <2>. QED  BY <1>4, <1>5, <2>1
  <1>. QED  BY <1>1, <1>4, <1>5, <1>6, <1>7

(* A buffer that has the bytes of s after its reader index has s as its    *)
(* content.                                                                *)
LEMMA ContentIs ==
    ASSUME NEW b, WellFormed(b), NEW s \in Seq(Byte), Len(s) = readableBytes(b),
           \A i \in 1 .. Len(s) : b.data[b.reader + i] = s[i]
    PROVE  Content(b) = s
  <1>1. /\ Content(b) \in Seq(Byte) /\ Len(Content(b)) = Len(s)
        /\ \A i \in 1 .. Len(Content(b)) : Content(b)[i] = s[i]
    BY ContentFacts
  <1>. QED  BY <1>1, SeqEqual

LEMMA FunctionIsSeq ==
    ASSUME NEW n \in Nat, NEW S, NEW f \in [1 .. n -> S]
    PROVE  f \in Seq(S) /\ Len(f) = n
  OBVIOUS

LEMMA ZerosFacts ==
    ASSUME NEW n \in Nat
    PROVE  Zeros(n) \in Seq(Byte) /\ Len(Zeros(n)) = n
  <1>1. 0 \in Byte
    BY BufferAssumption DEF Byte
  <1>2. Zeros(n) \in [1 .. n -> Byte]
    BY <1>1 DEF Zeros
  <1>. QED  BY <1>2, FunctionIsSeq

(* new is data, but for bytes behind index.                                *)
Copied(new, data, bytes, index) ==
    /\ new \in Seq(Byte) /\ Len(new) = Len(data)
    /\ \A i \in 1 .. Len(bytes) : new[index + i] = bytes[i]
    /\ \A i \in 1 .. Len(data) : i <= index \/ i > index + Len(bytes) => new[i] = data[i]

LEMMA CopyFacts ==
    ASSUME NEW data \in Seq(Byte), NEW bytes \in Seq(Byte), NEW index \in Nat,
           index + Len(bytes) <= Len(data)
    PROVE  Copied(Copy(data, bytes, index), data, bytes, index)
  <1>. DEFINE new == Copy(data, bytes, index)
  <1>1. /\ Len(data) \in Nat /\ Len(bytes) \in Nat
        /\ \A i \in 1 .. Len(data) : data[i] \in Byte
        /\ \A i \in 1 .. Len(bytes) : bytes[i] \in Byte
    BY LenProperties, ElementOfSeq
  <1>2. \A i \in index + 1 .. index + Len(bytes) : i - index \in 1 .. Len(bytes)
    BY <1>1
  <1>3. /\ new \in [1 .. Len(data) -> Byte]
    BY <1>1, <1>2 DEF Copy
  <1>4. \A i \in 1 .. Len(data) :
            new[i] = IF i \in index + 1 .. index + Len(bytes) THEN bytes[i - index] ELSE data[i]
    BY DEF Copy
  <1>. HIDE DEF new
  <1>5. new \in Seq(Byte) /\ Len(new) = Len(data)
    BY <1>1, <1>3, FunctionIsSeq
  <1>6. \A i \in 1 .. Len(bytes) : /\ index + i \in 1 .. Len(data)
                                   /\ index + i \in index + 1 .. index + Len(bytes)
                                   /\ (index + i) - index = i
    BY <1>1
  <1>7. \A i \in 1 .. Len(bytes) : new[index + i] = bytes[i]
    BY <1>4, <1>6
  <1>8. \A i \in 1 .. Len(data) : i <= index \/ i > index + Len(bytes) => new[i] = data[i]
    BY <1>1, <1>4
  <1>. QED  BY <1>5, <1>7, <1>8 DEF Copied, new

(* The members of a buffer, and how far apart they are.                    *)
Numbers(b) ==
    /\ b.data \in Seq(Byte) /\ b.reader \in Nat /\ b.writer \in Nat
    /\ Len(b.data) \in Nat /\ kCheapPrepend \in Nat
    /\ b.reader <= b.writer /\ b.writer <= Len(b.data) /\ kCheapPrepend <= Len(b.data)
    /\ readableBytes(b) = b.writer - b.reader /\ readableBytes(b) \in Nat
    /\ writableBytes(b) = Len(b.data) - b.writer /\ writableBytes(b) \in Nat

LEMMA RecordFacts ==
    ASSUME NEW b, WellFormed(b)
    PROVE  Numbers(b)
  BY BufferAssumption DEF WellFormed, Numbers, readableBytes, writableBytes

(* makeSpace(): resize().                                                  *)
LEMMA ResizeKeeps ==
    ASSUME NEW b, WellFormed(b), NEW n \in Nat
    PROVE  LET e == [b EXCEPT !.data = @ \o Zeros(n)] IN
           /\ WellFormed(e) /\ Content(e) = Content(b)
           /\ e.reader = b.reader /\ e.writer = b.writer /\ Len(e.data) = Len(b.data) + n
  <1>. DEFINE e == [b EXCEPT !.data = @ \o Zeros(n)]
  <1>b. Numbers(b)
    BY RecordFacts
  <1>1. /\ b.data \o Zeros(n) \in Seq(Byte) /\ Len(b.data \o Zeros(n)) = Len(b.data) + n
        /\ \A i \in 1 .. Len(b.data) + n : (b.data \o Zeros(n))[i] =
               IF i <= Len(b.data) THEN b.data[i] ELSE Zeros(n)[i - Len(b.data)]
    <2>1. b.data \in Seq(Byte) /\ Zeros(n) \in Seq(Byte) /\ Len(Zeros(n)) = n
      BY <1>b, ZerosFacts DEF Numbers
    <2>2. /\ b.data \o Zeros(n) \in Seq(Byte)
          /\ Len(b.data \o Zeros(n)) = Len(b.data) + Len(Zeros(n))
          /\ \A i \in 1 .. Len(b.data) + Len(Zeros(n)) : (b.data \o Zeros(n))[i] =
                 IF i <= Len(b.data) THEN b.data[i] ELSE Zeros(n)[i - Len(b.data)]
      BY <2>1, ConcatProperties, Zenon
    <2>. QED  BY <2>1, <2>2
  <1>2. /\ e.reader = b.reader /\ e.writer = b.writer /\ e.data = b.data \o Zeros(n)
        /\ e \in [data : Seq(Byte), reader : Nat, writer : Nat]
    BY <1>1 DEF WellFormed
  <1>. HIDE DEF e
  <1>3. WellFormed(e)
    <2>1. e.reader <= e.writer /\ e.writer <= Len(e.data) /\ kCheapPrepend <= Len(e.data)
      BY <1>1, <1>2, <1>b DEF Numbers
    <2>. QED  BY <1>2, <2>1 DEF WellFormed
  <1>4. \A i \in 1 .. readableBytes(b) : e.data[e.reader + i] = Content(b)[i]
    <2>1. \A i \in 1 .. readableBytes(b) : /\ b.reader + i \in 1 .. Len(b.data) + n
                                           /\ b.reader + i <= Len(b.data)
      BY <1>b DEF Numbers
    <2>. QED  BY <1>1, <1>2, <2>1, ContentFacts
  <1>5. Content(b) \in Seq(Byte) /\ Len(Content(b)) = readableBytes(e)
    BY <1>2, ContentFacts DEF readableBytes
  <1>6. Content(e) = Content(b)
    BY <1>3, <1>4, <1>5, ContentFacts, ContentIs
  <1>. QED  BY <1>1, <1>2, <1>3, <1>6 DEF e

(* makeSpace(): the readable bytes are moved to the front.                 *)
LEMMA MoveKeeps ==
    ASSUME NEW b, WellFormed(b), kCheapPrepend <= b.reader
    PROVE  LET e == [data   |-> Copy(b.data, Content(b), kCheapPrepend),
                     reader |-> kCheapPrepend,
                     writer |-> kCheapPrepend + readableBytes(b)] IN
           WellFormed(e) /\ Content(e) = Content(b) /\ Len(e.data) = Len(b.data)
  <1>. DEFINE new == Copy(b.data, Content(b), kCheapPrepend)
              e == [data |-> new, reader |-> kCheapPrepend,
                    writer |-> kCheapPrepend + readableBytes(b)]
  <1>b. Numbers(b)
    BY RecordFacts
  <1>1. Content(b) \in Seq(Byte) /\ Len(Content(b)) = readableBytes(b)
    BY ContentFacts
  <1>2. kCheapPrepend + Len(Content(b)) <= Len(b.data)
    BY <1>1, <1>b DEF Numbers
  <1>3. /\ new \in Seq(Byte) /\ Len(new) = Len(b.data)
        /\ \A i \in 1 .. Len(Content(b)) : new[kCheapPrepend + i] = Content(b)[i]
    <2>1. b.data \in Seq(Byte) /\ kCheapPrepend \in Nat
      BY <1>b DEF Numbers
    <2>2. Copied(new, b.data, Content(b), kCheapPrepend)
      BY <1>1, <1>2, <2>1, CopyFacts
    <2>. HIDE DEF new
    <2>. QED  BY <2>2 DEF Copied
  <1>. HIDE DEF new
  <1>4. /\ kCheapPrepend \in Nat /\ kCheapPrepend + readableBytes(b) \in Nat
        /\ kCheapPrepend <= kCheapPrepend + readableBytes(b)
        /\ kCheapPrepend + readableBytes(b) <= Len(new) /\ kCheapPrepend <= Len(new)
        /\ kCheapPrepend + readableBytes(b) - kCheapPrepend = readableBytes(b)
    BY <1>1, <1>2, <1>3, <1>b DEF Numbers
  <1>5. WellFormed(e)
    BY <1>3, <1>4 DEF WellFormed
  <1>6. /\ Len(Content(b)) = readableBytes(e)
        /\ \A i \in 1 .. Len(Content(b)) : e.data[e.reader + i] = Content(b)[i]
    BY <1>1, <1>3, <1>4 DEF readableBytes
  <1>. HIDE DEF e
  <1>7. Content(e) = Content(b)
    BY <1>1, <1>5, <1>6, ContentIs
  <1>. QED  BY <1>3, <1>5, <1>7 DEF e, new

LEMMA EnsureWritableKeeps ==
    ASSUME NEW b, WellFormed(b), NEW len \in Nat
    PROVE  LET e == EnsureWritable(b, len) IN
           WellFormed(e) /\ Content(e) = Content(b) /\ writableBytes(e) >= len
  <1>. DEFINE e == EnsureWritable(b, len)
  <1>b. Numbers(b)
    BY RecordFacts
  <1>1. CASE writableBytes(b) >= len
    <2>1. e = b
      BY <1>1, <1>b DEF Numbers, EnsureWritable
    <2>. QED  BY <1>1, <2>1
  <1>2. CASE writableBytes(b) < len
    <2>0. e = MakeSpace(b, len)
      BY <1>2 DEF EnsureWritable
    <2>1. CASE writableBytes(b) + prependableBytes(b) < len + kCheapPrepend
      <3>. DEFINE n == b.writer + len - Len(b.data)
      <3>1. n \in Nat
        BY <1>2, <1>b DEF Numbers
      <3>2. e = [b EXCEPT !.data = @ \o Zeros(n)]
        BY <2>0, <2>1 DEF MakeSpace
      <3>. HIDE DEF n, e
      <3>3. /\ WellFormed(e) /\ Content(e) = Content(b)
            /\ e.writer = b.writer /\ Len(e.data) = Len(b.data) + n
        BY <3>1, <3>2, ResizeKeeps
      <3>4. writableBytes(e) = len
        <4>1. b.writer \in Nat /\ Len(b.data) \in Nat
          BY <1>b DEF Numbers
        <4>2. (Len(b.data) + n) - b.writer = len
          BY <4>1 DEF n
        <4>. QED  BY <3>3, <4>2 DEF writableBytes
      <3>. QED  BY <3>3, <3>4 DEF e
    <2>2. CASE ~(writableBytes(b) + prependableBytes(b) < len + kCheapPrepend)
      <3>1. kCheapPrepend <= b.reader
        BY <1>2, <2>2, <1>b DEF Numbers, prependableBytes
      <3>2. e = [data   |-> Copy(b.data, Content(b), kCheapPrepend),
                 reader |-> kCheapPrepend, writer |-> kCheapPrepend + readableBytes(b)]
        BY <2>0, <2>2 DEF MakeSpace
      <3>3. WellFormed(e) /\ Content(e) = Content(b) /\ Len(e.data) = Len(b.data)
        <4>. HIDE DEF e
        <4>. QED  BY <3>1, <3>2, MoveKeeps
      <3>4. e.writer = kCheapPrepend + readableBytes(b)
        <4>. HIDE DEF e
        <4>. QED  BY <3>2
      <3>5. writableBytes(e) >= len
        <4>1. Len(b.data) - (kCheapPrepend + readableBytes(b)) >= len
          <5>1. /\ (Len(b.data) - b.writer) + b.reader >= len + kCheapPrepend
                /\ Len(b.data) \in Nat /\ b.writer \in Nat /\ b.reader \in Nat
                /\ kCheapPrepend \in Nat
            BY <2>2, <1>b DEF Numbers, prependableBytes
          <5>2. Len(b.data) - (kCheapPrepend + (b.writer - b.reader)) >= len
            BY <5>1
          <5>. QED  BY <5>2, <1>b DEF Numbers
        <4>. QED  BY <3>3, <3>4, <4>1 DEF writableBytes
      <3>. QED  BY <3>3, <3>5
    <2>. QED  BY <2>1, <2>2
  <1>. QED  BY <1>1, <1>2, <1>b DEF Numbers

(* hasWritten() and append(): the bytes come behind the readable ones.     *)
LEMMA WriteAppends ==
    ASSUME NEW b, WellFormed(b), NEW bytes \in Seq(Byte), Len(bytes) <= writableBytes(b)
    PROVE  LET e == Write(b, bytes) IN
           /\ WellFormed(e) /\ Content(e) = Content(b) \o bytes
           /\ Len(e.data) = Len(b.data)
  <1>. DEFINE e == Write(b, bytes)
              new == Copy(b.data, bytes, b.writer)
              old == Content(b)
              s == old \o bytes
  <1>b. Numbers(b)
    BY RecordFacts
  <1>0. Len(bytes) \in Nat /\ b.writer + Len(bytes) <= Len(b.data)
    BY <1>b, LenProperties DEF Numbers
  <1>1. /\ new \in Seq(Byte) /\ Len(new) = Len(b.data)
        /\ \A i \in 1 .. Len(bytes) : new[b.writer + i] = bytes[i]
        /\ \A i \in 1 .. Len(b.data) : i <= b.writer => new[i] = b.data[i]
    <2>1. b.data \in Seq(Byte) /\ b.writer \in Nat
      BY <1>b DEF Numbers
    <2>2. Copied(new, b.data, bytes, b.writer)
      BY <1>0, <2>1, CopyFacts
    <2>. HIDE DEF new
    <2>. QED  BY <2>2 DEF Copied
  <1>2. /\ e.data = new /\ e.reader = b.reader /\ e.writer = b.writer + Len(bytes)
        /\ e \in [data : Seq(Byte), reader : Nat, writer : Nat]
    <2>1. b.writer + Len(bytes) \in Nat /\ b.reader \in Nat
      BY <1>0, <1>b DEF Numbers
    <2>2. e = [b EXCEPT !.data = new, !.writer = b.writer + Len(bytes)]
      BY DEF Write
    <2>. HIDE DEF new, e
    <2>. QED  BY <1>1, <2>1, <2>2 DEF WellFormed
  <1>3. old \in Seq(Byte) /\ Len(old) = readableBytes(b) /\ Len(old) \in Nat
    BY ContentFacts
  <1>4. /\ s \in Seq(Byte) /\ Len(s) = Len(old) + Len(bytes)
        /\ \A i \in 1 .. Len(old) + Len(bytes) :
               s[i] = IF i <= Len(old) THEN old[i] ELSE bytes[i - Len(old)]
    <2>. HIDE DEF old, e, new
    <2>. QED  BY <1>3, ConcatProperties, Zenon
  <1>5. WellFormed(e)
    <2>. HIDE DEF e, new
    <2>1. e.reader <= e.writer /\ e.writer <= Len(e.data) /\ kCheapPrepend <= Len(e.data)
      BY <1>0, <1>1, <1>2, <1>b DEF Numbers
    <2>. QED  BY <1>2, <2>1 DEF WellFormed
  <1>6. \A i \in 1 .. Len(old) : old[i] = b.data[b.reader + i]
    BY ContentFacts
  <1>. HIDE DEF e, new, old, s
  <1>7. Len(s) = readableBytes(e)
    BY <1>0, <1>2, <1>3, <1>4, <1>b DEF Numbers, readableBytes
  <1>8. ASSUME NEW i \in 1 .. Len(s) PROVE e.data[e.reader + i] = s[i]
    <2>1. CASE i <= Len(old)
      <3>1. /\ i \in 1 .. Len(old) /\ i \in 1 .. Len(old) + Len(bytes)
            /\ b.reader + i \in 1 .. Len(b.data) /\ b.reader + i <= b.writer
        <4>1. /\ Len(s) = Len(old) + Len(bytes) /\ Len(old) \in Nat /\ Len(bytes) \in Nat
              /\ Len(old) = b.writer - b.reader /\ b.writer \in Nat /\ b.reader \in Nat
              /\ b.writer <= Len(b.data) /\ Len(b.data) \in Nat
          BY <1>0, <1>3, <1>4, <1>b DEF Numbers
        <4>. QED  BY <2>1, <4>1
      <3>. QED  BY <1>1, <1>2, <1>4, <1>6, <2>1, <3>1
    <2>2. CASE i > Len(old)
      <3>1. /\ i \in 1 .. Len(old) + Len(bytes) /\ ~(i <= Len(old))
            /\ i - Len(old) \in 1 .. Len(bytes)
            /\ b.writer + (i - Len(old)) = b.reader + i
        <4>1. /\ Len(s) = Len(old) + Len(bytes) /\ Len(old) \in Nat /\ Len(bytes) \in Nat
              /\ Len(old) = b.writer - b.reader /\ b.writer \in Nat /\ b.reader \in Nat
          BY <1>0, <1>3, <1>4, <1>b DEF Numbers
        <4>2. i \in 1 .. Len(old) + Len(bytes) /\ ~(i <= Len(old))
          BY <2>2, <4>1
        <4>3. i - Len(old) \in 1 .. Len(bytes)
          BY <4>1, <4>2
        <4>4. b.writer + (i - Len(old)) = b.reader + i
          BY <4>1
        <4>. QED  BY <4>2, <4>3, <4>4
      <3>2. s[i] = bytes[i - Len(old)]
        BY <1>4, <3>1
      <3>3. new[b.writer + (i - Len(old))] = bytes[i - Len(old)]
        BY <1>1, <3>1
      <3>. QED  BY <1>2, <3>1, <3>2, <3>3
    <2>. QED  BY <1>3, <1>4, <2>1, <2>2
  <1>9. Content(e) = s
    BY <1>4, <1>5, <1>7, <1>8, ContentIs
  <1>. QED  BY <1>1, <1>2, <1>5, <1>9 DEF e, s, old

LEMMA AppendToAppends ==
    ASSUME NEW b, WellFormed(b), NEW bytes \in Seq(Byte)
    PROVE  LET e == AppendTo(b, bytes) IN
           WellFormed(e) /\ Content(e) = Content(b) \o bytes
  <1>. DEFINE w == EnsureWritable(b, Len(bytes))
  <1>1. Len(bytes) \in Nat
    BY LenProperties
  <1>2. WellFormed(w) /\ Content(w) = Content(b) /\ writableBytes(w) >= Len(bytes)
    BY <1>1, EnsureWritableKeeps
  <1>. HIDE DEF w
  <1>3. Len(bytes) <= writableBytes(w)
    BY <1>1, <1>2, RecordFacts DEF Numbers
  <1>4. WellFormed(Write(w, bytes)) /\ Content(Write(w, bytes)) = Content(w) \o bytes
    BY <1>2, <1>3, WriteAppends
  <1>. QED  BY <1>2, <1>4 DEF w, AppendTo

(* A sequence is its first k elements and the rest.                        *)
LEMMA Split ==
    ASSUME NEW s \in Seq(Byte), NEW k \in Nat, k <= Len(s)
    PROVE  /\ SubSeq(s, 1, k) \in Seq(Byte) /\ Len(SubSeq(s, 1, k)) = k
           /\ SubSeq(s, k + 1, Len(s)) \in Seq(Byte)
           /\ Len(SubSeq(s, k + 1, Len(s))) = Len(s) - k
           /\ \A i \in 1 .. k : SubSeq(s, 1, k)[i] = s[i]
           /\ \A i \in 1 .. Len(s) - k : SubSeq(s, k + 1, Len(s))[i] = s[k + i]
           /\ SubSeq(s, 1, k) \o SubSeq(s, k + 1, Len(s)) = s
  <1>0. Len(s) \in Nat /\ \A i \in 1 .. Len(s) : s[i] \in Byte
    BY LenProperties, ElementOfSeq
  <1>1. /\ SubSeq(s, 1, k) \in Seq(Byte)
        /\ Len(SubSeq(s, 1, k)) = IF 1 <= k THEN k - 1 + 1 ELSE 0
        /\ \A i \in 1 .. k - 1 + 1 : SubSeq(s, 1, k)[i] = s[1 + i - 1]
    <2>1. \A i \in 1 .. k : s[i] \in Byte
      BY <1>0
    <2>. QED  BY <2>1, SubSeqProperties
  <1>2. /\ SubSeq(s, k + 1, Len(s)) \in Seq(Byte)
        /\ Len(SubSeq(s, k + 1, Len(s))) =
               IF k + 1 <= Len(s) THEN Len(s) - (k + 1) + 1 ELSE 0
        /\ \A i \in 1 .. Len(s) - (k + 1) + 1 :
               SubSeq(s, k + 1, Len(s))[i] = s[(k + 1) + i - 1]
    <2>1. \A i \in k + 1 .. Len(s) : s[i] \in Byte
      BY <1>0
    <2>2. k + 1 \in Int /\ Len(s) \in Int
      BY <1>0
    <2>. QED  BY <2>1, <2>2, SubSeqProperties
  <1>3. SubSeq(s, 1, k) \o SubSeq(s, k + 1, Len(s)) = s
    <2>1. 1 \in 1 .. Len(s) + 1 /\ k \in 1 - 1 .. Len(s) /\ Len(s) \in k .. Len(s)
      BY <1>0
    <2>2. SubSeq(s, 1, k) \o SubSeq(s, k + 1, Len(s)) = SubSeq(s, 1, Len(s))
      BY <2>1, ConcatAdjacentSubSeq
    <2>. QED  BY <2>2, SubSeqFull
  <1>4. Len(SubSeq(s, 1, k)) = k /\ Len(SubSeq(s, k + 1, Len(s))) = Len(s) - k
    BY <1>0, <1>1, <1>2
  <1>5. \A i \in 1 .. k : SubSeq(s, 1, k)[i] = s[i]
    <2>1. \A i \in 1 .. k : i \in 1 .. k - 1 + 1 /\ 1 + i - 1 = i
      OBVIOUS
    <2>. QED  BY <1>1, <2>1
  <1>6. \A i \in 1 .. Len(s) - k : SubSeq(s, k + 1, Len(s))[i] = s[k + i]
    <2>1. \A i \in 1 .. Len(s) - k : i \in 1 .. Len(s) - (k + 1) + 1 /\ (k + 1) + i - 1 = k + i
      BY <1>0
    <2>. QED  BY <1>2, <2>1
  <1>. QED  BY <1>1, <1>2, <1>3, <1>4, <1>5, <1>6

(* readFd(): what readv() puts into extrabuf comes behind the rest.        *)
LEMMA ReceivedInAppends ==
    ASSUME NEW b, WellFormed(b), NEW bytes \in Seq(Byte)
    PROVE  LET e == ReceivedIn(b, bytes) IN
           WellFormed(e) /\ Content(e) = Content(b) \o bytes
  <1>. DEFINE n == writableBytes(b)
              first == SubSeq(bytes, 1, n)
              rest == SubSeq(bytes, n + 1, Len(bytes))
              w == Write(b, first)
  <1>b. Numbers(b)
    BY RecordFacts
  <1>0. n \in Nat /\ Len(bytes) \in Nat
    BY <1>b, LenProperties DEF Numbers
  <1>1. CASE Len(bytes) <= n
    BY <1>1, WriteAppends DEF ReceivedIn
  <1>2. CASE n <= Len(bytes) /\ ~(Len(bytes) <= n)
    <2>1. /\ first \in Seq(Byte) /\ Len(first) = n /\ rest \in Seq(Byte)
          /\ first \o rest = bytes
      BY <1>0, <1>2, Split
    <2>2. ReceivedIn(b, bytes) = AppendTo(w, rest)
      BY <1>2 DEF ReceivedIn
    <2>3. Len(first) <= writableBytes(b)
      BY <1>0, <2>1
    <2>. HIDE DEF first, rest
    <2>4. WellFormed(w) /\ Content(w) = Content(b) \o first
      BY <2>1, <2>3, WriteAppends
    <2>. HIDE DEF w
    <2>5. WellFormed(AppendTo(w, rest)) /\ Content(AppendTo(w, rest)) = Content(w) \o rest
      BY <2>1, <2>4, AppendToAppends
    <2>6. Content(b) \in Seq(Byte)
      BY ContentFacts
    <2>7. (Content(b) \o first) \o rest = Content(b) \o (first \o rest)
      <3>1. \A s, t, u \in Seq(Byte) : (s \o t) \o u = s \o (t \o u)
        BY ConcatAssociative, SMTT(30)
      <3>2. first \in Seq(Byte) /\ rest \in Seq(Byte)
        BY <2>1
      <3>. DEFINE old == Content(b)
      <3>3. old \in Seq(Byte)
        BY <2>6
      <3>. HIDE DEF old
      <3>4. (old \o first) \o rest = old \o (first \o rest)
        BY <3>1, <3>2, <3>3, Zenon
      <3>. QED  BY <3>4 DEF old
    <2>. QED  BY <2>1, <2>2, <2>4, <2>5, <2>7
  <1>. QED  BY <1>0, <1>1, <1>2

LEMMA PrependToPrepends ==
    ASSUME NEW b, WellFormed(b), NEW bytes \in Seq(Byte), Len(bytes) <= prependableBytes(b)
    PROVE  LET e == PrependTo(b, bytes) IN
           WellFormed(e) /\ Content(e) = bytes \o Content(b)
  <1>. DEFINE e == PrependTo(b, bytes)
              reader == b.reader - Len(bytes)
              new == Copy(b.data, bytes, reader)
              old == Content(b)
              s == bytes \o old
  <1>b. Numbers(b)
    BY RecordFacts
  <1>0. /\ Len(bytes) \in Nat /\ reader \in Nat /\ reader + Len(bytes) = b.reader
        /\ reader + Len(bytes) <= Len(b.data)
    BY <1>b, LenProperties DEF Numbers, prependableBytes
  <1>1. /\ new \in Seq(Byte) /\ Len(new) = Len(b.data)
        /\ \A i \in 1 .. Len(bytes) : new[reader + i] = bytes[i]
        /\ \A i \in 1 .. Len(b.data) : i > reader + Len(bytes) => new[i] = b.data[i]
    <2>1. b.data \in Seq(Byte)
      BY <1>b DEF Numbers
    <2>. HIDE DEF reader
    <2>2. Copied(new, b.data, bytes, reader)
      BY <1>0, <2>1, CopyFacts
    <2>. HIDE DEF new
    <2>. QED  BY <2>2 DEF Copied
  <1>2. /\ e.data = new /\ e.reader = reader /\ e.writer = b.writer
        /\ e \in [data : Seq(Byte), reader : Nat, writer : Nat]
    <2>2. e = [b EXCEPT !.reader = reader, !.data = new]
      BY DEF PrependTo
    <2>3. b.writer \in Nat
      BY <1>b DEF Numbers
    <2>. HIDE DEF new, e, reader
    <2>. QED  BY <1>0, <1>1, <2>2, <2>3 DEF WellFormed
  <1>3. old \in Seq(Byte) /\ Len(old) = readableBytes(b) /\ Len(old) \in Nat
    BY ContentFacts
  <1>4. /\ s \in Seq(Byte) /\ Len(s) = Len(bytes) + Len(old)
        /\ \A i \in 1 .. Len(bytes) + Len(old) :
               s[i] = IF i <= Len(bytes) THEN bytes[i] ELSE old[i - Len(bytes)]
    <2>. HIDE DEF old, e, new
    <2>. QED  BY <1>3, ConcatProperties, Zenon
  <1>5. \A i \in 1 .. Len(old) : old[i] = b.data[b.reader + i]
    BY ContentFacts
  <1>. HIDE DEF e, new, old, s, reader
  <1>6. WellFormed(e)
    <2>1. e.reader <= e.writer /\ e.writer <= Len(e.data) /\ kCheapPrepend <= Len(e.data)
      BY <1>0, <1>1, <1>2, <1>b DEF Numbers
    <2>. QED  BY <1>2, <2>1 DEF WellFormed
  <1>7. Len(s) = readableBytes(e)
    <2>1. Len(old) = b.writer - b.reader /\ b.writer \in Nat /\ b.reader \in Nat
      BY <1>3, <1>b DEF Numbers
    <2>2. Len(bytes) + Len(old) = b.writer - reader
      BY <1>0, <2>1
    <2>. QED  BY <1>2, <1>4, <2>2 DEF readableBytes
  <1>8. ASSUME NEW i \in 1 .. Len(s) PROVE e.data[e.reader + i] = s[i]
    <2>1. CASE i <= Len(bytes)
      <3>1. i \in 1 .. Len(bytes) /\ i \in 1 .. Len(bytes) + Len(old)
        BY <1>0, <1>3, <1>4, <2>1
      <3>. QED  BY <1>1, <1>2, <1>4, <2>1, <3>1
    <2>2. CASE i > Len(bytes)
      <3>1. /\ i \in 1 .. Len(bytes) + Len(old) /\ ~(i <= Len(bytes))
            /\ i - Len(bytes) \in 1 .. Len(old)
            /\ b.reader + (i - Len(bytes)) = reader + i
            /\ reader + i \in 1 .. Len(b.data) /\ reader + i > reader + Len(bytes)
        <4>1. /\ Len(s) = Len(bytes) + Len(old) /\ Len(bytes) \in Nat /\ Len(old) \in Nat
              /\ reader \in Nat /\ b.reader = reader + Len(bytes)
              /\ b.reader + Len(old) <= Len(b.data) /\ Len(b.data) \in Nat
          <5>1. /\ Len(old) = b.writer - b.reader /\ b.writer <= Len(b.data)
                /\ b.writer \in Nat /\ b.reader \in Nat /\ Len(b.data) \in Nat
            BY <1>3, <1>b DEF Numbers
          <5>2. b.reader + Len(old) <= Len(b.data)
            BY <5>1
          <5>. QED  BY <1>0, <1>3, <1>4, <5>1, <5>2
        <4>. QED  BY <2>2, <4>1
      <3>2. s[i] = old[i - Len(bytes)]
        BY <1>4, <3>1
      <3>3. old[i - Len(bytes)] = b.data[reader + i]
        BY <1>5, <3>1
      <3>4. new[reader + i] = b.data[reader + i]
        BY <1>1, <3>1
      <3>. QED  BY <1>2, <3>2, <3>3, <3>4
    <2>. QED  BY <1>0, <1>4, <2>1, <2>2
  <1>9. Content(e) = s
    BY <1>4, <1>6, <1>7, <1>8, ContentIs
  <1>. QED  BY <1>6, <1>9 DEF e, s, old

(* retrieve(): the bytes in front go, and no others, even where it sets    *)
(* the indexes back to the beginning.                                      *)
LEMMA RetrieveFromTakes ==
    ASSUME NEW b, WellFormed(b), NEW len \in Nat, len <= readableBytes(b)
    PROVE  LET e == RetrieveFrom(b, len) IN
           /\ WellFormed(e) /\ SubSeq(Content(b), 1, len) \in Seq(Byte)
           /\ Content(b) = SubSeq(Content(b), 1, len) \o Content(e)
  <1>. DEFINE e == RetrieveFrom(b, len)
              old == Content(b)
              rest == SubSeq(old, len + 1, Len(old))
  <1>b. Numbers(b)
    BY RecordFacts
  <1>1. /\ old \in Seq(Byte) /\ Len(old) = readableBytes(b) /\ Len(old) \in Nat
        /\ \A i \in 1 .. Len(old) : old[i] = b.data[b.reader + i]
    BY ContentFacts
  <1>. HIDE DEF old
  <1>2. len <= Len(old)
    BY <1>1
  <1>3. /\ SubSeq(old, 1, len) \in Seq(Byte) /\ rest \in Seq(Byte)
        /\ Len(rest) = Len(old) - len /\ \A i \in 1 .. Len(old) - len : rest[i] = old[len + i]
        /\ SubSeq(old, 1, len) \o rest = old
    BY <1>1, <1>2, Split
  <1>. HIDE DEF rest
  <1>4. WellFormed(e) /\ Content(e) = rest
    <2>1. CASE len < readableBytes(b)
      <3>1. b.reader + len \in Nat
        BY <1>b DEF Numbers
      <3>2. /\ e.data = b.data /\ e.reader = b.reader + len /\ e.writer = b.writer
            /\ e \in [data : Seq(Byte), reader : Nat, writer : Nat]
        BY <2>1, <3>1 DEF RetrieveFrom, WellFormed
      <3>. HIDE DEF e
      <3>3. e.reader <= e.writer /\ e.writer <= Len(e.data) /\ kCheapPrepend <= Len(e.data)
        BY <2>1, <3>2, <1>b DEF Numbers
      <3>4. WellFormed(e)
        BY <3>2, <3>3 DEF WellFormed
      <3>5. Len(rest) = readableBytes(e)
        <4>1. /\ Len(rest) = (b.writer - b.reader) - len
              /\ b.writer \in Nat /\ b.reader \in Nat
          BY <1>1, <1>3, <1>b DEF Numbers
        <4>2. Len(rest) = b.writer - (b.reader + len)
          BY <4>1
        <4>. QED  BY <3>2, <4>2 DEF readableBytes
      <3>6. \A i \in 1 .. Len(rest) : e.data[e.reader + i] = rest[i]
        <4>1. \A i \in 1 .. Len(rest) : /\ i \in 1 .. Len(old) - len /\ len + i \in 1 .. Len(old)
                                        /\ b.reader + (len + i) = e.reader + i
          <5>1. /\ Len(rest) = Len(old) - len /\ Len(old) \in Nat /\ b.reader \in Nat
                /\ e.reader = b.reader + len
            BY <1>1, <1>3, <3>2, <1>b DEF Numbers
          <5>. QED  BY <5>1
        <4>. QED  BY <1>1, <1>3, <3>2, <4>1
      <3>. QED  BY <1>3, <3>4, <3>5, <3>6, ContentIs
    <2>2. CASE ~(len < readableBytes(b))
      <3>1. /\ e.data = b.data /\ e.reader = kCheapPrepend /\ e.writer = kCheapPrepend
            /\ e \in [data : Seq(Byte), reader : Nat, writer : Nat]
        BY <2>2, <1>b DEF Numbers, RetrieveFrom, WellFormed
      <3>. HIDE DEF e
      <3>2. WellFormed(e)
        BY <3>1, <1>b DEF Numbers, WellFormed
      <3>3. Len(rest) = 0 /\ readableBytes(e) = 0
        <4>1. Len(rest) = 0
          BY <1>1, <1>3, <2>2, <1>b DEF Numbers
        <4>2. readableBytes(e) = 0
          BY <3>1, <1>b DEF Numbers, readableBytes
        <4>. QED  BY <4>1, <4>2
      <3>4. \A i \in 1 .. Len(rest) : e.data[e.reader + i] = rest[i]
        BY <3>3
      <3>. QED  BY <1>3, <3>2, <3>3, <3>4, ContentIs
    <2>. QED  BY <2>1, <2>2
  <1>. QED  BY <1>3, <1>4 DEF old

LEMMA UnwriteTakesBack ==
    ASSUME NEW b, WellFormed(b), NEW len \in Nat, len <= readableBytes(b)
    PROVE  LET e == [b EXCEPT !.writer = @ - len]
               back == SubSeq(Content(b), readableBytes(b) - len + 1, readableBytes(b)) IN
           WellFormed(e) /\ back \in Seq(Byte) /\ Content(b) = Content(e) \o back
  <1>. DEFINE e == [b EXCEPT !.writer = @ - len]
              k == readableBytes(b) - len
              old == Content(b)
              first == SubSeq(old, 1, k)
              back == SubSeq(old, k + 1, Len(old))
  <1>b. Numbers(b)
    BY RecordFacts
  <1>1. /\ old \in Seq(Byte) /\ Len(old) = readableBytes(b) /\ Len(old) \in Nat
        /\ \A i \in 1 .. Len(old) : old[i] = b.data[b.reader + i]
    BY ContentFacts
  <1>2. k \in Nat /\ k <= Len(old) /\ b.writer - len \in Nat
    <2>1. /\ readableBytes(b) \in Nat /\ readableBytes(b) = b.writer - b.reader
          /\ b.writer \in Nat /\ b.reader \in Nat
      BY <1>b DEF Numbers
    <2>2. k \in Nat /\ k <= Len(old)
      BY <1>1, <2>1
    <2>3. b.writer - len \in Nat
      BY <2>1
    <2>. QED  BY <2>2, <2>3
  <1>. HIDE DEF old, k
  <1>3. /\ first \in Seq(Byte) /\ Len(first) = k /\ \A i \in 1 .. k : first[i] = old[i]
        /\ back \in Seq(Byte) /\ first \o back = old
    BY <1>1, <1>2, Split
  <1>4. /\ e.data = b.data /\ e.reader = b.reader /\ e.writer = b.writer - len
        /\ e \in [data : Seq(Byte), reader : Nat, writer : Nat]
    BY <1>2 DEF WellFormed
  <1>. HIDE DEF e, first, back
  <1>5. WellFormed(e)
    <2>1. e.reader <= e.writer /\ e.writer <= Len(e.data) /\ kCheapPrepend <= Len(e.data)
      BY <1>4, <1>b DEF Numbers
    <2>. QED  BY <1>4, <2>1 DEF WellFormed
  <1>6. Len(first) = readableBytes(e)
    <2>1. k = (b.writer - len) - b.reader
      BY <1>b DEF Numbers, k
    <2>. QED  BY <1>3, <1>4, <2>1 DEF readableBytes
  <1>7. \A i \in 1 .. Len(first) : e.data[e.reader + i] = first[i]
    <2>1. \A i \in 1 .. Len(first) : i \in 1 .. k /\ i \in 1 .. Len(old)
      BY <1>1, <1>2, <1>3
    <2>. QED  BY <1>1, <1>3, <1>4, <2>1
  <1>8. Content(e) = first
    BY <1>3, <1>5, <1>6, <1>7, ContentIs
  <1>. QED  BY <1>1, <1>3, <1>5, <1>8 DEF e, back, old, k

LEMMA NewBufferFacts ==
    WellFormed(NewBuffer(kInitialSize)) /\ Content(NewBuffer(kInitialSize)) = <<>>
  <1>. DEFINE b == NewBuffer(kInitialSize)
  <1>0. kCheapPrepend \in Nat /\ kInitialSize \in Nat /\ kCheapPrepend + kInitialSize \in Nat
    BY BufferAssumption
  <1>1. Zeros(kCheapPrepend + kInitialSize) \in Seq(Byte)
        /\ Len(Zeros(kCheapPrepend + kInitialSize)) = kCheapPrepend + kInitialSize
    BY <1>0, ZerosFacts
  <1>2. /\ b.data = Zeros(kCheapPrepend + kInitialSize)
        /\ b.reader = kCheapPrepend /\ b.writer = kCheapPrepend
        /\ b \in [data : Seq(Byte), reader : Nat, writer : Nat]
    BY <1>0, <1>1 DEF NewBuffer
  <1>. HIDE DEF b
  <1>3. WellFormed(b)
    BY <1>0, <1>1, <1>2 DEF WellFormed
  <1>4. readableBytes(b) = 0
    BY <1>0, <1>2 DEF readableBytes
  <1>5. Content(b) \in Seq(Byte) /\ Len(Content(b)) = 0
    BY <1>3, <1>4, ContentFacts
  <1>. QED  BY <1>3, <1>5, EmptySeq DEF b

(* shrink() copies the readable bytes to a new buffer.                     *)
LEMMA ShrinkKeeps ==
    ASSUME NEW b, WellFormed(b), NEW reserve \in Nat
    PROVE  LET e == AppendTo(EnsureWritable(NewBuffer(kInitialSize), readableBytes(b) + reserve),
                             Content(b)) IN
           WellFormed(e) /\ Content(e) = Content(b)
  <1>. DEFINE w == EnsureWritable(NewBuffer(kInitialSize), readableBytes(b) + reserve)
  <1>1. readableBytes(b) + reserve \in Nat /\ Content(b) \in Seq(Byte)
    BY ContentFacts
  <1>2. WellFormed(w) /\ Content(w) = <<>>
    BY <1>1, NewBufferFacts, EnsureWritableKeeps
  <1>. HIDE DEF w
  <1>3. WellFormed(AppendTo(w, Content(b))) /\ Content(AppendTo(w, Content(b))) = <<>> \o Content(b)
    BY <1>1, <1>2, AppendToAppends
  <1>4. <<>> \o Content(b) = Content(b)
    BY <1>1, ConcatEmptySeq
  <1>. QED  BY <1>3, <1>4 DEF w

(* The bytes and the integers of calls are sequences of bytes.             *)
LEMMA Arguments ==
    /\ Data \subseteq Seq(Byte)
    /\ \A int \in Ints(Int16) : int \in Seq(Byte) /\ Len(int) = Int16
    /\ \A int \in Ints(Int32) : int \in Seq(Byte) /\ Len(int) = Int32
    /\ \A int \in Ints(Int64) : int \in Seq(Byte) /\ Len(int) = Int64
    /\ Int16 \in Nat /\ Int32 \in Nat /\ Int64 \in Nat
    /\ Int16 <= Int32 /\ Int32 <= Int64
  <1>1. Int16 \in Nat /\ Int32 \in Nat /\ Int64 \in Nat /\ Int16 <= Int32 /\ Int32 <= Int64
    BY BufferAssumption DEF Int16, Int32, Int64
  <1>2. Data \subseteq Seq(Byte)
    <2>1. Data = UNION {[1 .. m -> Byte] : m \in 0 .. MaxData}
      BY DEF Data, BoundedSeq, SeqOf
    <2>2. ASSUME NEW m \in 0 .. MaxData, NEW f \in [1 .. m -> Byte] PROVE f \in Seq(Byte)
      BY FunctionIsSeq
    <2>. QED  BY <2>1, <2>2
  <1>3. \A n \in Nat : \A int \in Ints(n) : int \in Seq(Byte) /\ Len(int) = n
    BY FunctionIsSeq DEF Ints
  <1>. QED  BY <1>1, <1>2, <1>3

LEMMA Int16InMemoryFacts ==
    ASSUME NEW int \in Ints(Int16)
    PROVE  Int16InMemory(int) \in Seq(Byte) /\ Len(Int16InMemory(int)) = Int32
  <1>. DEFINE n == Int32 - Int16
  <1>1. n \in Nat /\ int \in Seq(Byte) /\ Len(int) + n = Int32
    BY Arguments
  <1>. HIDE DEF n
  <1>2. Zeros(n) \in Seq(Byte) /\ Len(Zeros(n)) = n
    BY <1>1, ZerosFacts
  <1>3. int \o Zeros(n) \in Seq(Byte) /\ Len(int \o Zeros(n)) = Len(int) + Len(Zeros(n))
    BY <1>1, <1>2, ConcatProperties, Zenon
  <1>. QED  BY <1>1, <1>2, <1>3 DEF Int16InMemory, n

(* The integer that readInt16() and its like return.                       *)
LEMMA ReadIntType ==
    ASSUME NEW b, WellFormed(b), NEW size \in {Int16, Int32, Int64}, size <= readableBytes(b)
    PROVE  Widened(PeekInt(b, size)) \in Seq(Byte)
  <1>. DEFINE int == SubSeq(Content(b), 1, size)
              low == SubSeq(int, Int32 + 1, Int64)
              peeked == PeekInt(b, size)
  <1>1. size \in Nat /\ size <= Int64
    BY Arguments
  <1>2. int \in Seq(Byte) /\ Len(int) = size
    BY <1>1, ContentFacts, Split
  <1>. HIDE DEF int
  <1>3. peeked \in Seq(Byte) /\ Len(peeked) <= Int64 /\ Len(peeked) \in Nat
    <2>1. CASE size = Int64
      <3>1. low \in Seq(Byte) /\ Len(low) = Int64 - Int32
        <4>1. Len(int) = Int64 /\ Int32 \in Nat /\ Int32 <= Len(int)
          BY <1>2, <2>1, Arguments
        <4>. QED  BY <1>2, <4>1, Split
      <3>2. peeked = low
        BY <2>1 DEF PeekInt, int
      <3>. QED  BY <3>1, <3>2, Arguments
    <2>2. CASE size # Int64
      <3>1. peeked = int
        BY <2>2 DEF PeekInt, int
      <3>. QED  BY <1>1, <1>2, <3>1
    <2>. QED  BY <2>1, <2>2
  <1>. HIDE DEF peeked
  <1>. DEFINE fill == IF peeked # <<>> /\ peeked[1] >= Base \div 2 THEN Base - 1 ELSE 0
              n == Int64 - Len(peeked)
              front == [i \in 1 .. n |-> fill]
  <1>4. fill \in Byte
    BY BufferAssumption DEF Byte
  <1>5. n \in Nat
    BY <1>3, Arguments
  <1>. HIDE DEF fill, n
  <1>6. front \in Seq(Byte)
    <2>1. front \in [1 .. n -> Byte]
      BY <1>4
    <2>. QED  BY <1>5, <2>1, FunctionIsSeq
  <1>. HIDE DEF front
  <1>7. front \o peeked \in Seq(Byte)
    BY <1>3, <1>6, ConcatProperties, Zenon
  <1>. QED  BY <1>7 DEF Widened, front, fill, n, peeked

-----------------------------------------------------------------------------
(* The refinement: each call of a method is one operation of ByteQueue.    *)

(* A call is well typed, and does to the content what ByteQueue says.      *)
Conforms ==
    /\ WellFormed(buffer')
    /\ call' \in [op : {"append", "prepend", "retrieve", "unwrite", "rearrange"},
                  bytes : Seq(Byte), int : Seq(Byte)]
    /\ Abstract!Next

LEMMA CallConforms ==
    ASSUME NEW op, NEW bytes, NEW int, NEW b, Call(op, bytes, int, b),
           WellFormed(b), bytes \in Seq(Byte), int \in Seq(Byte),
           \/ op = "append"    /\ Content(b) = Content(buffer) \o bytes
           \/ op = "prepend"   /\ Content(b) = bytes \o Content(buffer)
           \/ op = "retrieve"  /\ Content(buffer) = bytes \o Content(b)
           \/ op = "unwrite"   /\ Content(buffer) = Content(b) \o bytes
           \/ op = "rearrange" /\ Content(b) = Content(buffer)
    PROVE  Conforms
  <1>1. /\ buffer' = b /\ call'.op = op /\ call'.bytes = bytes /\ Content(buffer)' = Content(b)
        /\ call' \in [op : {"append", "prepend", "retrieve", "unwrite", "rearrange"},
                      bytes : Seq(Byte), int : Seq(Byte)]
    BY DEF Call, Content
  <1>2. Abstract!Next
    BY <1>1 DEF Abstract!Next, Abstract!Append_, Abstract!Prepend, Abstract!Retrieve,
                Abstract!Unwrite, Abstract!Rearrange
  <1>. QED  BY <1>1, <1>2 DEF Conforms

LEMMA StepConforms ==
    ASSUME WellFormed(buffer), BufferNext
    PROVE  Conforms
  <1>0. NoInt \in Seq(Byte) /\ <<>> \in Seq(Byte)
    BY EmptySeq DEF NoInt
  <1>a. \A len \in 0 .. MaxSize : len \in Nat
    BY BufferAssumption
  <1>1. ASSUME NEW bytes \in Data, Append_(bytes) PROVE Conforms
    BY <1>0, <1>1, Arguments, AppendToAppends, CallConforms DEF Append_
  <1>2. ASSUME NEW bytes \in Data, HasWritten(bytes) PROVE Conforms
    BY <1>0, <1>2, Arguments, WriteAppends, CallConforms DEF HasWritten
  <1>3. ASSUME NEW bytes \in Data, ReadFd(bytes) PROVE Conforms
    BY <1>0, <1>3, Arguments, ReceivedInAppends, CallConforms DEF ReadFd
  <1>4. ASSUME NEW bytes \in Data, Prepend(bytes) PROVE Conforms
    BY <1>0, <1>4, Arguments, PrependToPrepends, CallConforms DEF Prepend
  <1>5. ASSUME NEW len \in 0 .. MaxSize, EnsureWritableBytes(len) PROVE Conforms
    <2>1. /\ WellFormed(EnsureWritable(buffer, len))
          /\ Content(EnsureWritable(buffer, len)) = Content(buffer)
      BY <1>a, EnsureWritableKeeps
    <2>. QED  BY <1>0, <1>5, <2>1, CallConforms DEF EnsureWritableBytes
  <1>6. ASSUME NEW len \in 0 .. MaxSize, Retrieve(len) PROVE Conforms
    <2>1. /\ WellFormed(RetrieveFrom(buffer, len)) /\ SubSeq(Content(buffer), 1, len) \in Seq(Byte)
          /\ Content(buffer) =
                 SubSeq(Content(buffer), 1, len) \o Content(RetrieveFrom(buffer, len))
      BY <1>a, <1>6, RetrieveFromTakes DEF Retrieve
    <2>. QED  BY <1>0, <1>6, <2>1, CallConforms DEF Retrieve
  <1>7. ASSUME NEW len \in 0 .. MaxSize, Unwrite(len) PROVE Conforms
    <2>. DEFINE e == [buffer EXCEPT !.writer = @ - len]
                back == SubSeq(Content(buffer), readableBytes(buffer) - len + 1,
                               readableBytes(buffer))
    <2>1. WellFormed(e) /\ back \in Seq(Byte) /\ Content(buffer) = Content(e) \o back
      BY <1>a, <1>7, UnwriteTakesBack DEF Unwrite
    <2>2. Call("unwrite", back, NoInt, e)
      BY <1>7 DEF Unwrite
    <2>. HIDE DEF e, back
    <2>. QED  BY <1>0, <2>1, <2>2, CallConforms
  <1>8. ASSUME NEW len \in 0 .. MaxSize, Shrink(len) PROVE Conforms
    <2>. DEFINE w == EnsureWritable(NewBuffer(kInitialSize), readableBytes(buffer) + len)
                e == AppendTo(w, Content(buffer))
    <2>1. WellFormed(e) /\ Content(e) = Content(buffer)
      BY <1>a, ShrinkKeeps
    <2>2. Call("rearrange", <<>>, NoInt, e)
      BY <1>8 DEF Shrink
    <2>. HIDE DEF e
    <2>. QED  BY <1>0, <2>1, <2>2, CallConforms
  <1>9. CASE RetrieveAll
    <2>1. readableBytes(buffer) \in Nat /\ Content(buffer) \in Seq(Byte)
          /\ Len(Content(buffer)) = readableBytes(buffer)
      BY ContentFacts
    <2>2. SubSeq(Content(buffer), 1, readableBytes(buffer)) = Content(buffer)
      BY <2>1, SubSeqFull
    <2>3. /\ WellFormed(RetrieveFrom(buffer, readableBytes(buffer)))
          /\ Content(buffer) =
                 Content(buffer) \o Content(RetrieveFrom(buffer, readableBytes(buffer)))
      BY <2>1, <2>2, RetrieveFromTakes
    <2>. QED  BY <1>0, <1>9, <2>1, <2>3, CallConforms DEF RetrieveAll
  <1>10. ASSUME NEW size \in {Int16, Int32, Int64}, NEW int \in Ints(size), AppendInt(int)
         PROVE  Conforms
    <2>1. int \in Seq(Byte)
      BY Arguments
    <2>. QED  BY <1>10, <2>1, AppendToAppends, CallConforms DEF AppendInt
  <1>11. ASSUME NEW size \in {Int16, Int32, Int64}, ReadInt(size) PROVE Conforms
    <2>1. size \in Nat /\ size <= readableBytes(buffer)
      BY <1>11, Arguments DEF ReadInt
    <2>2. Widened(PeekInt(buffer, size)) \in Seq(Byte)
      BY <2>1, ReadIntType
    <2>3. /\ WellFormed(RetrieveFrom(buffer, size))
          /\ SubSeq(Content(buffer), 1, size) \in Seq(Byte)
          /\ Content(buffer) =
                 SubSeq(Content(buffer), 1, size) \o Content(RetrieveFrom(buffer, size))
      BY <2>1, RetrieveFromTakes
    <2>. QED  BY <1>11, <2>2, <2>3, CallConforms DEF ReadInt
  <1>12. ASSUME NEW int \in Ints(Int32), PrependInt32(int) PROVE Conforms
    <2>1. int \in Seq(Byte) /\ Len(int) <= prependableBytes(buffer)
      BY <1>12, Arguments DEF PrependInt32
    <2>. QED  BY <1>12, <2>1, PrependToPrepends, CallConforms DEF PrependInt32
  <1>13. ASSUME NEW int \in Ints(Int16), PrependInt16(int) PROVE Conforms
    <2>. DEFINE bytes == Int16InMemory(int)
    <2>1. int \in Seq(Byte)
      BY Arguments
    <2>2. bytes \in Seq(Byte) /\ Len(bytes) <= prependableBytes(buffer)
      BY <1>13, Int16InMemoryFacts DEF PrependInt16
    <2>3. Call("prepend", bytes, int, PrependTo(buffer, bytes))
      BY <1>13 DEF PrependInt16
    <2>. HIDE DEF bytes
    <2>. QED  BY <2>1, <2>2, <2>3, PrependToPrepends, CallConforms
  <1>. QED
    BY <1>1, <1>2, <1>3, <1>4, <1>5, <1>6, <1>7, <1>8, <1>9, <1>10, <1>11, <1>12, <1>13
       DEF BufferNext

CallType ==
    call \in [op : {"append", "prepend", "retrieve", "unwrite", "rearrange"},
              bytes : Seq(Byte), int : Seq(Byte)]

BufferInv == WellFormed(buffer) /\ CallType

LEMMA InitBuffer == BufferInit => BufferInv /\ Abstract!Init
  <1>1. BufferInit => WellFormed(buffer) /\ Content(buffer) = <<>>
    BY NewBufferFacts DEF BufferInit
  <1>2. BufferInit => CallType
    BY EmptySeq DEF BufferInit, CallType, NoInt
  <1>. QED  BY <1>1, <1>2 DEF BufferInv, Abstract!Init

LEMMA StepBuffer ==
    BufferInv /\ [BufferNext]_bufferVars =>
        BufferInv' /\ [Abstract!Next]_<<Content(buffer), call>>
  <1>. SUFFICES ASSUME BufferInv, [BufferNext]_bufferVars
                PROVE  BufferInv' /\ [Abstract!Next]_<<Content(buffer), call>>
    OBVIOUS
  <1>1. CASE BufferNext
    <2>1. Conforms
      BY <1>1, StepConforms DEF BufferInv
    <2>. QED  BY <2>1 DEF Conforms, BufferInv, CallType, WellFormed
  <1>2. CASE UNCHANGED bufferVars
    BY <1>2 DEF bufferVars, BufferInv, CallType, WellFormed, Content
  <1>. QED  BY <1>1, <1>2

(* Buffer: 0 <= M_readerIndex <= M_writerIndex <= size() after any calls,  *)
(* and the vector never gets too small for the place of the header, to     *)
(* which retrieve() sets the indexes back.                                 *)
THEOREM BufferInvariance == BufferSpec => []BufferInv
  BY InitBuffer, StepBuffer, PTL DEF BufferSpec

(* Buffer: its members and the results of its methods keep their types.    *)
THEOREM BufferTypeCorrect == BufferSpec => []BufferTypeOK
  <1>1. BufferInv => BufferTypeOK
    BY DEF BufferInv, WellFormed, CallType, BufferTypeOK
  <1>. QED  BY <1>1, BufferInvariance, PTL

(* makeSpace(), shrink(), readFd(), retrieve() and the rest: every method  *)
(* does to the readable bytes what ByteQueue says, for all sizes of the    *)
(* buffer, of the header and of the data.                                  *)
THEOREM BufferRefinement == BufferSpec => ImplementsByteQueue
  <1>1. BufferSpec => [](BufferInv)
    BY BufferInvariance
  <1>. QED
    BY <1>1, InitBuffer, StepBuffer, PTL
       DEF BufferSpec, ImplementsByteQueue, Abstract!Spec

=============================================================================
