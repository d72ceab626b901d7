-------------------------- MODULE PollPollerProofs --------------------------
(***************************************************************************)
(* Proofs about PollPoller, for any number of channels and descriptors.    *)
(*                                                                         *)
(* IndexConsistent speaks of the channels that are alive and registered.   *)
(* The inductive invariant starts from the descriptors instead: M_channels *)
(* leads from a descriptor to its channel, the channel's index leads to an *)
(* entry of M_pollfds, and the entry leads back to the descriptor; and     *)
(* each entry closes the same circle.  That the circles are closed makes   *)
(* positions unique, which is what swap-with-last needs.                   *)
(***************************************************************************)
EXTENDS PollPoller, SequenceTheorems, TLAPS

Registered(fd) == M_channels[fd] # NoChannel

ChannelKnowsFd == \A fd \in Fds : Registered(fd) => M_fd[M_channels[fd]] = fd

ChannelKnowsEntry ==
    \A fd \in Fds : Registered(fd) =>
        LET c == M_channels[fd] IN
        /\ M_index[c] \in 0 .. Len(M_pollfds) - 1
        /\ DescriptorOf(M_pollfds[M_index[c] + 1]) = fd
        /\ M_pollfds[M_index[c] + 1].events = M_events[c]

EntryKnowsChannel ==
    \A i \in 1 .. Len(M_pollfds) :
        /\ Registered(DescriptorOf(M_pollfds[i]))
        /\ M_index[M_channels[DescriptorOf(M_pollfds[i])]] = i - 1

TablesAgree == ChannelKnowsFd /\ ChannelKnowsEntry /\ EntryKnowsChannel

IInv == TypeOK /\ TablesAgree

-----------------------------------------------------------------------------
USE ChannelAssumption

(* An index of the code and its position in the sequence.                  *)
LEMMA NextPosition ==
    ASSUME NEW n \in Nat, NEW i \in 0 .. n - 1
    PROVE  i + 1 \in 1 .. n /\ i = (i + 1) - 1
OBVIOUS

(* enableReading() ... disableAll() ask for a subset of the events.        *)
LEMMA EventsAfterType ==
    ASSUME NEW call \in Calls, NEW events \in SUBSET Interest
    PROVE  EventsAfter(call, events) \in SUBSET Interest
BY DEF Calls, EventsAfter, Interest

(* fd and -fd-1 both stand for fd, and for no other descriptor.            *)
LEMMA DescriptorFacts ==
    ASSUME NEW pfd \in PollFd
    PROVE  /\ DescriptorOf(pfd) \in Fds
           /\ \A fd \in Fds :
                (DescriptorOf(pfd) = fd) <=> (pfd.fd \in {fd, Negated(fd)})
           /\ pfd.fd >= 0 => DescriptorOf(pfd) = pfd.fd
<1>1. CASE pfd.fd \in Fds
    <2>1. pfd.fd \in Nat /\ ~(pfd.fd < 0)
        <3>1. \A fd \in Fds : fd \in Nat /\ ~(fd < 0)
            OBVIOUS
        <3>. QED  BY <1>1, <3>1, Zenon
    <2>2. DescriptorOf(pfd) = pfd.fd
        BY <2>1, Zenon DEF DescriptorOf
    <2>. QED  BY <1>1, <2>1, <2>2 DEF Negated
<1>2. ASSUME NEW fd \in Fds, pfd.fd = Negated(fd) PROVE DescriptorOf(pfd) = fd
    <2>1. fd \in Nat /\ pfd.fd < 0 /\ Negated(pfd.fd) = fd
        BY <1>2 DEF Negated
    <2>. QED  BY <2>1 DEF DescriptorOf
<1>3. \A fd, g \in Fds : (Negated(fd) = Negated(g) => fd = g) /\ ~(Negated(fd) >= 0)
    BY DEF Negated
<1>4. pfd.fd \in Fds \/ \E fd \in Fds : pfd.fd = Negated(fd)
    BY DEF PollFd
<1>. QED  BY <1>1, <1>2, <1>3, <1>4

(* update() with new interest gives the channel a legal set of events.     *)
LEMMA SetEventsFacts ==
    ASSUME TypeOK, NEW c \in Channels, NEW call \in Calls, SetEvents(c, call)
    PROVE  /\ M_fd[c] \in Fds
           /\ M_events' \in [Channels -> SUBSET Interest]
           /\ \A d \in Channels : d # c => M_events'[d] = M_events[d]
           /\ M_fd' = M_fd
<1>1. EventsAfter(call, M_events[c]) \in SUBSET Interest
    BY EventsAfterType DEF TypeOK, ChannelTypeOK
<1>. QED  BY <1>1 DEF SetEvents, Alive, TypeOK, ChannelTypeOK

(* SwapWithLastAndPop(idx), seen as a sequence: one entry shorter, the     *)
(* last one at idx.                                                        *)
LEMMA SwapFacts ==
    ASSUME M_pollfds \in Seq(PollFd), NEW idx \in 0 .. Len(M_pollfds) - 1,
           SwapWithLastAndPop(idx)
    PROVE  /\ M_pollfds' \in Seq(PollFd)
           /\ Len(M_pollfds') = Len(M_pollfds) - 1
           /\ \A i \in 1 .. Len(M_pollfds) - 1 :
                 M_pollfds'[i] = IF i = idx + 1 THEN M_pollfds[Len(M_pollfds)]
                                                ELSE M_pollfds[i]
<1> DEFINE n == Len(M_pollfds)
           swapped == [M_pollfds EXCEPT ![idx + 1] = M_pollfds[n]]
<1>1. n \in Nat \ {0} /\ idx + 1 \in 1 .. n /\ M_pollfds[n] \in PollFd
    BY LenProperties, ElementOfSeq
<1>2. /\ swapped \in Seq(PollFd) /\ Len(swapped) = n
      /\ \A i \in 1 .. n : swapped[i] = IF i = idx + 1 THEN M_pollfds[n] ELSE M_pollfds[i]
    BY <1>1, ExceptSeq
<1>3. \A i \in 1 .. n - 1 : swapped[i] \in PollFd
    BY <1>1, <1>2, ElementOfSeq
<1>4. M_pollfds' = SubSeq(swapped, 1, n - 1)
    BY DEF SwapWithLastAndPop
<1> HIDE DEF swapped, n
<1>5. /\ SubSeq(swapped, 1, n - 1) \in Seq(PollFd)
      /\ Len(SubSeq(swapped, 1, n - 1)) = n - 1
      /\ \A i \in 1 .. n - 1 : SubSeq(swapped, 1, n - 1)[i] = swapped[i]
    <2>1. /\ SubSeq(swapped, 1, n - 1) \in Seq(PollFd)
          /\ Len(SubSeq(swapped, 1, n - 1)) = IF 1 <= n - 1 THEN n - 1 - 1 + 1 ELSE 0
          /\ \A i \in 1 .. n - 1 - 1 + 1 : SubSeq(swapped, 1, n - 1)[i] = swapped[1 + i - 1]
        BY <1>1, <1>3, SubSeqProperties
    <2>. QED  BY <1>1, <2>1
<1>. QED  BY <1>1, <1>2, <1>4, <1>5 DEF n

-----------------------------------------------------------------------------
LEMMA InitIInv == Init => IInv
<1>1. <<>> \in Seq(PollFd) /\ Len(<<>>) = 0
    BY EmptySeq
<1>2. Init => TypeOK
    <2>1. Init => ChannelTypeOK
        BY DEF Init, ChannelInit, ChannelTypeOK
    <2>. QED  BY <1>1, <2>1 DEF Init, TypeOK
<1>3. Init => TablesAgree
    BY <1>1 DEF Init, TablesAgree, ChannelKnowsFd, ChannelKnowsEntry, EntryKnowsChannel, Registered
<1>. QED  BY <1>2, <1>3 DEF IInv

(* updateChannel(), new entry.                                             *)
LEMMA UpdateAddsPreserves ==
    ASSUME IInv, NEW c \in Channels, NEW call \in Calls, UpdateAdds(c, call)
    PROVE  IInv'
<1> DEFINE n == Len(M_pollfds)
           fd == M_fd[c]
           entry == [fd |-> fd, events |-> M_events'[c]]
<1> USE DEF IInv, TypeOK, ChannelTypeOK
<1>1. /\ fd \in Fds
      /\ M_events' \in [Channels -> SUBSET Interest]
      /\ \A d \in Channels : d # c => M_events'[d] = M_events[d]
      /\ M_fd' = M_fd
    BY SetEventsFacts DEF UpdateAdds
<1>2. entry \in PollFd /\ DescriptorOf(entry) = fd
    <2>1. fd \in Nat
        BY <1>1
    <2>. QED  BY <1>1, <2>1 DEF PollFd, DescriptorOf
<1>3. /\ M_pollfds' = Append(M_pollfds, entry)
      /\ M_index' = [M_index EXCEPT ![c] = n]
      /\ M_channels' = [M_channels EXCEPT ![fd] = c]
      /\ M_channels[fd] = NoChannel
    BY DEF UpdateAdds
<1> HIDE DEF entry
<1>4. /\ M_pollfds' \in Seq(PollFd) /\ n \in Nat /\ Len(M_pollfds') = n + 1
      /\ \A i \in 1 .. n : M_pollfds'[i] = M_pollfds[i]
      /\ M_pollfds'[n + 1] = entry
    BY <1>2, <1>3, AppendProperties, LenProperties
<1>5. TypeOK'
    BY <1>1, <1>3, <1>4 DEF UpdateAdds, SetEvents, loopVars
<1>6. \A f \in Fds : M_channels[f] # c
    BY <1>1, <1>3 DEF TablesAgree, ChannelKnowsFd, Registered
<1>7. ChannelKnowsFd'
    BY <1>1, <1>3 DEF TablesAgree, ChannelKnowsFd, Registered
<1>8. entry.events = M_events'[c]
    BY DEF entry
<1>9. ChannelKnowsEntry'
    BY <1>1, <1>2, <1>3, <1>4, <1>6, <1>8
    DEF TablesAgree, ChannelKnowsEntry, Registered, DescriptorOf
<1>10. EntryKnowsChannel'
    <2>1. \A i \in 1 .. n : DescriptorOf(M_pollfds[i]) \in Fds
        BY <1>4, DescriptorFacts, ElementOfSeq
    <2>2. ASSUME NEW i \in 1 .. n
          PROVE  /\ M_channels'[DescriptorOf(M_pollfds[i])] = M_channels[DescriptorOf(M_pollfds[i])]
                 /\ M_channels[DescriptorOf(M_pollfds[i])] \in Channels \ {c}
                 /\ M_index[M_channels[DescriptorOf(M_pollfds[i])]] = i - 1
        BY <1>1, <1>3, <1>6, <2>1 DEF TablesAgree, EntryKnowsChannel, Registered
    <2> SUFFICES ASSUME NEW i \in 1 .. n + 1
                 PROVE  /\ M_channels'[DescriptorOf(M_pollfds'[i])] # NoChannel
                        /\ M_index'[M_channels'[DescriptorOf(M_pollfds'[i])]] = i - 1
        BY <1>4 DEF EntryKnowsChannel, Registered, DescriptorOf
    <2>3. CASE i = n + 1
        BY <1>1, <1>2, <1>3, <1>4, <2>3
    <2>4. CASE i \in 1 .. n
        BY <1>3, <1>4, <2>2, <2>4
    <2>. QED  BY <1>4, <2>3, <2>4
<1>. QED  BY <1>5, <1>7, <1>9, <1>10 DEF TablesAgree

(* updateChannel(), existing entry: positions stay, and the entry at the   *)
(* channel's position stands for its descriptor before and after.          *)
LEMMA UpdateModifiesPreserves ==
    ASSUME IInv, NEW c \in Channels, NEW call \in Calls, UpdateModifies(c, call)
    PROVE  IInv'
<1> DEFINE fd == M_fd[c]
           k == M_index[c] + 1
           entry == [fd |-> IF M_events'[c] = {} THEN Negated(fd) ELSE M_pollfds[k].fd,
                     events |-> M_events'[c]]
<1> USE DEF IInv, TypeOK, ChannelTypeOK
<1>1. /\ fd \in Fds
      /\ M_events' \in [Channels -> SUBSET Interest]
      /\ \A d \in Channels : d # c => M_events'[d] = M_events[d]
      /\ M_fd' = M_fd
    BY SetEventsFacts DEF UpdateModifies
<1>2. /\ Len(M_pollfds) \in Nat /\ k \in 1 .. Len(M_pollfds)
      /\ M_channels[fd] = c
      /\ M_pollfds[k] \in PollFd
      /\ M_pollfds[k].fd \in {fd, Negated(fd)}
    BY LenProperties, ElementOfSeq DEF UpdateModifies, EntryAsserts
<1>3. entry \in PollFd /\ entry.fd \in {fd, Negated(fd)} /\ entry.events = M_events'[c]
    BY <1>1, <1>2 DEF PollFd
<1>4. DescriptorOf(M_pollfds[k]) = fd /\ DescriptorOf(entry) = fd
    BY <1>1, <1>2, <1>3, DescriptorFacts
<1>5. M_pollfds' = [M_pollfds EXCEPT ![k] = entry] /\ M_index' = M_index /\ M_channels' = M_channels
    BY DEF UpdateModifies
<1> HIDE DEF entry, k
<1>6. /\ M_pollfds' \in Seq(PollFd) /\ Len(M_pollfds') = Len(M_pollfds)
      /\ \A i \in 1 .. Len(M_pollfds) :
            M_pollfds'[i] = IF i = k THEN entry ELSE M_pollfds[i]
    BY <1>2, <1>3, <1>5, ExceptSeq
<1>7. TypeOK'
    BY <1>1, <1>5, <1>6 DEF UpdateModifies, SetEvents, loopVars
<1>8. ChannelKnowsFd'
    BY <1>1, <1>5 DEF TablesAgree, ChannelKnowsFd, Registered
<1>9. \A i \in 1 .. Len(M_pollfds) : DescriptorOf(M_pollfds'[i]) = DescriptorOf(M_pollfds[i])
    BY <1>2, <1>4, <1>6
<1>10. EntryKnowsChannel'
    BY <1>5, <1>6, <1>9 DEF TablesAgree, EntryKnowsChannel, Registered, DescriptorOf
<1>11. ChannelKnowsEntry'
    <2> SUFFICES ASSUME NEW f \in Fds, M_channels[f] # NoChannel
                 PROVE  /\ M_index[M_channels[f]] \in 0 .. Len(M_pollfds) - 1
                        /\ DescriptorOf(M_pollfds'[M_index[M_channels[f]] + 1]) = f
                        /\ M_pollfds'[M_index[M_channels[f]] + 1].events = M_events'[M_channels[f]]
        BY <1>5, <1>6 DEF ChannelKnowsEntry, Registered, DescriptorOf
    <2>1. /\ M_index[M_channels[f]] \in 0 .. Len(M_pollfds) - 1
          /\ DescriptorOf(M_pollfds[M_index[M_channels[f]] + 1]) = f
          /\ M_pollfds[M_index[M_channels[f]] + 1].events = M_events[M_channels[f]]
          /\ M_channels[f] \in Channels
        BY DEF TablesAgree, ChannelKnowsEntry, Registered
    <2>2. M_index[M_channels[f]] + 1 \in 1 .. Len(M_pollfds)
        BY <1>2, <2>1
    <2>3. CASE f = fd
        BY <1>2, <1>3, <1>6, <1>9, <2>1, <2>2, <2>3 DEF k
    <2>4. CASE f # fd
        <3>1. M_index[M_channels[f]] + 1 # k
            BY <1>4, <2>1, <2>4
        <3>2. M_channels[f] # c
            BY <2>4 DEF TablesAgree, ChannelKnowsFd, Registered
        <3>. QED  BY <1>1, <1>6, <1>9, <2>1, <2>2, <3>1, <3>2
    <2>. QED  BY <2>3, <2>4
<1>. QED  BY <1>7, <1>8, <1>10, <1>11 DEF TablesAgree

(* updateChannel() fails an assertion only for a channel that is not       *)
(* registered; its new interest concerns no entry.                         *)
LEMMA UpdateAbortsPreserves ==
    ASSUME IInv, NEW c \in Channels, NEW call \in Calls, UpdateAborts(c, call)
    PROVE  IInv'
<1> USE DEF IInv, TypeOK, ChannelTypeOK
<1>1. /\ M_fd[c] \in Fds
      /\ M_events' \in [Channels -> SUBSET Interest]
      /\ \A d \in Channels : d # c => M_events'[d] = M_events[d]
      /\ M_fd' = M_fd
    BY SetEventsFacts DEF UpdateAborts
<1>2. M_index' = M_index /\ M_channels' = M_channels /\ M_pollfds' = M_pollfds
    BY DEF UpdateAborts, pollVars
<1>3. M_channels[M_fd[c]] # c
    <2> SUFFICES ASSUME M_channels[M_fd[c]] = c PROVE FALSE
        OBVIOUS
    <2>1. /\ M_index[c] \in 0 .. Len(M_pollfds) - 1
          /\ DescriptorOf(M_pollfds[M_index[c] + 1]) = M_fd[c]
        BY <1>1 DEF TablesAgree, ChannelKnowsEntry, Registered
    <2>2. M_pollfds[M_index[c] + 1] \in PollFd
        BY <2>1, LenProperties, ElementOfSeq
    <2>3. M_pollfds[M_index[c] + 1].fd \in {M_fd[c], Negated(M_fd[c])}
        BY <1>1, <2>1, <2>2, DescriptorFacts
    <2>. QED  BY <2>1, <2>3 DEF UpdateAborts, EntryAsserts
<1>4. \A f \in Fds : M_channels[f] # c
    BY <1>3 DEF TablesAgree, ChannelKnowsFd, Registered
<1>5. TypeOK'
    BY <1>1, <1>2 DEF UpdateAborts, SetEvents, loopVars
<1>6. ChannelKnowsFd'
    BY <1>1, <1>2 DEF TablesAgree, ChannelKnowsFd, Registered
<1>7. ChannelKnowsEntry'
    BY <1>1, <1>2, <1>4 DEF TablesAgree, ChannelKnowsEntry, Registered, DescriptorOf
<1>8. EntryKnowsChannel'
    BY <1>2 DEF TablesAgree, EntryKnowsChannel, Registered, DescriptorOf
<1>. QED  BY <1>5, <1>6, <1>7, <1>8 DEF TablesAgree

(* removeChannel(): the last entry takes the place of the removed one and  *)
(* its channel learns the new position; every other position stays.        *)
LEMMA RemovePreserves ==
    ASSUME IInv, NEW c \in Channels, RemoveChannel(c)
    PROVE  IInv'
<1> DEFINE fd == M_fd[c]
           n == Len(M_pollfds)
           k == M_index[c] + 1
           lastFd == DescriptorOf(M_pollfds[n])
           last == M_channels[lastFd]
<1> USE DEF IInv, TypeOK, ChannelTypeOK
<1>1. /\ fd \in Fds
      /\ M_channels[fd] = c
      /\ n \in Nat /\ M_index[c] \in 0 .. n - 1 /\ k \in 1 .. n
    BY LenProperties DEF RemoveChannel, RemoveAsserts, EntryAsserts, Detach, MayRemove, Alive
<1>2. /\ M_fd' = M_fd /\ M_events' = M_events
      /\ M_channels' = [M_channels EXCEPT ![fd] = NoChannel]
      /\ SwapWithLastAndPop(M_index[c])
    BY DEF RemoveChannel, Detach
<1>3. /\ M_pollfds' \in Seq(PollFd)
      /\ Len(M_pollfds') = n - 1
      /\ \A i \in 1 .. n - 1 :
            M_pollfds'[i] = IF i = k THEN M_pollfds[n] ELSE M_pollfds[i]
    BY <1>1, <1>2, SwapFacts
<1>4. /\ n \in 1 .. n
      /\ \A i \in 1 .. n : /\ DescriptorOf(M_pollfds[i]) \in Fds
                          /\ M_channels[DescriptorOf(M_pollfds[i])] \in Channels
                          /\ M_index[M_channels[DescriptorOf(M_pollfds[i])]] = i - 1
    <2>1. \A i \in 1 .. n : DescriptorOf(M_pollfds[i]) \in Fds
        BY <1>1, DescriptorFacts, ElementOfSeq
    <2>2. \A i \in 1 .. n : /\ M_channels[DescriptorOf(M_pollfds[i])] \in Channels
                           /\ M_index[M_channels[DescriptorOf(M_pollfds[i])]] = i - 1
        BY <2>1 DEF TablesAgree, EntryKnowsChannel, Registered
    <2>. QED  BY <1>1, <2>1, <2>2
<1>5. DescriptorOf(M_pollfds[k]) = fd
    BY <1>1 DEF TablesAgree, ChannelKnowsEntry, Registered
<1>6. /\ lastFd \in Fds /\ last \in Channels /\ M_index[last] = n - 1
      /\ (k # n => lastFd # fd /\ last # c)
    <2>1. lastFd \in Fds /\ last \in Channels /\ M_index[last] = n - 1
        BY <1>4
    <2>2. ASSUME k # n PROVE last # c
        BY <1>1, <2>1, <2>2
    <2>. QED  BY <1>1, <2>1, <2>2
<1>7. M_index' = IF k = n THEN M_index ELSE [M_index EXCEPT ![last] = M_index[c]]
    BY <1>2 DEF SwapWithLastAndPop
<1> HIDE DEF lastFd, last
<1>8. TypeOK'
    <2>1. M_index' \in [Channels -> Int]
        BY <1>6, <1>7
    <2>2. M_channels' \in [Fds -> Channels \union {NoChannel}]
        BY <1>1, <1>2
    <2>3. ChannelTypeOK'
        BY <1>2 DEF RemoveChannel, Detach, loopVars
    <2>. QED  BY <1>3, <2>1, <2>2, <2>3 DEF RemoveChannel
<1>9. ChannelKnowsFd'
    BY <1>1, <1>2 DEF TablesAgree, ChannelKnowsFd, Registered
<1>10. ChannelKnowsEntry'
    <2> SUFFICES ASSUME NEW f \in Fds, M_channels'[f] # NoChannel
                 PROVE  /\ M_index'[M_channels'[f]] \in 0 .. n - 2
                        /\ DescriptorOf(M_pollfds'[M_index'[M_channels'[f]] + 1]) = f
                        /\ M_pollfds'[M_index'[M_channels'[f]] + 1].events
                              = M_events[M_channels'[f]]
        BY <1>1, <1>2, <1>3 DEF ChannelKnowsEntry, Registered, DescriptorOf
    <2> DEFINE d == M_channels[f]
               j == M_index[d] + 1
    <2>1. f # fd /\ M_channels'[f] = d /\ d \in Channels /\ d # c
        <3>1. f # fd /\ M_channels'[f] = d
            BY <1>1, <1>2
        <3>2. d \in Channels /\ M_fd[d] = f
            BY <3>1 DEF TablesAgree, ChannelKnowsFd, Registered
        <3>. QED  BY <3>1, <3>2
    <2>2. /\ j \in 1 .. n /\ M_index[d] = j - 1
          /\ DescriptorOf(M_pollfds[j]) = f
          /\ M_pollfds[j].events = M_events[d]
        <3>1. /\ M_index[d] \in 0 .. n - 1
              /\ DescriptorOf(M_pollfds[j]) = f
              /\ M_pollfds[j].events = M_events[d]
            BY <2>1 DEF TablesAgree, ChannelKnowsEntry, Registered
        <3>2. M_index[d] \in 0 .. n - 1 /\ n \in Nat
            BY <1>1, <3>1
        <3> HIDE DEF d, n
        <3>3. j \in 1 .. n /\ M_index[d] = j - 1
            BY <3>2, NextPosition
        <3> HIDE DEF j
        <3>. QED  BY <3>1, <3>3
    <2>3. j # k
        BY <1>5, <2>1, <2>2
    <2> HIDE DEF d, j
    <2>4. CASE j = n
        <3>1. d = last /\ k # n
            BY <2>2, <2>3, <2>4 DEF d, last, lastFd
        <3>2. M_index'[d] = k - 1
            BY <1>1, <1>6, <1>7, <3>1
        <3>3. k \in 1 .. n - 1
            BY <1>1, <3>1
        <3>4. M_pollfds'[k] = M_pollfds[j]
            BY <1>3, <2>4, <3>3
        <3>5. M_index'[d] \in 0 .. n - 2 /\ M_index'[d] + 1 = k
            BY <1>1, <3>2, <3>3
        <3>. QED  BY <2>1, <2>2, <3>4, <3>5
    <2>5. CASE j # n
        <3>1. j \in 1 .. n - 1
            BY <1>1, <2>2, <2>5
        <3>2. M_pollfds'[j] = M_pollfds[j]
            BY <1>3, <2>3, <3>1
        <3>3. d # last
            BY <1>1, <1>6, <2>2, <2>5
        <3>4. M_index'[d] = M_index[d]
            BY <1>6, <1>7, <2>1, <3>3
        <3>5. M_index'[d] \in 0 .. n - 2 /\ M_index'[d] + 1 = j
            BY <1>1, <2>2, <3>1, <3>4
        <3>. QED  BY <2>1, <2>2, <3>2, <3>5
    <2>. QED  BY <2>4, <2>5
<1>11. EntryKnowsChannel'
    <2> SUFFICES ASSUME NEW i \in 1 .. n - 1
                 PROVE  /\ M_channels'[DescriptorOf(M_pollfds'[i])] # NoChannel
                        /\ M_index'[M_channels'[DescriptorOf(M_pollfds'[i])]] = i - 1
        BY <1>1, <1>3 DEF EntryKnowsChannel, Registered, DescriptorOf
    <2>1. CASE i = k
        <3>1. k # n /\ M_pollfds'[i] = M_pollfds[n]
            BY <1>1, <1>3, <2>1
        <3>2. DescriptorOf(M_pollfds'[i]) = lastFd
            BY <3>1 DEF lastFd
        <3>3. M_channels'[lastFd] = last
            BY <1>2, <1>6, <3>1 DEF last
        <3>. QED  BY <1>1, <1>6, <1>7, <2>1, <3>1, <3>2, <3>3
    <2>2. CASE i # k
        <3> DEFINE f == DescriptorOf(M_pollfds[i])
        <3>1. M_pollfds'[i] = M_pollfds[i] /\ i \in 1 .. n
            BY <1>1, <1>3, <2>2
        <3>2. f \in Fds /\ M_channels[f] \in Channels /\ M_index[M_channels[f]] = i - 1
            BY <1>4, <3>1
        <3>3. f # fd /\ M_channels[f] # last
            BY <1>1, <1>6, <2>2, <3>1, <3>2
        <3> HIDE DEF f
        <3>4. M_channels'[f] = M_channels[f] /\ M_index'[M_channels[f]] = i - 1
            BY <1>2, <1>6, <1>7, <3>2, <3>3
        <3>. QED  BY <3>1, <3>2, <3>4 DEF f
    <2>. QED  BY <2>1, <2>2
<1>. QED  BY <1>8, <1>9, <1>10, <1>11 DEF TablesAgree

(* The constructor and the destructor touch channels without registration. *)
LEMMA NewPreserves ==
    ASSUME IInv, NEW c \in Channels, NEW fd \in Fds, New(c, fd)
    PROVE  IInv'
<1> USE DEF IInv, TypeOK, ChannelTypeOK
<1>1. /\ M_fd' = [M_fd EXCEPT ![c] = fd]
      /\ M_events' = [M_events EXCEPT ![c] = {}]
      /\ M_index' = [M_index EXCEPT ![c] = -1]
      /\ M_channels' = M_channels /\ M_pollfds' = M_pollfds
      /\ M_fd[c] = NoFd
    BY DEF New, Construct, Alive
<1>2. \A f \in Fds : M_channels[f] # c
    BY <1>1 DEF TablesAgree, ChannelKnowsFd, Registered
<1>3. TypeOK'
    BY <1>1 DEF New, Construct, loopVars
<1>4. ChannelKnowsFd'
    BY <1>1, <1>2 DEF TablesAgree, ChannelKnowsFd, Registered
<1>5. ChannelKnowsEntry'
    BY <1>1, <1>2 DEF TablesAgree, ChannelKnowsEntry, Registered, DescriptorOf
<1>6. EntryKnowsChannel'
    <2>1. \A i \in 1 .. Len(M_pollfds) : DescriptorOf(M_pollfds[i]) \in Fds
        BY DescriptorFacts, ElementOfSeq
    <2>. QED  BY <1>1, <1>2, <2>1 DEF TablesAgree, EntryKnowsChannel, Registered, DescriptorOf
<1>. QED  BY <1>3, <1>4, <1>5, <1>6 DEF TablesAgree

LEMMA DeletePreserves ==
    ASSUME IInv, NEW c \in Channels, Delete(c)
    PROVE  IInv'
<1> USE DEF IInv, TypeOK, ChannelTypeOK
<1>1. /\ M_fd' = [M_fd EXCEPT ![c] = NoFd]
      /\ M_events' = M_events /\ pollVars' = pollVars
      /\ M_fd[c] \in Fds /\ M_channels[M_fd[c]] # c
    BY DEF Delete, Destruct, Alive
<1>2. \A f \in Fds : M_channels[f] # c
    BY <1>1 DEF TablesAgree, ChannelKnowsFd, Registered
<1>3. TypeOK'
    BY <1>1 DEF Delete, Destruct, loopVars, pollVars
<1>. QED  BY <1>1, <1>2, <1>3 DEF TablesAgree, ChannelKnowsFd, ChannelKnowsEntry,
              EntryKnowsChannel, Registered, DescriptorOf, pollVars

(* The loop's own steps leave channels and tables alone.                   *)
LEMMA LoopPreserves ==
    ASSUME IInv, UNCHANGED <<channelVars, pollVars>>, ChannelTypeOK',
           aborted' \in {"no", "update", "remove"}
    PROVE  IInv'
BY DEF IInv, TypeOK, TablesAgree, ChannelKnowsFd, ChannelKnowsEntry, EntryKnowsChannel,
       Registered, DescriptorOf, channelVars, pollVars

LEMMA StepIInv == IInv /\ [Next]_vars => IInv'
<1> SUFFICES ASSUME IInv, [Next]_vars PROVE IInv'
    OBVIOUS
<1>1. ASSUME NEW c \in Channels, RemoveAborts(c) PROVE IInv'
    BY <1>1 DEF RemoveAborts, Detach, IInv, TypeOK, ChannelTypeOK, TablesAgree, ChannelKnowsFd,
                ChannelKnowsEntry, EntryKnowsChannel, Registered, DescriptorOf, pollVars, loopVars
<1>2. ASSUME NEW entries \in SUBSET Polled, PollReturns(entries) PROVE IInv'
    <2>1. ASSUME NEW i \in entries PROVE M_channels[M_pollfds[i].fd] \in Channels
        <3>1. i \in 1 .. Len(M_pollfds) /\ M_pollfds[i].fd >= 0 /\ M_pollfds[i] \in PollFd
            BY LenProperties, ElementOfSeq DEF Polled, IInv, TypeOK
        <3>2. DescriptorOf(M_pollfds[i]) = M_pollfds[i].fd
            BY <3>1, DescriptorFacts
        <3>3. M_pollfds[i].fd \in Fds
            BY <3>1, <3>2, DescriptorFacts
        <3>. QED  BY <3>1, <3>2, <3>3 DEF IInv, TypeOK, TablesAgree, EntryKnowsChannel, Registered
    <2>2. ChannelTypeOK'
        BY <1>2, <2>1 DEF PollReturns, BeginDispatch, channelVars, IInv, TypeOK, ChannelTypeOK
    <2>. QED  BY <1>2, <2>2, LoopPreserves
              DEF PollReturns, BeginDispatch, channelVars, pollVars, IInv, TypeOK
<1>3. CASE DispatchStep
    <2>1. ChannelTypeOK' /\ UNCHANGED channelVars
        BY <1>3 DEF DispatchStep, Dispatch, HandleEvent, HandlerReturns, EndDispatch, channelVars,
                    IInv, TypeOK, ChannelTypeOK
    <2>. QED  BY <1>3, <2>1, LoopPreserves DEF DispatchStep, IInv, TypeOK
<1>4. CASE UNCHANGED vars
    <2>1. ChannelTypeOK'
        BY <1>4 DEF vars, channelVars, loopVars, IInv, TypeOK, ChannelTypeOK
    <2>. QED  BY <1>4, <2>1, LoopPreserves DEF vars, IInv, TypeOK
<1>. QED  BY <1>1, <1>2, <1>3, <1>4, UpdateAddsPreserves, UpdateModifiesPreserves,
             UpdateAbortsPreserves, RemovePreserves, NewPreserves, DeletePreserves DEF Next

(* PollPoller: the three tables agree in every reachable state.            *)
THEOREM Invariance == Spec => []IInv
BY InitIInv, StepIInv, PTL DEF Spec

(* updateChannel()/removeChannel(): through every order of additions and   *)
(* removals, by any number of channels, each registered channel's index    *)
(* leads to its own entry and each entry belongs to a registered channel.  *)
THEOREM IndexConsistentHolds == Spec => []IndexConsistent
<1>1. IInv => IndexConsistent
    <2> SUFFICES ASSUME IInv PROVE IndexConsistent
        OBVIOUS
    <2> USE DEF IInv, TypeOK, ChannelTypeOK, TablesAgree
    <2>1. ASSUME NEW c \in Channels, InMap(c)
          PROVE  /\ M_index[c] \in 0 .. Len(M_pollfds) - 1
                 /\ DescriptorOf(M_pollfds[M_index[c] + 1]) = M_fd[c]
                 /\ M_pollfds[M_index[c] + 1].events = M_events[c]
        BY <2>1 DEF InMap, Alive, ChannelKnowsEntry, Registered
    <2>2. ASSUME NEW i \in DOMAIN M_pollfds
          PROVE  \E c \in Channels : InMap(c) /\ M_index[c] = i - 1
        <3> DEFINE fd == DescriptorOf(M_pollfds[i])
        <3>1. i \in 1 .. Len(M_pollfds) /\ fd \in Fds
            BY LenProperties, ElementOfSeq, DescriptorFacts
        <3>2. /\ M_channels[fd] \in Channels /\ M_index[M_channels[fd]] = i - 1
              /\ M_fd[M_channels[fd]] = fd
            BY <3>1 DEF EntryKnowsChannel, ChannelKnowsFd, Registered
        <3> HIDE DEF fd
        <3>3. InMap(M_channels[fd])
            BY <3>1, <3>2 DEF InMap, Alive
        <3>. QED  BY <3>2, <3>3
    <2>. QED  BY <2>1, <2>2 DEF IndexConsistent
<1>. QED  BY Invariance, <1>1, PTL

(* removeChannel()/updateChannel(): the assertions on M_channels and on    *)
(* the entry never fail for a registered channel.  What aborts             *)
(* updateChannel() is a channel that is not registered and kept its index. *)
THEOREM RegisteredChannelsUpdate ==
    Spec => []\A c \in Channels : InMap(c) => EntryAsserts(c)
<1>1. ASSUME IInv, NEW c \in Channels, InMap(c) PROVE EntryAsserts(c)
    <2>1. M_fd[c] \in Fds /\ M_channels[M_fd[c]] = c /\ Registered(M_fd[c])
        BY <1>1 DEF InMap, Alive, IInv, TypeOK, ChannelTypeOK, Registered
    <2>2. /\ M_index[c] \in 0 .. Len(M_pollfds) - 1
          /\ DescriptorOf(M_pollfds[M_index[c] + 1]) = M_fd[c]
        BY <1>1, <2>1 DEF IInv, TablesAgree, ChannelKnowsEntry
    <2>3. M_pollfds[M_index[c] + 1] \in PollFd
        BY <1>1, <2>2, LenProperties, ElementOfSeq DEF IInv, TypeOK
    <2>. QED  BY <2>1, <2>2, <2>3, DescriptorFacts DEF EntryAsserts
<1>2. IInv => \A c \in Channels : InMap(c) => EntryAsserts(c)
    BY <1>1
<1>. QED  BY Invariance, <1>2, PTL
=============================================================================
