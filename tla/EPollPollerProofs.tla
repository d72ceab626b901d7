-------------------------- MODULE EPollPollerProofs --------------------------
(***************************************************************************)
(* Proofs about EPollPoller, for any number of channels and descriptors.   *)
(*                                                                         *)
(* The three tables (Channel::M_index, Poller::M_channels, the kernel's    *)
(* epoll set) agree with each other in every state; TablesAgree says so    *)
(* entry by entry, in both directions, which none of the properties of     *)
(* EPollPoller does alone.  DispatchSafe adds why a channel that waits for *)
(* its handler cannot be destructed: it is still registered, and           *)
(* EventLoop::removeChannel() refuses to remove it.                        *)
(***************************************************************************)
EXTENDS EPollPoller, TLAPS

TablesAgree ==
    /\ \A fd \in Fds : epoll[fd] # NotInEpoll =>
          /\ epoll[fd].ptr = M_channels[fd]
          /\ M_index[M_channels[fd]] = "kAdded"
          /\ epoll[fd].events = M_events[M_channels[fd]]
    /\ \A fd \in Fds : M_channels[fd] # NoChannel =>
          /\ M_fd[M_channels[fd]] = fd
          /\ M_index[M_channels[fd]] # "kNew"
    /\ \A c \in Channels : M_index[c] # "kNew" =>
          /\ M_fd[c] # NoFd
          /\ M_channels[M_fd[c]] = c
    /\ \A c \in Channels : M_index[c] = "kAdded" => epoll[M_fd[c]] # NotInEpoll
    /\ \A c \in Channels : M_index[c] # "kAdded" => M_events[c] = {}

DispatchSafe ==
    /\ undispatched # {} => M_eventHandling
    /\ M_currentActiveChannel # NoChannel => M_eventHandling
    /\ \A c \in undispatched : M_index[c] # "kNew" /\ M_currentActiveChannel # c

IInv == TypeOK /\ TablesAgree /\ DispatchSafe

-----------------------------------------------------------------------------
USE ChannelAssumption, EPollAssumption

(* enableReading() ... disableAll() ask for a subset of the events.        *)
LEMMA EventsAfterType ==
    ASSUME NEW call \in Calls, NEW events \in SUBSET Interest
    PROVE  EventsAfter(call, events) \in SUBSET Interest
BY DEF Calls, EventsAfter, Interest

(* Every step keeps the variables of Channel and the poller's tables in    *)
(* their types.                                                            *)
LEMMA TypePreserved == IInv /\ [Next]_vars => TypeOK'
<1> SUFFICES ASSUME IInv, [Next]_vars PROVE TypeOK'
    OBVIOUS
<1> USE DEF IInv, TypeOK, ChannelTypeOK
<1>1. ASSUME NEW c \in Channels, NEW call \in Calls, UpdateAdds(c, call)
      PROVE  TypeOK'
    <2>1. EventsAfter(call, M_events[c]) \in SUBSET Interest
        BY EventsAfterType
    <2>2. M_fd[c] \in Fds
        BY <1>1 DEF UpdateAdds, SetEvents, Alive
    <2>. QED  BY <1>1, <2>1, <2>2 DEF UpdateAdds, SetEvents, CtlAddOrMod, EpollEntry, loopVars
<1>2. ASSUME NEW c \in Channels, NEW call \in Calls, UpdateModifies(c, call)
      PROVE  TypeOK'
    <2>1. EventsAfter(call, M_events[c]) \in SUBSET Interest
        BY EventsAfterType
    <2>2. M_fd[c] \in Fds
        BY <1>2 DEF UpdateModifies, SetEvents, Alive
    <2>. QED  BY <1>2, <2>1, <2>2
              DEF UpdateModifies, SetEvents, CtlAddOrMod, CtlDel, EpollEntry, loopVars
<1>3. ASSUME NEW c \in Channels, RemoveChannel(c) PROVE TypeOK'
    BY <1>3 DEF RemoveChannel, Detach, MayRemove, Alive, CtlDel, loopVars
<1>4. ASSUME NEW c \in Channels, NEW fd \in Fds, New(c, fd) PROVE TypeOK'
    BY <1>4 DEF New, Construct, loopVars
<1>5. ASSUME NEW c \in Channels, Delete(c) PROVE TypeOK'
    BY <1>5 DEF Delete, Destruct, loopVars
<1>6. ASSUME NEW fds \in SUBSET Registered, PollReturns(fds) PROVE TypeOK'
    <2>1. \A fd \in fds : epoll[fd].ptr \in Channels
        BY DEF Registered, EpollEntry
    <2>. QED  BY <1>6, <2>1 DEF PollReturns, BeginDispatch, channelVars
<1>7. CASE DispatchStep
    BY <1>7 DEF DispatchStep, Dispatch, HandleEvent, HandlerReturns, EndDispatch, channelVars
<1>8. CASE UNCHANGED vars
    BY <1>8 DEF vars, channelVars, loopVars
<1>. QED  BY <1>1, <1>2, <1>3, <1>4, <1>5, <1>6, <1>7, <1>8 DEF Next

(* updateChannel() and removeChannel() keep the three tables in step;      *)
(* nothing else writes them while a channel is registered.                 *)
LEMMA TablesPreserved == IInv /\ [Next]_vars => TablesAgree'
<1> SUFFICES ASSUME IInv, [Next]_vars PROVE TablesAgree'
    OBVIOUS
<1> USE DEF IInv, TypeOK, ChannelTypeOK, TablesAgree, EpollEntry
<1>1. ASSUME NEW c \in Channels, NEW call \in Calls, UpdateAdds(c, call)
      PROVE  TablesAgree'
    <2> DEFINE fd == M_fd[c]
    <2>1. fd \in Fds
        BY <1>1 DEF UpdateAdds, SetEvents, Alive
    <2>2. /\ M_channels' = [M_channels EXCEPT ![fd] = c]
          /\ M_channels[fd] \in {c, NoChannel}
        <3>1. CASE M_index[c] = "kNew"
            BY <1>1, <2>1, <3>1 DEF UpdateAdds
        <3>2. CASE M_index[c] = "kDeleted"
            <4>1. M_channels[fd] = c /\ M_channels' = M_channels
                BY <1>1, <3>2 DEF UpdateAdds
            <4>. QED  BY <4>1, <2>1
        <3>. QED  BY <1>1, <3>1, <3>2 DEF UpdateAdds
    <2>3. /\ M_index' = [M_index EXCEPT ![c] = "kAdded"]
          /\ epoll' = [epoll EXCEPT ![fd] = [events |-> M_events'[c], ptr |-> c]]
          /\ M_events' = [M_events EXCEPT ![c] = M_events'[c]]
          /\ M_fd' = M_fd
        BY <1>1 DEF UpdateAdds, SetEvents, CtlAddOrMod
    <2>4. EventsAfter(call, M_events[c]) \in SUBSET Interest
        BY EventsAfterType
    <2>5. M_events'[c] \in SUBSET Interest
        BY <1>1, <2>4 DEF UpdateAdds, SetEvents
    <2>. QED  BY <2>1, <2>2, <2>3, <2>5
<1>2. ASSUME NEW c \in Channels, NEW call \in Calls, UpdateModifies(c, call)
      PROVE  TablesAgree'
    <2> DEFINE fd == M_fd[c]
    <2>1. /\ fd \in Fds
          /\ M_channels[fd] = c
          /\ M_channels' = M_channels
          /\ M_events' = [M_events EXCEPT ![c] = M_events'[c]]
          /\ M_fd' = M_fd
        BY <1>2 DEF UpdateModifies, SetEvents, Alive
    <2>2. CASE M_events'[c] = {}
        <3>1. /\ epoll' = [epoll EXCEPT ![fd] = NotInEpoll]
              /\ M_index' = [M_index EXCEPT ![c] = "kDeleted"]
            BY <1>2, <2>2 DEF UpdateModifies, CtlDel
        <3>. QED  BY <2>1, <2>2, <3>1
    <2>3. CASE M_events'[c] # {}
        <3>1. /\ epoll' = [epoll EXCEPT ![fd] = [events |-> M_events'[c], ptr |-> c]]
              /\ M_index' = M_index
            BY <1>2, <2>3 DEF UpdateModifies, CtlAddOrMod
        <3>2. EventsAfter(call, M_events[c]) \in SUBSET Interest
            BY EventsAfterType
        <3>3. M_events'[c] \in SUBSET Interest
            BY <1>2, <3>2 DEF UpdateModifies, SetEvents
        <3>4. M_index[c] = "kAdded"
            BY <1>2 DEF UpdateModifies
        <3>. QED  BY <2>1, <3>1, <3>3, <3>4
    <2>. QED  BY <2>2, <2>3
<1>3. ASSUME NEW c \in Channels, RemoveChannel(c) PROVE TablesAgree'
    <2> DEFINE fd == M_fd[c]
    <2>1. /\ fd \in Fds
          /\ M_channels[fd] = c
          /\ M_events[c] = {}
          /\ M_events' = M_events
          /\ M_fd' = M_fd
          /\ M_channels' = [M_channels EXCEPT ![fd] = NoChannel]
          /\ M_index' = [M_index EXCEPT ![c] = "kNew"]
        BY <1>3 DEF RemoveChannel, Detach, MayRemove, Alive
    <2>2. epoll' = [epoll EXCEPT ![fd] = NotInEpoll]
        <3>1. CASE M_index[c] = "kAdded"
            BY <1>3, <3>1 DEF RemoveChannel, CtlDel
        <3>2. CASE M_index[c] = "kDeleted"
            <4>1. epoll[fd] = NotInEpoll /\ epoll' = epoll
                BY <1>3, <2>1, <3>2 DEF RemoveChannel
            <4>. QED  BY <4>1, <2>1
        <3>. QED  BY <1>3, <3>1, <3>2 DEF RemoveChannel
    <2>. QED  BY <2>1, <2>2
<1>4. ASSUME NEW c \in Channels, NEW fd \in Fds, New(c, fd) PROVE TablesAgree'
    BY <1>4 DEF New, Construct, Alive
<1>5. ASSUME NEW c \in Channels, Delete(c) PROVE TablesAgree'
    BY <1>5 DEF Delete, Destruct, Alive
<1>6. ASSUME NEW fds \in SUBSET Registered, PollReturns(fds) PROVE TablesAgree'
    BY <1>6 DEF PollReturns, BeginDispatch, channelVars
<1>7. CASE DispatchStep
    BY <1>7 DEF DispatchStep, Dispatch, HandleEvent, HandlerReturns, EndDispatch, channelVars
<1>8. CASE UNCHANGED vars
    BY <1>8 DEF vars, channelVars
<1>. QED  BY <1>1, <1>2, <1>3, <1>4, <1>5, <1>6, <1>7, <1>8 DEF Next

(* A handler that runs before a channel's own neither removes nor          *)
(* destructs it: EventLoop::removeChannel() checks M_activeChannels.       *)
LEMMA DispatchPreserved == IInv /\ [Next]_vars => DispatchSafe'
<1> SUFFICES ASSUME IInv, [Next]_vars PROVE DispatchSafe'
    OBVIOUS
<1> USE DEF IInv, TypeOK, ChannelTypeOK, DispatchSafe
<1>1. ASSUME NEW c \in Channels, NEW call \in Calls, UpdateAdds(c, call)
      PROVE  DispatchSafe'
    BY <1>1 DEF UpdateAdds, SetEvents, loopVars
<1>2. ASSUME NEW c \in Channels, NEW call \in Calls, UpdateModifies(c, call)
      PROVE  DispatchSafe'
    BY <1>2 DEF UpdateModifies, SetEvents, loopVars
<1>3. ASSUME NEW c \in Channels, RemoveChannel(c) PROVE DispatchSafe'
    BY <1>3 DEF RemoveChannel, Detach, MayRemove, loopVars
<1>4. ASSUME NEW c \in Channels, NEW fd \in Fds, New(c, fd) PROVE DispatchSafe'
    BY <1>4 DEF New, Construct, Alive, loopVars, TablesAgree
<1>5. ASSUME NEW c \in Channels, Delete(c) PROVE DispatchSafe'
    BY <1>5 DEF Delete, Destruct, loopVars
<1>6. ASSUME NEW fds \in SUBSET Registered, PollReturns(fds) PROVE DispatchSafe'
    <2>1. \A fd \in fds : epoll[fd].ptr \in Channels /\ M_index[epoll[fd].ptr] # "kNew"
        BY DEF Registered, EpollEntry, TablesAgree
    <2>2. M_currentActiveChannel' = NoChannel
        BY <1>6 DEF PollReturns, BeginDispatch
    <2>. QED  BY <1>6, <2>1, <2>2 DEF PollReturns, BeginDispatch
<1>7. CASE DispatchStep
    BY <1>7 DEF DispatchStep, Dispatch, HandleEvent, HandlerReturns, EndDispatch
<1>8. CASE UNCHANGED vars
    BY <1>8 DEF vars, loopVars
<1>. QED  BY <1>1, <1>2, <1>3, <1>4, <1>5, <1>6, <1>7, <1>8 DEF Next

LEMMA InitIInv == Init => IInv
BY DEF Init, ChannelInit, IInv, TypeOK, ChannelTypeOK, TablesAgree, DispatchSafe

(* EPollPoller and Channel: the tables agree and the dispatch is safe in   *)
(* every reachable state.                                                  *)
THEOREM Invariance == Spec => []IInv
<1>1. IInv /\ [Next]_vars => IInv'
    BY TypePreserved, TablesPreserved, DispatchPreserved DEF IInv
<1>. QED  BY InitIInv, <1>1, PTL DEF Spec

(* What the tables say of an entry of the epoll set.                       *)
LEMMA EntryFacts ==
    ASSUME IInv, NEW fd \in Fds, epoll[fd] # NotInEpoll
    PROVE  /\ epoll[fd] \in EpollEntry
           /\ epoll[fd].ptr = M_channels[fd]
           /\ M_index[M_channels[fd]] = "kAdded"
           /\ epoll[fd].events = M_events[M_channels[fd]]
<1>1. epoll[fd] \in EpollEntry
    BY DEF IInv, TypeOK
<1>2. /\ epoll[fd].ptr = M_channels[fd]
      /\ M_index[M_channels[fd]] = "kAdded"
      /\ epoll[fd].events = M_events[M_channels[fd]]
    BY Zenon DEF IInv, TablesAgree
<1>. QED  BY <1>1, <1>2

(* update(): the index tells exactly what the kernel holds for a channel.  *)
LEMMA IndexMatchesEpollHolds == Spec => []IndexMatchesEpoll
<1>1. ASSUME IInv, NEW c \in Channels, Alive(c)
      PROVE  (M_index[c] = "kAdded")
                <=> (epoll[M_fd[c]] = [events |-> M_events[c], ptr |-> c])
    <2> DEFINE fd == M_fd[c]
               entry == [events |-> M_events[c], ptr |-> c]
    <2>1. fd \in Fds /\ M_events[c] \in SUBSET Interest
        BY <1>1 DEF IInv, TypeOK, ChannelTypeOK, Alive
    <2>2. ASSUME M_index[c] = "kAdded" PROVE epoll[fd] = entry
        <3>1. /\ epoll[fd] \in EpollEntry
              /\ epoll[fd].ptr = c
              /\ epoll[fd].events = M_events[c]
            <4>1. epoll[fd] # NotInEpoll /\ M_channels[fd] = c
                BY <1>1, <2>2 DEF IInv, TypeOK, ChannelTypeOK, TablesAgree
            <4>. QED  BY <1>1, <2>1, <4>1, EntryFacts
        <3>. QED  BY <3>1 DEF EpollEntry
    <2>3. ASSUME epoll[fd] = entry PROVE M_index[c] = "kAdded"
        <3>1. entry \in EpollEntry
            BY <2>1 DEF EpollEntry
        <3>2. epoll[fd] # NotInEpoll /\ epoll[fd].ptr = c
            BY <2>3, <3>1
        <3>3. epoll[fd].ptr = M_channels[fd] /\ M_index[M_channels[fd]] = "kAdded"
            BY <1>1, <2>1, <3>2, EntryFacts, Zenon
        <3>. QED  BY <3>2, <3>3, Zenon
    <2>. QED  BY <2>2, <2>3
<1>2. IInv => IndexMatchesEpoll
    BY <1>1 DEF IndexMatchesEpoll
<1>. QED  BY Invariance, <1>2, PTL

(* updateChannel()/removeChannel(): their assertions on M_channels hold.   *)
LEMMA IndexMatchesMapHolds == Spec => []IndexMatchesMap
<1>1. ASSUME IInv, NEW c \in Channels, Alive(c)
      PROVE  (M_index[c] # "kNew") <=> (M_channels[M_fd[c]] = c)
    <2>1. M_fd[c] \in Fds
        BY <1>1 DEF IInv, TypeOK, ChannelTypeOK, Alive
    <2>2. ASSUME M_index[c] # "kNew" PROVE M_channels[M_fd[c]] = c
        BY <1>1, <2>2 DEF IInv, TypeOK, ChannelTypeOK, TablesAgree, EpollEntry
    <2>3. ASSUME M_channels[M_fd[c]] = c PROVE M_index[c] # "kNew"
        <3>1. M_channels[M_fd[c]] # NoChannel
            BY <1>1, <2>3, ChannelAssumption
        <3>2. M_index[M_channels[M_fd[c]]] # "kNew"
            BY <1>1, <2>1, <3>1, Zenon DEF IInv, TablesAgree
        <3>. QED  BY <2>3, <3>2
    <2>. QED  BY <2>2, <2>3
<1>2. IInv => IndexMatchesMap
    BY <1>1 DEF IndexMatchesMap
<1>. QED  BY Invariance, <1>2, PTL

(* updateChannel()/removeChannel(): whatever the order of calls, the index *)
(* of a channel agrees with the epoll set and with M_channels.             *)
THEOREM IndicesAgreeHolds == Spec => []IndicesAgree
<1>1. IndexMatchesEpoll /\ IndexMatchesMap => IndicesAgree
    BY DEF IndicesAgree
<1>. QED  BY IndexMatchesEpollHolds, IndexMatchesMapHolds, <1>1, PTL

(* fillActiveChannels(): the kernel never hands back a dangling pointer.   *)
LEMMA KernelPointersLiveHolds == Spec => []KernelPointersLive
<1>1. IInv => KernelPointersLive
    BY DEF IInv, TypeOK, ChannelTypeOK, TablesAgree, KernelPointersLive, Alive, EpollEntry
<1>. QED  BY Invariance, <1>1, PTL

(* loop()/removeChannel(): no handler destructs a channel that is still to *)
(* be dispatched in the same iteration.                                    *)
LEMMA UndispatchedLiveHolds == Spec => []UndispatchedLive
<1>1. IInv => UndispatchedLive
    BY DEF IInv, TypeOK, ChannelTypeOK, TablesAgree, DispatchSafe, UndispatchedLive, Alive
<1>. QED  BY Invariance, <1>1, PTL

(* fillActiveChannels()/loop(): no dead channel is ever reached, neither   *)
(* through the kernel nor through the rest of the dispatch.                *)
THEOREM ReportedChannelsLiveHolds == Spec => []ReportedChannelsLive
<1>1. KernelPointersLive /\ UndispatchedLive => ReportedChannelsLive
    BY DEF ReportedChannelsLive
<1>. QED  BY KernelPointersLiveHolds, UndispatchedLiveHolds, <1>1, PTL

-----------------------------------------------------------------------------
(* epoll_wait waits for what the channels asked for.                       *)
LEMMA WatchedIsAsked == IInv => WatchedByEpoll = M_events
<1> SUFFICES ASSUME IInv PROVE WatchedByEpoll = M_events
    OBVIOUS
<1>1. ASSUME NEW c \in Channels PROVE WatchedByEpoll[c] = M_events[c]
    <2>1. CASE M_index[c] = "kAdded"
        <3>1. /\ M_fd[c] \in Fds /\ Alive(c)
              /\ M_channels[M_fd[c]] = c
              /\ epoll[M_fd[c]] # NotInEpoll
            BY <2>1 DEF IInv, TypeOK, ChannelTypeOK, TablesAgree, Alive
        <3>2. epoll[M_fd[c]].ptr = c /\ epoll[M_fd[c]].events = M_events[c]
            BY <3>1, EntryFacts
        <3>. QED  BY <3>1, <3>2 DEF WatchedByEpoll
    <2>2. CASE M_index[c] # "kAdded"
        <3>1. M_events[c] = {}
            BY <2>2 DEF IInv, TypeOK, ChannelTypeOK, TablesAgree, EpollEntry
        <3>2. ASSUME M_fd[c] # NoFd, epoll[M_fd[c]] # NotInEpoll
              PROVE  epoll[M_fd[c]].ptr # c
            <4>1. M_fd[c] \in Fds
                BY <3>2 DEF IInv, TypeOK, ChannelTypeOK
            <4>2. /\ epoll[M_fd[c]].ptr = M_channels[M_fd[c]]
                  /\ M_index[M_channels[M_fd[c]]] = "kAdded"
                BY <3>2, <4>1, EntryFacts, Zenon
            <4>. QED  BY <2>2, <4>2, Zenon
        <3>. QED  BY <3>1, <3>2 DEF WatchedByEpoll, Alive
    <2>. QED  BY <2>1, <2>2
<1>2. M_events = [c \in Channels |-> M_events[c]]
    BY DEF IInv, TypeOK, ChannelTypeOK
<1>3. WatchedByEpoll = [c \in Channels |-> WatchedByEpoll[c]]
    BY DEF WatchedByEpoll
<1>. QED  BY <1>1, <1>2, <1>3

(* Each step changes the interest of one channel at most.                  *)
LEMMA StepChangesInterest ==
    ASSUME IInv, [Next]_vars
    PROVE  \/ UNCHANGED M_events
           \/ \E c \in Channels, events \in SUBSET Interest :
                 M_events' = [M_events EXCEPT ![c] = events]
<1> USE DEF IInv, TypeOK, ChannelTypeOK
<1>1. ASSUME NEW c \in Channels, NEW call \in Calls, SetEvents(c, call)
      PROVE  \E events \in SUBSET Interest : M_events' = [M_events EXCEPT ![c] = events]
    <2>1. EventsAfter(call, M_events[c]) \in SUBSET Interest
        BY EventsAfterType
    <2>. QED  BY <1>1, <2>1 DEF SetEvents
<1>2. ASSUME NEW c \in Channels, NEW fd \in Fds, New(c, fd) PROVE UNCHANGED M_events
    <2>1. M_events[c] = {}
        BY <1>2 DEF New, Construct, Alive, TablesAgree
    <2>. QED  BY <1>2, <2>1 DEF New, Construct
<1>3. ASSUME NEW c \in Channels, RemoveChannel(c) \/ Delete(c) PROVE UNCHANGED M_events
    BY <1>3 DEF RemoveChannel, Detach, Delete, Destruct
<1>4. ASSUME NEW fds, PollReturns(fds) PROVE UNCHANGED M_events
    BY <1>4 DEF PollReturns, BeginDispatch, channelVars
<1>5. ASSUME DispatchStep PROVE UNCHANGED M_events
    BY <1>5 DEF DispatchStep, Dispatch, HandleEvent, HandlerReturns, EndDispatch, channelVars
<1>6. ASSUME UNCHANGED vars PROVE UNCHANGED M_events
    BY <1>6 DEF vars, channelVars
<1>. QED  BY <1>1, <1>2, <1>3, <1>4, <1>5, <1>6 DEF Next, UpdateAdds, UpdateModifies

(* EPollPoller implements Poller: updateChannel() makes epoll_wait wait    *)
(* for what the channel asks for, and nothing else changes that.           *)
THEOREM Refinement == Spec => ImplementsPoller
<1>1. Init => Abstract!Init
    <2> SUFFICES ASSUME Init PROVE Abstract!Init
        OBVIOUS
    <2>1. WatchedByEpoll = M_events
        BY InitIInv, WatchedIsAsked
    <2>. QED  BY <2>1 DEF Init, ChannelInit, Abstract!Init
<1>2. IInv => WatchedByEpoll = M_events
    BY WatchedIsAsked
<1>3. /\ IInv /\ [Next]_vars
      /\ WatchedByEpoll = M_events
      /\ (WatchedByEpoll = M_events)'
      => [Abstract!Next]_(Abstract!vars)
    BY StepChangesInterest DEF Abstract!Next, Abstract!UpdateChannel, Abstract!vars
<1>. QED  BY Invariance, <1>1, <1>2, <1>3, PTL DEF Spec, ImplementsPoller, Abstract!Spec
=============================================================================
