---------------------------- MODULE EPollPoller ----------------------------
(***************************************************************************)
(* EPollPoller (EPollPoller.cpp) under the channels of one EventLoop: the  *)
(* map M_channels from descriptors to channels, the index each channel     *)
(* carries for the poller, and the kernel's epoll set, which holds raw     *)
(* Channel pointers (event.data.ptr).                                      *)
(***************************************************************************)
EXTENDS Channel

CONSTANT NotInEpoll    \* the descriptor is not in the epoll set

VARIABLES
    M_index,           \* Channel::M_index: kNew, kAdded or kDeleted
    M_channels,        \* Poller::M_channels
    epoll              \* the kernel: descriptor -> [events, ptr]

vars == <<channelVars, loopVars, M_index, M_channels, epoll>>

EpollEntry == [events : SUBSET Interest, ptr : Channels]

ASSUME EPollAssumption == NotInEpoll \notin EpollEntry

TypeOK ==
    /\ ChannelTypeOK
    /\ M_index \in [Channels -> {"kNew", "kAdded", "kDeleted"}]
    /\ M_channels \in [Fds -> Channels \union {NoChannel}]
    /\ epoll \in [Fds -> EpollEntry \union {NotInEpoll}]

Init ==
    /\ ChannelInit
    /\ M_index = [c \in Channels |-> "kNew"]
    /\ M_channels = [fd \in Fds |-> NoChannel]
    /\ epoll = [fd \in Fds |-> NotInEpoll]

-----------------------------------------------------------------------------
(* update(): epoll_ctl with the channel's new interest.                    *)
CtlAddOrMod(c) == [epoll EXCEPT ![M_fd[c]] = [events |-> M_events'[c], ptr |-> c]]
CtlDel(c)      == [epoll EXCEPT ![M_fd[c]] = NotInEpoll]

(* updateChannel(), index kNew or kDeleted: EPOLL_CTL_ADD.  A new channel  *)
(* requires that no other channel is registered for its descriptor.        *)
UpdateAdds(c, call) ==
    /\ SetEvents(c, call)
    /\ M_index[c] \in {"kNew", "kDeleted"}
    /\ M_index[c] = "kNew" => M_channels[M_fd[c]] = NoChannel
    /\ M_channels' = IF M_index[c] = "kNew"
                      THEN [M_channels EXCEPT ![M_fd[c]] = c]
                      ELSE M_channels
    /\ M_index' = [M_index EXCEPT ![c] = "kAdded"]
    /\ epoll' = CtlAddOrMod(c)

(* Fault: no EPOLL_CTL_MOD, the entry keeps the interest it was added with. *)
UpdateModifiesDelOnly(c, call) ==
    /\ SetEvents(c, call)
    /\ M_index[c] = "kAdded"
    /\ \/ /\ M_events'[c] = {}
          /\ epoll' = CtlDel(c)
          /\ M_index' = [M_index EXCEPT ![c] = "kDeleted"]
       \/ /\ M_events'[c] # {}
          /\ UNCHANGED <<epoll, M_index>>
    /\ UNCHANGED M_channels

(* Fault: set_index(kDeleted) is forgotten after EPOLL_CTL_DEL.            *)
UpdateModifiesKeepsIndex(c, call) ==
    /\ SetEvents(c, call)
    /\ M_index[c] = "kAdded"
    /\ epoll' = IF M_events'[c] = {} THEN CtlDel(c) ELSE CtlAddOrMod(c)
    /\ UNCHANGED <<M_index, M_channels>>

(* updateChannel(), index kAdded: EPOLL_CTL_DEL when no interest is left,  *)
(* EPOLL_CTL_MOD otherwise.                                                *)
UpdateModifies(c, call) ==
    /\ SetEvents(c, call)
    /\ M_index[c] = "kAdded"
    /\ \/ /\ M_events'[c] = {}
          /\ epoll' = CtlDel(c)
          /\ M_index' = [M_index EXCEPT ![c] = "kDeleted"]
       \/ /\ M_events'[c] # {}
          /\ epoll' = CtlAddOrMod(c)
          /\ UNCHANGED M_index
    /\ UNCHANGED M_channels

RemoveChannel(c) ==
    /\ Detach(c)
    /\ M_index[c] \in {"kAdded", "kDeleted"}
    /\ M_channels' = [M_channels EXCEPT ![M_fd[c]] = NoChannel]
    /\ epoll' = IF M_index[c] = "kAdded" THEN CtlDel(c) ELSE epoll
    /\ M_index' = [M_index EXCEPT ![c] = "kNew"]

(* The constructor sets M_index to -1 (kNew).                              *)
New(c, fd) ==
    /\ Construct(c, fd)
    /\ M_index' = [M_index EXCEPT ![c] = "kNew"]
    /\ UNCHANGED <<M_channels, epoll>>

Delete(c) ==
    /\ Destruct(c)
    /\ M_channels[M_fd[c]] # c         \* assert(!M_loop->hasChannel(this))
    /\ UNCHANGED <<M_index, M_channels, epoll>>

(* poll() and fillActiveChannels(): epoll_wait hands back the pointers of  *)
(* any of the entries, as many as fit into M_events.  None after a timeout *)
(* or an error.                                                            *)
Registered == {fd \in Fds : epoll[fd] # NotInEpoll}

PollReturns(fds) ==
    /\ BeginDispatch({epoll[fd].ptr : fd \in fds})
    /\ UNCHANGED <<M_index, M_channels, epoll>>

DispatchStep == Dispatch /\ UNCHANGED <<M_index, M_channels, epoll>>

Next ==
    \/ \E c \in Channels :
          \/ \E call \in Calls : UpdateAdds(c, call)
          \/ \E call \in Calls : UpdateModifies(c, call)
          \/ RemoveChannel(c)
          \/ \E fd \in Fds : New(c, fd)
          \/ Delete(c)
    \/ \E fds \in SUBSET Registered : PollReturns(fds)
    \/ DispatchStep

Spec == Init /\ [][Next]_vars

-----------------------------------------------------------------------------
(* update()/removeChannel(): the index is kAdded exactly while the epoll   *)
(* set holds this channel for its descriptor, with the interest it asked   *)
(* for.  Hence no EPOLL_CTL_ADD meets EEXIST and no MOD or DEL meets       *)
(* ENOENT, which update() turns into LOG_SYSFATAL.                         *)
IndexMatchesEpoll ==
    \A c \in Channels : Alive(c) =>
        ((M_index[c] = "kAdded")
            <=> (epoll[M_fd[c]] = [events |-> M_events[c], ptr |-> c]))

(* updateChannel()/removeChannel(): M_channels holds a channel exactly     *)
(* while its index is not kNew, through removal, reuse of the descriptor   *)
(* and reuse of the address; the assertions on M_channels that the two     *)
(* functions make for a channel that is not new follow.                    *)
IndexMatchesMap ==
    \A c \in Channels : Alive(c) =>
        ((M_index[c] # "kNew") <=> (M_channels[M_fd[c]] = c))

(* The index, by which every operation decides what it does, tells the     *)
(* truth about both tables.                                                *)
IndicesAgree == IndexMatchesEpoll /\ IndexMatchesMap

(* fillActiveChannels(): every pointer the kernel can hand back is a live  *)
(* Channel that M_channels knows under that descriptor, although addresses *)
(* and descriptors are reused and channels die without telling the kernel. *)
KernelPointersLive ==
    \A fd \in Fds : epoll[fd] # NotInEpoll =>
        /\ Alive(epoll[fd].ptr)
        /\ M_fd[epoll[fd].ptr] = fd
        /\ M_channels[fd] = epoll[fd].ptr

(* EventLoop::loop() and removeChannel(): a channel still waiting for its  *)
(* handleEvent() in this iteration is not destructed by the handlers that  *)
(* run before it.                                                          *)
UndispatchedLive == \A c \in undispatched : Alive(c)

(* Wherever the loop gets a Channel pointer from, the kernel or its own    *)
(* list, the channel is alive.                                             *)
ReportedChannelsLive == KernelPointersLive /\ UndispatchedLive

(* updateChannel()/removeChannel(): epoll_wait waits for exactly what the  *)
(* channel last asked for, through every order of enabling, disabling,     *)
(* removing and registering again.                                         *)
WatchedByEpoll ==
    [c \in Channels |->
        IF Alive(c) /\ epoll[M_fd[c]] # NotInEpoll /\ epoll[M_fd[c]].ptr = c
        THEN epoll[M_fd[c]].events
        ELSE {}]

Abstract == INSTANCE Poller WITH asked <- M_events, watched <- WatchedByEpoll
ImplementsPoller == Abstract!Spec

=============================================================================
