----------------------------- MODULE PollPoller -----------------------------
(***************************************************************************)
(* PollPoller (PollPoller.cpp) under the channels of one EventLoop: the    *)
(* array M_pollfds handed to poll(2), the position each channel keeps in   *)
(* it, and the map M_channels from descriptors to channels.                *)
(*                                                                         *)
(* poll(2) skips an entry with a negative descriptor; -fd-1 stands for fd  *)
(* without interest.  The assertions on this bookkeeping that a call of    *)
(* updateChannel() or removeChannel() may fail end the program: they set   *)
(* aborted.                                                                *)
(***************************************************************************)
EXTENDS Channel, Sequences

VARIABLES
    M_index,       \* Channel::M_index: -1, or the position in M_pollfds
    M_channels,    \* Poller::M_channels
    M_pollfds,     \* struct pollfd, position 0 first
    aborted        \* the call whose assertion failed, or "no"

pollVars == <<M_index, M_channels, M_pollfds>>
vars     == <<channelVars, loopVars, pollVars, aborted>>

Negated(fd) == -fd - 1

PollFd == [fd : Fds \union {Negated(fd) : fd \in Fds}, events : SUBSET Interest]

TypeOK ==
    /\ ChannelTypeOK
    /\ M_index \in [Channels -> Int]
    /\ M_channels \in [Fds -> Channels \union {NoChannel}]
    /\ M_pollfds \in Seq(PollFd)
    /\ aborted \in {"no", "update", "remove"}

Init ==
    /\ ChannelInit
    /\ M_index = [c \in Channels |-> -1]
    /\ M_channels = [fd \in Fds |-> NoChannel]
    /\ M_pollfds = <<>>
    /\ aborted = "no"

-----------------------------------------------------------------------------
(* updateChannel(), index < 0: a new entry at the end.  The caller sees to *)
(* it that no other channel is registered for the descriptor.              *)
UpdateAdds(c, call) ==
    /\ SetEvents(c, call)
    /\ M_index[c] < 0
    /\ M_channels[M_fd[c]] = NoChannel
    /\ M_pollfds' = Append(M_pollfds, [fd |-> M_fd[c], events |-> M_events'[c]])
    /\ M_index' = [M_index EXCEPT ![c] = Len(M_pollfds)]
    /\ M_channels' = [M_channels EXCEPT ![M_fd[c]] = c]
    /\ UNCHANGED aborted

EntryAsserts(c) ==
    /\ M_channels[M_fd[c]] = c
    /\ M_index[c] \in 0 .. Len(M_pollfds) - 1
    /\ M_pollfds[M_index[c] + 1].fd \in {M_fd[c], Negated(M_fd[c])}

(* updateChannel(), existing entry: the descriptor is negated when no      *)
(* interest is left and never set back.                                    *)
UpdateModifies(c, call) ==
    /\ SetEvents(c, call)
    /\ M_index[c] >= 0
    /\ EntryAsserts(c)
    /\ M_pollfds' = [M_pollfds EXCEPT ![M_index[c] + 1] =
                        [fd |-> IF M_events'[c] = {} THEN Negated(M_fd[c]) ELSE @.fd,
                         events |-> M_events'[c]]]
    /\ UNCHANGED <<M_index, M_channels, aborted>>

(* removeChannel() leaves the channel's index as it is, so that a channel  *)
(* that is updated after its removal fails the assertions above.           *)
UpdateAborts(c, call) ==
    /\ SetEvents(c, call)
    /\ M_index[c] >= 0
    /\ ~EntryAsserts(c)
    /\ aborted' = "update"
    /\ UNCHANGED pollVars

-----------------------------------------------------------------------------
DescriptorOf(pfd) == IF pfd.fd < 0 THEN Negated(pfd.fd) ELSE pfd.fd

(* Fault: the channel of the last entry keeps its old position.            *)
SwapForgetsIndex(idx) ==
    /\ M_pollfds' = SubSeq([M_pollfds EXCEPT ![idx + 1] = M_pollfds[Len(M_pollfds)]],
                           1, Len(M_pollfds) - 1)
    /\ UNCHANGED M_index

(* The entry at idx is replaced by the last one, which is dropped, and the *)
(* channel of the last entry learns its new position.                      *)
SwapWithLastAndPop(idx) ==
    /\ M_pollfds' = SubSeq([M_pollfds EXCEPT ![idx + 1] = M_pollfds[Len(M_pollfds)]],
                           1, Len(M_pollfds) - 1)
    /\ M_index' =
          IF idx + 1 = Len(M_pollfds)
          THEN M_index
          ELSE [M_index EXCEPT
                  ![M_channels[DescriptorOf(M_pollfds[Len(M_pollfds)])]] = idx]

RemoveAsserts(c) ==
    /\ EntryAsserts(c)
    /\ M_pollfds[M_index[c] + 1].fd = Negated(M_fd[c])
    /\ M_pollfds[M_index[c] + 1].events = M_events[c]

RemoveChannel(c) ==
    /\ Detach(c)
    /\ M_addedToLoop[c]
    /\ RemoveAsserts(c)
    /\ SwapWithLastAndPop(M_index[c])
    /\ M_channels' = [M_channels EXCEPT ![M_fd[c]] = NoChannel]
    /\ UNCHANGED aborted

RemoveAborts(c) ==
    /\ Detach(c)
    /\ M_addedToLoop[c]
    /\ ~RemoveAsserts(c)
    /\ aborted' = "remove"
    /\ UNCHANGED pollVars

New(c, fd) ==
    /\ Construct(c, fd)
    /\ M_index' = [M_index EXCEPT ![c] = -1]
    /\ UNCHANGED <<M_channels, M_pollfds, aborted>>

Delete(c) ==
    /\ Destruct(c)
    /\ M_channels[M_fd[c]] # c         \* assert(!M_loop->hasChannel(this))
    /\ UNCHANGED <<pollVars, aborted>>

-----------------------------------------------------------------------------
(* poll() and fillActiveChannels(): poll(2) reports events for any of the  *)
(* entries it looks at, none after a timeout or an error.                  *)
Polled == {i \in DOMAIN M_pollfds : M_pollfds[i].fd >= 0}

PollReturns(entries) ==
    /\ BeginDispatch({M_channels[M_pollfds[i].fd] : i \in entries})
    /\ UNCHANGED <<pollVars, aborted>>

DispatchStep == Dispatch /\ UNCHANGED <<pollVars, aborted>>

Next ==
    /\ aborted = "no"
    /\ \/ \E c \in Channels :
             \/ \E call \in Calls : UpdateAdds(c, call)
             \/ \E call \in Calls : UpdateModifies(c, call)
             \/ \E call \in Calls : UpdateAborts(c, call)
             \/ RemoveChannel(c)
             \/ RemoveAborts(c)
             \/ \E fd \in Fds : New(c, fd)
             \/ Delete(c)
       \/ \E entries \in SUBSET Polled : PollReturns(entries)
       \/ DispatchStep

Spec == Init /\ [][Next]_vars

-----------------------------------------------------------------------------
InMap(c) == Alive(c) /\ M_channels[M_fd[c]] = c

(* updateChannel()/removeChannel(): through every order of additions and   *)
(* swap-with-last removals, each registered channel's index leads to its   *)
(* own entry with its current interest, no entry is left over, and the map *)
(* never names a channel that is gone.                                     *)
IndexConsistent ==
    /\ \A c \in Channels : InMap(c) =>
          /\ M_index[c] \in 0 .. Len(M_pollfds) - 1
          /\ DescriptorOf(M_pollfds[M_index[c] + 1]) = M_fd[c]
          /\ M_pollfds[M_index[c] + 1].events = M_events[c]
    /\ \A i \in DOMAIN M_pollfds :
          \E c \in Channels : InMap(c) /\ M_index[c] = i - 1

-----------------------------------------------------------------------------
(* What a comment or an assertion of the code says and the code does not   *)
(* keep (README, section 4.3).                                             *)

(* removeChannel(): a registered channel without interest and outside the  *)
(* dispatch can be removed: assert(pfd.fd == -channel->fd()-1 && ...).     *)
RemoveSucceeds == aborted # "remove"

WatchedByPoll ==
    [c \in Channels |->
        IF InMap(c) /\ M_index[c] + 1 \in Polled
        THEN M_pollfds[M_index[c] + 1].events
        ELSE {}]

(* updateChannel(): "Changes the interested I/O events" (Poller.h): poll() *)
(* waits for exactly what the channel last asked for, however often its    *)
(* interest went to nothing and came back.                                 *)
InterestIsWatched == aborted = "no" => WatchedByPoll = M_events

=============================================================================
