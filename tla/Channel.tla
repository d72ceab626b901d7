------------------------------- MODULE Channel -------------------------------
(***************************************************************************)
(* Channel (Channel.h, Channel.cpp): what every Channel object keeps and   *)
(* how it takes part in one iteration of EventLoop::loop().  The pollers   *)
(* extend this module with their own tables.                               *)
(*                                                                         *)
(* A member of Channels is the address of a Channel object: it may be      *)
(* constructed, destructed and constructed again with another descriptor.  *)
(* A descriptor may be used by several objects, one registration at a time *)
(* (Connector keeps its unregistered channel while TcpConnection wraps the *)
(* same socket), and is reused after its socket is closed.                 *)
(***************************************************************************)
EXTENDS Integers

CONSTANTS Channels,    \* addresses of Channel objects
          Fds,         \* file descriptors
          NoFd,        \* no object lives at this address
          NoChannel    \* the null Channel pointer

ASSUME ChannelAssumption ==
    /\ Fds \subseteq Nat
    /\ NoFd \notin Fds
    /\ NoChannel \notin Channels

Interest == {"read", "write"}     \* kReadEvent, kWriteEvent

VARIABLES
    M_fd,                     \* the object's descriptor
    M_events,                 \* the interest the object has asked for
    M_addedToLoop,
    M_activeChannels,         \* EventLoop: reported by the last poll()
    undispatched,             \* the part of M_activeChannels still to handle
    M_currentActiveChannel,   \* EventLoop: whose handleEvent() is running
    M_eventHandling           \* EventLoop: dispatching M_activeChannels

channelVars == <<M_fd, M_events, M_addedToLoop>>
loopVars    == <<M_activeChannels, undispatched, M_currentActiveChannel,
                 M_eventHandling>>

ChannelTypeOK ==
    /\ M_fd \in [Channels -> Fds \union {NoFd}]
    /\ M_events \in [Channels -> SUBSET Interest]
    /\ M_addedToLoop \in [Channels -> BOOLEAN]
    /\ M_activeChannels \subseteq Channels
    /\ undispatched \subseteq M_activeChannels
    /\ M_currentActiveChannel \in Channels \union {NoChannel}
    /\ M_eventHandling \in BOOLEAN

ChannelInit ==
    /\ M_fd = [c \in Channels |-> NoFd]
    /\ M_events = [c \in Channels |-> {}]
    /\ M_addedToLoop = [c \in Channels |-> FALSE]
    /\ M_activeChannels = {}
    /\ undispatched = {}
    /\ M_currentActiveChannel = NoChannel
    /\ M_eventHandling = FALSE

Alive(c) == M_fd[c] # NoFd

-----------------------------------------------------------------------------
(* enableReading() ... disableAll(): the interest the call leaves behind.  *)
Calls == {"enableReading", "disableReading", "enableWriting",
          "disableWriting", "disableAll"}

EventsAfter(call, events) ==
    CASE call = "enableReading"  -> events \union {"read"}
      [] call = "disableReading" -> events \ {"read"}
      [] call = "enableWriting"  -> events \union {"write"}
      [] call = "disableWriting" -> events \ {"write"}
      [] call = "disableAll"     -> {}

(* Where the loop thread runs code that may use channels: functors and     *)
(* timers outside the dispatch, and the handler of the current channel.    *)
InUserCode == ~M_eventHandling \/ M_currentActiveChannel # NoChannel

(* update(): the part that is the channel's own.                           *)
SetEvents(c, call) ==
    /\ InUserCode
    /\ Alive(c)
    /\ M_events' = [M_events EXCEPT ![c] = EventsAfter(call, M_events[c])]
    /\ M_addedToLoop' = [M_addedToLoop EXCEPT ![c] = TRUE]
    /\ UNCHANGED <<M_fd, loopVars>>

(* Fault: without the check of M_activeChannels.                           *)
MayRemoveUnchecked(c) == Alive(c) /\ M_events[c] = {}

(* Channel::remove() and the checks of EventLoop::removeChannel().         *)
MayRemove(c) ==
    /\ Alive(c)
    /\ M_events[c] = {}
    /\ M_eventHandling => (M_currentActiveChannel = c \/ c \notin M_activeChannels)

Detach(c) ==
    /\ InUserCode
    /\ MayRemove(c)
    /\ M_addedToLoop' = [M_addedToLoop EXCEPT ![c] = FALSE]
    /\ UNCHANGED <<M_fd, M_events, loopVars>>

Construct(c, fd) ==
    /\ InUserCode
    /\ ~Alive(c)
    /\ M_fd' = [M_fd EXCEPT ![c] = fd]
    /\ M_events' = [M_events EXCEPT ![c] = {}]
    /\ M_addedToLoop' = [M_addedToLoop EXCEPT ![c] = FALSE]
    /\ UNCHANGED loopVars

(* ~Channel(): asserts that no handler of the channel is running and that  *)
(* the channel was removed.                                                *)
Destruct(c) ==
    /\ InUserCode
    /\ Alive(c)
    /\ M_currentActiveChannel # c
    /\ ~M_addedToLoop[c]
    /\ M_fd' = [M_fd EXCEPT ![c] = NoFd]
    /\ UNCHANGED <<M_events, M_addedToLoop, loopVars>>

-----------------------------------------------------------------------------
(* One iteration of EventLoop::loop().                                     *)

BeginDispatch(reported) ==
    /\ ~M_eventHandling
    /\ M_activeChannels' = reported
    /\ undispatched' = reported
    /\ M_eventHandling' = TRUE
    /\ UNCHANGED <<channelVars, M_currentActiveChannel>>

HandleEvent(c) ==
    /\ M_eventHandling
    /\ M_currentActiveChannel = NoChannel
    /\ c \in undispatched
    /\ undispatched' = undispatched \ {c}
    /\ M_currentActiveChannel' = c
    /\ UNCHANGED <<channelVars, M_activeChannels, M_eventHandling>>

HandlerReturns ==
    /\ M_currentActiveChannel # NoChannel
    /\ M_currentActiveChannel' = NoChannel
    /\ UNCHANGED <<channelVars, M_activeChannels, undispatched, M_eventHandling>>

(* loop() empties M_activeChannels just before the next poll(); nothing    *)
(* reads it in between, so that it is emptied here.                        *)
EndDispatch ==
    /\ M_eventHandling
    /\ M_currentActiveChannel = NoChannel
    /\ undispatched = {}
    /\ M_eventHandling' = FALSE
    /\ M_activeChannels' = {}
    /\ UNCHANGED <<channelVars, undispatched, M_currentActiveChannel>>

Dispatch == (\E c \in Channels : HandleEvent(c)) \/ HandlerReturns \/ EndDispatch

=============================================================================
