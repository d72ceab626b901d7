------------------------------- MODULE Poller -------------------------------
(***************************************************************************)
(* What Poller.h promises to a Channel: updateChannel() "changes the       *)
(* interested I/O events", so that the events poll() waits for are at any  *)
(* time the ones the channel last asked for.  The pollers' tables, indices *)
(* and system calls are absent.                                            *)
(***************************************************************************)
CONSTANTS Channels, Interest

VARIABLES asked,      \* the events a channel last asked for
          watched     \* the events poll() waits for

vars == <<asked, watched>>

Init ==
    /\ asked = [c \in Channels |-> {}]
    /\ watched = [c \in Channels |-> {}]

(* A channel is removed only once it asks for nothing: no action of its    *)
(* own is needed for removeChannel().                                      *)
UpdateChannel(c, events) ==
    /\ asked' = [asked EXCEPT ![c] = events]
    /\ watched' = [watched EXCEPT ![c] = events]

Next == \E c \in Channels, events \in SUBSET Interest : UpdateChannel(c, events)

Spec == Init /\ [][Next]_vars

=============================================================================
