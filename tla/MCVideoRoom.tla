---------------------------- MODULE MCVideoRoom ----------------------------
(* Instances of VideoRoom for TLC.  Clients and rooms are interchangeable:   *)
(* they are numbers, and which of them does something is chosen.             *)
EXTENDS VideoRoom, Integers

Started == {c \in Clients : handler[c] # "none"}

\* Two clients may do anything; the first to start takes room 1.
Two ==
    /\ Started \in {{}, {1}, {1, 2}}
    /\ room[1] # 2

\* With a third there is one room, one client disconnects, and no unsynchronized
\* access goes wrong.
OneDeparture ==
    /\ \A c \in Started : handler[c] # "leave" /\ (handler[c] = "disconnect" => c = 1)
    /\ 3 \in Started => 2 \in Started
    /\ \A c \in Clients : room[c] # 2
    /\ ~torn

Bounds == Two \/ OneDeparture
=============================================================================
