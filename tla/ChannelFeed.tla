----------------------------- MODULE ChannelFeed -----------------------------
(***************************************************************************)
(* What a chat channel promises to the sockets that listen to it: one      *)
(* history, to which each message is added once, and to each socket        *)
(* messages of the history only, each at most once per copy the socket is  *)
(* due: one on a channel's socket, one per membership on a user's.  In     *)
(* which order, and whether all of them, it does not promise.              *)
(***************************************************************************)
EXTENDS Sequences, Functions

CONSTANTS
    Messages,   \* messages, told apart by their identifier
    Sockets,    \* connections of browser pages
    Copies      \* the copies of a message for each of them

VARIABLES
    log,    \* the history of the channel
    feed    \* what each socket was sent, oldest first

vars == <<log, feed>>

Init ==
    /\ log = <<>>
    /\ feed = [s \in Sockets |-> <<>>]

Post(m) ==
    /\ m \notin Range(log)
    /\ log' = Append(log, m)
    /\ UNCHANGED feed

Show(s, m, copy) ==
    /\ m \in Range(log) /\ <<m, copy>> \notin Range(feed[s])
    /\ feed' = [feed EXCEPT ![s] = Append(@, <<m, copy>>)]
    /\ UNCHANGED log

Next == \E m \in Messages :
           Post(m) \/ \E s \in Sockets : \E copy \in Copies[s] : Show(s, m, copy)

Spec == Init /\ [][Next]_vars
=============================================================================
