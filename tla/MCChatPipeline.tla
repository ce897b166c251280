--------------------------- MODULE MCChatPipeline ---------------------------
(* An instance of ChatPipeline for TLC.  Messages, instances and the copies   *)
(* of a message are interchangeable: they are numbers, and come in order.     *)
EXTENDS ChatPipeline, FiniteSets, Integers

CONSTANT Memberships    \* of each user in the channel

CopiesOf == [s \in Sockets |-> IF s \in UserSockets THEN 1..Memberships ELSE {1}]

Written(s, m, copy) == <<m, copy>> \in Range(feed[s])

\* The first message is sent first, the first copy of each is written first, and
\* channels' sockets are on the first instance.
InOrder ==
    /\ \A m, n \in Messages : (m < n /\ stage[n] # "new") => stage[m] # "new"
    /\ \A s \in Sockets, m \in Messages : \A k, l \in Copies[s] :
          (k < l /\ Written(s, m, l)) => Written(s, m, k)
    /\ \A s \in ChannelSockets : session[s] \in {1, Unopened, Closed}

\* One loss shows what there is to show: a socket is gone, with its server or not, or
\* Redis or the notification failed.
OneLoss ==
    /\ Cardinality({s \in Sockets : session[s] = Closed}) + Cardinality(failed) <= 1
    /\ up # {}
=============================================================================
