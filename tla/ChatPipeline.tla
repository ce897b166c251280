---------------------------- MODULE ChatPipeline ----------------------------
(***************************************************************************)
(* The way of a chat message through the servers: TextMessageController    *)
(* saves it in the channel's history (MessageHistoryServiceV2, MongoDB)    *)
(* and publishes it on a Redis topic; on every instance of the server      *)
(* RedisMessageSubscriber notifies the members (MessageNotification-       *)
(* Service) and then sends the message to the subscribers of the channel.  *)
(*                                                                         *)
(* The steps of one message run in order.  Those of different messages do  *)
(* not: STOMP frames are handled by a pool, Redis messages by a thread     *)
(* each, and frames to the browsers are written by a pool again.  Redis    *)
(* delivers at most once, to the instances that listen at the time.  A     *)
(* browser never reconnects a socket it has lost.                          *)
(*                                                                         *)
(* One channel is modelled: channels share nothing but the topic and the   *)
(* pools, and each message carries its channel with it.                    *)
(***************************************************************************)
EXTENDS Sequences, Functions

CONSTANTS
    Messages,
    Instances,          \* servers behind the load balancer
    ChannelSockets,     \* subscribed to /textMessagingChannel/<channel>
    UserSockets,        \* subscribed to /userNotification/<member of the channel>
    Copies,             \* what of a message goes to each socket: see below
    Unopened, Closed    \* a socket without a server

Sockets == ChannelSockets \cup UserSockets

ASSUME SocketAssumption == ChannelSockets \cap UserSockets = {}

\* To a channel a message is sent once; to a user once for each membership that
\* the user has in the channel.
ASSUME CopiesAssumption ==
    /\ \A s \in ChannelSockets : \E only \in Copies[s] : Copies[s] = {only}
    /\ \A u \in UserSockets : Copies[u] # {}

\* The frames of a message for a socket.
Frames(s, m) == {m} \X Copies[s]
AllFrames == UNION {Frames(s, m) : s \in Sockets, m \in Messages}

ASSUME SessionAssumption == Unopened # Closed /\ {Unopened, Closed} \cap Instances = {}

VARIABLES
    history,    \* the messages of the channel's document, as $addToSet adds them
    up,         \* instances that run
    session,    \* the instance each socket is connected to
    stage,      \* how far handleTextMessage is with a message
    at,         \* the instance that runs it
    received,   \* <<instance, message>>: onMessage is about to notify
    notified,   \* <<instance, message>>: onMessage has notified
    outbound,   \* frames the pool has yet to write to a socket
    feed,       \* frames written to a socket, oldest first
    \* History
    past,       \* messages somebody had been sent when a message was sent
    audience,   \* sockets open when a message was published
    failed      \* messages of which Redis or the notification failed

vars == <<history, up, session, stage, at, received, notified, outbound, feed,
          past, audience, failed>>

Open(s) == session[s] \in Instances

\* The type of every variable; and that what an instance holds is in memory:
\* nothing is at an instance that is down, or queued for a socket that is not
\* open.
TypeOK ==
    /\ history \in Seq(Messages)
    /\ up \subseteq Instances
    /\ session \in [Sockets -> Instances \cup {Unopened, Closed}]
    /\ stage \in [Messages -> {"new", "arrived", "saved", "ended"}]
    /\ at \in [Messages -> Instances \cup {Unopened}]
    /\ received \subseteq Instances \X Messages
    /\ notified \subseteq Instances \X Messages
    /\ outbound \in [Sockets -> SUBSET AllFrames]
    /\ feed \in [Sockets -> Seq(AllFrames)]
    /\ past \in [Messages -> SUBSET Messages]
    /\ audience \in [Messages -> SUBSET Sockets]
    /\ failed \subseteq Messages
    /\ \A m \in Messages : stage[m] \in {"arrived", "saved"} => at[m] \in up
    /\ \A t \in received \cup notified : t[1] \in up
    /\ \A s \in Sockets :
          /\ Open(s) => session[s] \in up
          /\ outbound[s] # {} => Open(s)

Init ==
    /\ history = <<>>
    /\ up = Instances
    /\ session = [s \in Sockets |-> Unopened]
    /\ stage = [m \in Messages |-> "new"]
    /\ at = [m \in Messages |-> Unopened]
    /\ received = {}
    /\ notified = {}
    /\ outbound = [s \in Sockets |-> {}]
    /\ feed = [s \in Sockets |-> <<>>]
    /\ past = [m \in Messages |-> {}]
    /\ audience = [m \in Messages |-> {}]
    /\ failed = {}

\* The messages a page has been sent.
Got(s) == {f[1] : f \in Range(feed[s])}

\* What has been sent, or will be, to a socket.
Sent(s) == Range(feed[s]) \cup outbound[s]

-----------------------------------------------------------------------------
(* Browser pages                                                           *)

\* The page's socket is connected, and subscribes.
Connect(s, i) ==
    /\ session[s] = Unopened
    /\ i \in up
    /\ session' = [session EXCEPT ![s] = i]
    /\ UNCHANGED <<history, up, stage, at, received, notified, outbound, feed,
                   past, audience, failed>>

\* A socket closes: the page goes, or the network fails.
Close(s) ==
    /\ Open(s)
    /\ session' = [session EXCEPT ![s] = Closed]
    /\ outbound' = [outbound EXCEPT ![s] = {}]
    /\ UNCHANGED <<history, up, stage, at, received, notified, feed,
                   past, audience, failed>>

\* sendMessageIfNotEmpty: the frame arrives at the instance of the socket.
SendMessage(s, m) ==
    /\ s \in ChannelSockets
    /\ Open(s)
    /\ stage[m] = "new"
    /\ stage' = [stage EXCEPT ![m] = "arrived"]
    /\ at' = [at EXCEPT ![m] = session[s]]
    /\ past' = [past EXCEPT ![m] = UNION {Got(t) : t \in Sockets}]
    /\ UNCHANGED <<history, up, session, received, notified, outbound, feed,
                   audience, failed>>

-----------------------------------------------------------------------------
(* handleTextMessage                                                       *)

\* Mutant: the update is left to the background and may come after the rest.
AddMessageLater(m) ==
    \/ /\ stage[m] = "arrived"
       /\ stage' = [stage EXCEPT ![m] = "saved"]
       /\ UNCHANGED history
       /\ UNCHANGED <<up, session, at, received, notified, outbound, feed,
                      past, audience, failed>>
    \/ /\ stage[m] \in {"saved", "ended"}
       /\ m \notin Range(history)
       /\ history' = Append(history, m)
       /\ UNCHANGED stage
       /\ UNCHANGED <<up, session, at, received, notified, outbound, feed,
                      past, audience, failed>>

\* addMessageToChannelMessageHistory.  The identifier is new, so $addToSet adds
\* the message; ChannelService creates the document with the channel.
AddMessage(m) ==
    /\ stage[m] = "arrived"
    /\ history' = Append(history, m)
    /\ stage' = [stage EXCEPT ![m] = "saved"]
    /\ UNCHANGED <<up, session, at, received, notified, outbound, feed,
                   past, audience, failed>>

\* ... or it throws, with or without effect, and the handler ends.
AddMessageThrows(m) ==
    /\ stage[m] = "arrived"
    /\ history' \in {history, Append(history, m)}
    /\ stage' = [stage EXCEPT ![m] = "ended"]
    /\ UNCHANGED <<up, session, at, received, notified, outbound, feed,
                   past, audience, failed>>

\* Mutant: the message goes to the instance that publishes it only.
PublishLocally(m) ==
    /\ stage[m] = "saved"
    /\ stage' = [stage EXCEPT ![m] = "ended"]
    /\ received' = received \cup {<<at[m], m>>}
    /\ audience' = [audience EXCEPT ![m] = {s \in Sockets : Open(s)}]
    /\ UNCHANGED <<history, up, session, at, notified, outbound, feed, past, failed>>

\* publish: the message gets to the instances that listen, or to some of them.
Publish(m) ==
    /\ stage[m] = "saved"
    /\ stage' = [stage EXCEPT ![m] = "ended"]
    /\ \E reached \in SUBSET up :
          /\ received' = received \cup (reached \X {m})
          /\ failed' = IF reached = up THEN failed ELSE failed \cup {m}
    /\ audience' = [audience EXCEPT ![m] = {s \in Sockets : Open(s)}]
    /\ UNCHANGED <<history, up, session, at, notified, outbound, feed, past>>

-----------------------------------------------------------------------------
(* onMessage                                                               *)

\* Mutant: what is sent waits for sockets that are not there.
QueuedForAbsent(i, m, T) ==
    [s \in Sockets |-> IF s \in T /\ session[s] \in {i, Closed}
                       THEN outbound[s] \cup Frames(s, m) ELSE outbound[s]]

\* What the outbound queues are after m went to the sockets in T of instance i.
Queued(i, m, T) ==
    [s \in Sockets |-> IF s \in T /\ session[s] = i
                       THEN outbound[s] \cup Frames(s, m) ELSE outbound[s]]

\* Mutant: the channel is served first.
NotifyLast(i, m) ==
    /\ <<i, m>> \in received
    /\ received' = received \ {<<i, m>>}
    /\ notified' = notified \cup {<<i, m>>}
    /\ outbound' = Queued(i, m, ChannelSockets)
    /\ UNCHANGED <<history, up, session, stage, at, feed, past, audience, failed>>

\* handleChannelMessageNotifications: the members' users from the database, one
\* for each membership, and a notification for each.
Notify(i, m) ==
    /\ <<i, m>> \in received
    /\ received' = received \ {<<i, m>>}
    /\ notified' = notified \cup {<<i, m>>}
    /\ outbound' = Queued(i, m, UserSockets)
    /\ UNCHANGED <<history, up, session, stage, at, feed, past, audience, failed>>

\* Mutant: a failure half-way through the notifications is retried.
NotifyRetried(i, m) ==
    /\ <<i, m>> \in received
    /\ failed' = failed \cup {m}
    /\ outbound' = Queued(i, m, UserSockets)
    /\ UNCHANGED <<history, up, session, stage, at, received, notified, feed, past, audience>>

\* ... or a query throws: nobody is notified and onMessage ends, the message is
\* not sent to the channel either.
NotifyThrows(i, m) ==
    /\ <<i, m>> \in received
    /\ received' = received \ {<<i, m>>}
    /\ failed' = failed \cup {m}
    /\ UNCHANGED <<history, up, session, stage, at, notified, outbound, feed,
                   past, audience>>

\* convertAndSend to the channel.
SendToChannel(i, m) ==
    /\ <<i, m>> \in notified
    /\ notified' = notified \ {<<i, m>>}
    /\ outbound' = Queued(i, m, ChannelSockets)
    /\ UNCHANGED <<history, up, session, stage, at, received, feed,
                   past, audience, failed>>

\* A thread of the outbound pool writes a frame; which one is not in order.
Write(s, f) ==
    /\ f \in outbound[s]
    /\ outbound' = [outbound EXCEPT ![s] = @ \ {f}]
    /\ feed' = [feed EXCEPT ![s] = Append(@, f)]
    /\ UNCHANGED <<history, up, session, stage, at, received, notified,
                   past, audience, failed>>

-----------------------------------------------------------------------------
(* Instances                                                               *)

\* An instance goes, with its threads, queues and connections.
Crash(i) ==
    /\ i \in up
    /\ up' = up \ {i}
    /\ stage' = [m \in Messages |->
                    IF at[m] = i THEN "ended" ELSE stage[m]]
    /\ received' = {t \in received : t[1] # i}
    /\ notified' = {t \in notified : t[1] # i}
    /\ session' = [s \in Sockets |-> IF session[s] = i THEN Closed ELSE session[s]]
    /\ outbound' = [s \in Sockets |-> IF session[s] = i THEN {} ELSE outbound[s]]
    /\ UNCHANGED <<history, at, feed, past, audience, failed>>

Restart(i) ==
    /\ i \in Instances \ up
    /\ up' = up \cup {i}
    /\ UNCHANGED <<history, session, stage, at, received, notified, outbound,
                   feed, past, audience, failed>>

-----------------------------------------------------------------------------

Environment ==
    \/ \E s \in Sockets :
          \/ \E i \in Instances : Connect(s, i)
          \/ Close(s)
          \/ \E m \in Messages : SendMessage(s, m)
    \/ \E i \in Instances : Crash(i) \/ Restart(i)

\* The steps threads of the servers take.
Handle(m) == AddMessage(m) \/ AddMessageThrows(m) \/ Publish(m)

Dispatch(i, m) == Notify(i, m) \/ NotifyThrows(i, m) \/ SendToChannel(i, m)

Next ==
    \/ Environment
    \/ \E m \in Messages :
          \/ Handle(m)
          \/ \E i \in Instances : Dispatch(i, m)
          \/ \E s \in Sockets : \E f \in Frames(s, m) : Write(s, f)

Spec == Init /\ [][Next]_vars

\* The threads of onMessage and of the outbound pool run on: the queries they
\* wait for end, with a result or an exception, and nothing else makes them wait.
FairSpec ==
    /\ Spec
    /\ \A m \in Messages :
          /\ \A i \in Instances : WF_vars(Dispatch(i, m))
          /\ \A s \in Sockets : \A f \in Frames(s, m) : WF_vars(Write(s, f))

-----------------------------------------------------------------------------
(* Properties                                                              *)

\* The servers implement the channel's promise: messages and notifications are
\* of stored messages, once on a channel's socket and once per membership on a
\* user's, whatever fails or overtakes.
Feed == INSTANCE ChannelFeed WITH log <- history
ImplementsFeed == Feed!Spec

\* A message follows in the history all those that anyone had been sent when it
\* was sent: handleTextMessage saves before it publishes.
HistoryCausal ==
    \A j \in DOMAIN history : \A m \in past[history[j]] :
        \E k \in DOMAIN history : k < j /\ history[k] = m

\* Unless Redis or a notification failed, a published message is on its way to
\* or has arrived at every socket that was open then and still is, on whichever
\* instance: no interleaving drops it.
Accounted ==
    \A m \in Messages \ failed : \A s \in audience[m] :
        \/ session[s] = Closed
        \/ Frames(s, m) \subseteq Sent(s)
        \/ <<session[s], m>> \in received
        \/ s \in ChannelSockets /\ <<session[s], m>> \in notified

\* When an instance has sent a message to a channel's socket, the members that
\* were connected to that instance have been sent the notification: onMessage
\* notifies first.
NotifiedFirst ==
    \A m \in Messages, s \in ChannelSockets, u \in UserSockets :
        (/\ Frames(s, m) \cap Sent(s) # {}
         /\ u \in audience[m] /\ Open(u) /\ session[u] = session[s])
            => Frames(u, m) \subseteq Sent(u)

\* ... and it does arrive, whatever happens to other messages and instances.
AudienceReached ==
    \A m \in Messages, s \in Sockets :
        (s \in audience[m])
            ~> (Frames(s, m) \subseteq Range(feed[s]) \/ session[s] = Closed \/ m \in failed)
=============================================================================
