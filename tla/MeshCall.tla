------------------------------ MODULE MeshCall ------------------------------
(***************************************************************************)
(* The peer connections of one video call: the page groupWebRtc.js of each *)
(* client, and the relays of GroupVideoCallSocketHandler (onOffer,         *)
(* onAnswer, onCandidate) between them.                                    *)
(*                                                                         *)
(* Who is told to offer to whom is taken from VideoRoom: a client is listed *)
(* any of those in the call or gone, its own name apart, those included    *)
(* that came after it and list it themselves (NoGlare says when); and a    *)
(* departure is told to everybody in the call but, maybe, to clients that  *)
(* came into the room after it and were not listed to the client that left *)
(* (CalleeTold).                                                           *)
(*                                                                         *)
(* A page runs one handler or promise callback at a time.  What a handler  *)
(* leaves to a promise is an action of its own.  Each client makes at most *)
(* two connections to another, one to offer and one to answer with, and    *)
(* keeps one of them in its map: the last it made.                         *)
(***************************************************************************)
EXTENDS Sequences

CONSTANTS Clients, Nobody

ASSUME NobodyAssumption == Nobody \notin Clients

Pairs == Clients \X Clients     \* <<client, peer>>

Roles == {"offer", "answer"}

VARIABLES
    joined,     \* "out", "in" the call, or "gone"
    list,       \* whom "joined" told the client to offer to
    camera,     \* localStream: "none" until the page is sent "created" or "joined",
                \* "off" until the user allows it, or refuses
    inbox,      \* events on their way to a page
    toOffer,    \* what the loop over the list has left
    table,      \* rtcPeerConnectionsMap: the role of the connection to a peer
    current,    \* the global rtcPeerConnection: the peer of the last offer
    offerSig,   \* signaling state of the connection a client offers to a peer
    answerSig,  \* ... and of the one with which it answers the peer
    remote,     \* <<client, peer>> of the connection whose answer an offer was given
    task,       \* the promise chain of an offer that came
    asked,      \* ... and the peer whose connection it asked for an answer
    trickled,   \* <<peer, role>> of the connections whose candidate was sent
    added,      \* peers whose offer's candidate was added to the answer
    screens,    \* peers whose video the page shows
    \* History
    deaf,       \* <<client, peer>>: the peer's offer came before the camera
    overlapped, \* clients that took an offer while they answered another
    late        \* <<client, peer>>: it heard that the peer left while it set its offer

page == <<camera, toOffer, table, current, offerSig, answerSig, remote, task, asked,
          trickled, added, screens>>
vars == <<joined, list, inbox, page, deaf, overlapped, late>>

call == <<joined, list>>
user == <<camera, toOffer>>
ends == <<offerSig, answerSig, remote>>
chain == <<task, asked>>
candidates == <<trickled, added>>
history == <<deaf, overlapped, late>>

OfferStates == {"none", "have-local-offer", "stable"}

AnswerStates == {"none", "new", "have-remote-offer", "answered", "stable"}

\* The type of every variable; and that the connection asked for an answer exists.
TypeOK ==
    /\ joined \in [Clients -> {"out", "in", "gone"}]
    /\ list \in [Clients -> SUBSET Clients]
    /\ camera \in [Clients -> {"none", "off", "on", "denied"}]
    /\ \A c \in Clients : \A i \in DOMAIN inbox[c] :
          inbox[c][i] \in [type : {"offer", "answer", "candidate", "left"},
                           from : Clients, by : Clients \cup {Nobody}]
    /\ toOffer \in [Clients -> SUBSET Clients]
    /\ table \in [Pairs -> Roles \cup {"none"}]
    /\ current \in [Clients -> Clients \cup {Nobody}]
    /\ offerSig \in [Pairs -> OfferStates]
    /\ answerSig \in [Pairs -> AnswerStates]
    /\ remote \in [Pairs -> Pairs \cup {Nobody}]
    /\ task \in [Pairs -> {"none", "setting", "answering"}]
    /\ asked \in [Pairs -> Clients \cup {Nobody}]
    /\ trickled \in [Clients -> SUBSET (Clients \X Roles)]
    /\ added \in [Clients -> SUBSET Clients]
    /\ screens \in [Clients -> SUBSET Clients]
    /\ deaf \subseteq Pairs
    /\ overlapped \subseteq Clients
    /\ late \subseteq Pairs
    /\ \A e \in Pairs : task[e] = "answering" => answerSig[<<e[1], asked[e]>>] # "none"

Init ==
    /\ joined = [c \in Clients |-> "out"]
    /\ list = [c \in Clients |-> {}]
    /\ camera = [c \in Clients |-> "none"]
    /\ inbox = [c \in Clients |-> <<>>]
    /\ toOffer = [c \in Clients |-> {}]
    /\ table = [e \in Pairs |-> "none"]
    /\ current = [c \in Clients |-> Nobody]
    /\ offerSig = [e \in Pairs |-> "none"]
    /\ answerSig = [e \in Pairs |-> "none"]
    /\ remote = [e \in Pairs |-> Nobody]
    /\ task = [e \in Pairs |-> "none"]
    /\ asked = [e \in Pairs |-> Nobody]
    /\ trickled = [c \in Clients |-> {}]
    /\ added = [c \in Clients |-> {}]
    /\ screens = [c \in Clients |-> {}]
    /\ deaf = {}
    /\ overlapped = {}
    /\ late = {}

-----------------------------------------------------------------------------
(* Events                                                                  *)

\* "by" is the peer of the answering connection that an answer or a candidate comes
\* from, Nobody for one that offers.
Event(type, from, by) == [type |-> type, from |-> from, by |-> by]

\* A relay sends the event on; a target that is gone is null to it.
Relay(to, e) ==
    inbox' = IF joined[to] = "in" THEN [inbox EXCEPT ![to] = Append(@, e)] ELSE inbox

\* The next event of c, which its page handles: "created" or "joined" came first.
Sender(c) == Head(inbox[c]).from

Handles(c, type) ==
    /\ joined[c] = "in"
    /\ camera[c] # "none"
    /\ inbox[c] # <<>>
    /\ Head(inbox[c]).type = type
    /\ inbox' = [inbox EXCEPT ![c] = Tail(@)]

\* onAddStream: the page shows the video of p, once.
AddStream(c, p) == screens' = [screens EXCEPT ![c] = @ \cup {p}]

-----------------------------------------------------------------------------
(* Coming and going                                                        *)

\* joinRoom: from now on the server can reach the client.
Join(c) ==
    /\ joined[c] = "out"
    /\ joined' = [joined EXCEPT ![c] = "in"]
    /\ UNCHANGED <<list, inbox, page, history>>

\* "created", or "joined" with a list: the page asks for the camera.
OnJoined(c, L) ==
    /\ joined[c] = "in"
    /\ camera[c] = "none"
    /\ L \subseteq {p \in Clients \ {c} : joined[p] # "out"}
    /\ camera' = [camera EXCEPT ![c] = "off"]
    /\ list' = [list EXCEPT ![c] = L]
    /\ toOffer' = [toOffer EXCEPT ![c] = L]
    /\ UNCHANGED <<joined, inbox, table, current, ends, chain, candidates, screens,
                   history>>

\* getUserMedia is resolved; or it is rejected, and the handler ends.
AllowCamera(c) ==
    /\ joined[c] = "in"
    /\ camera[c] = "off"
    /\ camera' = [camera EXCEPT ![c] = "on"]
    /\ UNCHANGED <<call, inbox, toOffer, table, current, ends, chain,
                   candidates, screens, history>>

DenyCamera(c) ==
    /\ joined[c] = "in"
    /\ camera[c] = "off"
    /\ camera' = [camera EXCEPT ![c] = "denied"]
    /\ UNCHANGED <<call, inbox, toOffer, table, current, ends, chain,
                   candidates, screens, history>>

\* Who may not be told that c is gone: clients it has not been listed that list it,
\* or may be going to.
MayMiss(c) == {p \in Clients \ list[c] : c \in list[p] \/ camera[p] = "none"}

\* Mutant: what has a remote description goes on to be answered.
LeaveGoesOn(c) ==
    /\ joined[c] = "in"
    /\ joined' = [joined EXCEPT ![c] = "gone"]
    /\ \E missed \in SUBSET MayMiss(c) :
          inbox' = [p \in Clients |->
                       IF p = c THEN <<>>
                       ELSE IF joined[p] = "in" /\ p \notin missed
                            THEN Append(inbox[p], Event("left", c, Nobody))
                            ELSE inbox[p]]
    /\ camera' = [camera EXCEPT ![c] = "off"]
    /\ toOffer' = [toOffer EXCEPT ![c] = {}]
    /\ table' = [e \in Pairs |-> IF e[1] = c THEN "none" ELSE table[e]]
    /\ current' = [current EXCEPT ![c] = Nobody]
    /\ offerSig' = [e \in Pairs |-> IF e[1] = c THEN "none" ELSE offerSig[e]]
    /\ answerSig' = [e \in Pairs |-> IF e[1] = c THEN "none" ELSE answerSig[e]]
    /\ remote' = [e \in Pairs |-> IF e[1] = c THEN Nobody ELSE remote[e]]
    /\ task' = [e \in Pairs |-> IF e[1] = c /\ task[e] = "setting" THEN "none" ELSE task[e]]
    /\ trickled' = [trickled EXCEPT ![c] = {}]
    /\ added' = [added EXCEPT ![c] = {}]
    /\ screens' = [screens EXCEPT ![c] = {}]
    /\ UNCHANGED <<list, asked, history>>

\* The page goes with all it holds, and the others are told.
Leave(c) ==
    /\ joined[c] = "in"
    /\ joined' = [joined EXCEPT ![c] = "gone"]
    /\ \E missed \in SUBSET MayMiss(c) :
          inbox' = [p \in Clients |->
                       IF p = c THEN <<>>
                       ELSE IF joined[p] = "in" /\ p \notin missed
                            THEN Append(inbox[p], Event("left", c, Nobody))
                            ELSE inbox[p]]
    /\ camera' = [camera EXCEPT ![c] = "off"]
    /\ toOffer' = [toOffer EXCEPT ![c] = {}]
    /\ table' = [e \in Pairs |-> IF e[1] = c THEN "none" ELSE table[e]]
    /\ current' = [current EXCEPT ![c] = Nobody]
    /\ offerSig' = [e \in Pairs |-> IF e[1] = c THEN "none" ELSE offerSig[e]]
    /\ answerSig' = [e \in Pairs |-> IF e[1] = c THEN "none" ELSE answerSig[e]]
    /\ remote' = [e \in Pairs |-> IF e[1] = c THEN Nobody ELSE remote[e]]
    /\ task' = [e \in Pairs |-> IF e[1] = c THEN "none" ELSE task[e]]
    /\ asked' = [e \in Pairs |-> IF e[1] = c THEN Nobody ELSE asked[e]]
    /\ trickled' = [trickled EXCEPT ![c] = {}]
    /\ added' = [added EXCEPT ![c] = {}]
    /\ screens' = [screens EXCEPT ![c] = {}]
    /\ UNCHANGED <<list, history>>

\* Mutant: the video of the client that left stays.
OnLeftKeepsVideo(c) ==
    LET p == Sender(c) IN
    /\ Handles(c, "left")
    /\ table' = [table EXCEPT ![<<c, p>>] = "none"]
    /\ late' = IF task[<<c, p>>] = "setting" THEN late \cup {<<c, p>>} ELSE late
    /\ UNCHANGED <<call, user, current, ends, chain, candidates, screens, deaf,
                   overlapped>>

\* "userDisconnected": the video goes and the connection leaves the table; it is not
\* closed, and the callbacks that hold it go on.
OnLeft(c) ==
    LET p == Sender(c) IN
    /\ Handles(c, "left")
    /\ table' = [table EXCEPT ![<<c, p>>] = "none"]
    /\ screens' = [screens EXCEPT ![c] = @ \ {p}]
    /\ late' = IF task[<<c, p>>] = "setting" THEN late \cup {<<c, p>>} ELSE late
    /\ UNCHANGED <<call, user, current, ends, chain, candidates, deaf, overlapped>>

-----------------------------------------------------------------------------
(* Who offers                                                              *)

\* The next turn of the loop of "joined": a connection, its offer, the table.
SendOffer(c, p) ==
    /\ joined[c] = "in"
    /\ camera[c] = "on"
    /\ p \in toOffer[c]
    /\ toOffer' = [toOffer EXCEPT ![c] = @ \ {p}]
    /\ offerSig' = [offerSig EXCEPT ![<<c, p>>] = "have-local-offer"]
    /\ table' = [table EXCEPT ![<<c, p>>] = "offer"]
    /\ Relay(p, Event("offer", c, Nobody))
    /\ UNCHANGED <<call, camera, current, answerSig, remote, chain, candidates, screens,
                   history>>

\* The connection that the page finds for the peer waits for an answer.
Awaits(c, p) == table[<<c, p>>] = "offer" /\ offerSig[<<c, p>>] = "have-local-offer"

Accept(c, p) ==
    /\ offerSig' = [offerSig EXCEPT ![<<c, p>>] = "stable"]
    /\ remote' = [remote EXCEPT ![<<c, p>>] = <<Sender(c), Head(inbox[c]).by>>]
    /\ AddStream(c, p)

\* Mutant: any connection that waits for an answer takes it.
OnAnswerUnmatched(c) ==
    /\ Handles(c, "answer")
    /\ \/ \E q \in Clients : Awaits(c, q) /\ Accept(c, q)
       \/ /\ \A q \in Clients : ~Awaits(c, q)
          /\ UNCHANGED <<offerSig, remote, screens>>
    /\ UNCHANGED <<call, user, table, current, answerSig, chain, candidates, history>>

\* "answer": the description becomes the remote one of the connection in the table,
\* and the track it announces opens a video (onAddStream).  Without a connection the
\* handler throws; one that is stable, or answers the peer, is left alone.
OnAnswer(c) ==
    LET p == Sender(c) IN
    /\ Handles(c, "answer")
    /\ \/ Awaits(c, p) /\ Accept(c, p)
       \/ ~Awaits(c, p) /\ UNCHANGED <<offerSig, remote, screens>>
    /\ UNCHANGED <<call, user, table, current, answerSig, chain, candidates, history>>

-----------------------------------------------------------------------------
(* Who answers                                                             *)

Answering(c) == \E p \in Clients : task[<<c, p>>] # "none"

\* "offer": a new connection, in the global and, whatever is there, in the table; its
\* remote description is being set.  Without a camera localStream is undefined: the
\* handler throws.
OnOffer(c) ==
    LET p == Sender(c) IN
    /\ Handles(c, "offer")
    /\ current' = [current EXCEPT ![c] = p]
    /\ IF camera[c] = "on"
         THEN /\ answerSig' = [answerSig EXCEPT ![<<c, p>>] = "new"]
              /\ task' = [task EXCEPT ![<<c, p>>] = "setting"]
              /\ table' = [table EXCEPT ![<<c, p>>] = "answer"]
              /\ overlapped' = IF Answering(c) THEN overlapped \cup {c} ELSE overlapped
              /\ UNCHANGED deaf
         ELSE /\ deaf' = deaf \cup {<<c, p>>}
              /\ UNCHANGED <<answerSig, task, table, overlapped>>
    /\ UNCHANGED <<call, user, offerSig, remote, asked, candidates, screens, late>>

\* Mutant: the connection is put into the table when it is usable.
RemoteSetStores(c, p) ==
    /\ task[<<c, p>>] = "setting"
    /\ answerSig' = [answerSig EXCEPT ![<<c, p>>] = "have-remote-offer"]
    /\ AddStream(c, p)
    /\ task' = [task EXCEPT ![<<c, p>>] = "answering"]
    /\ asked' = [asked EXCEPT ![<<c, p>>] = current[c]]
    /\ table' = [table EXCEPT ![<<c, p>>] = "answer"]
    /\ UNCHANGED <<call, inbox, user, current, offerSig, remote, candidates, history>>

\* The remote description is set, and its track opens a video: the global, whichever
\* connection it is by now, is asked for an answer.
RemoteSet(c, p) ==
    /\ task[<<c, p>>] = "setting"
    /\ answerSig' = [answerSig EXCEPT ![<<c, p>>] = "have-remote-offer"]
    /\ AddStream(c, p)
    /\ task' = [task EXCEPT ![<<c, p>>] = "answering"]
    /\ asked' = [asked EXCEPT ![<<c, p>>] = current[c]]
    /\ UNCHANGED <<call, inbox, user, table, current, offerSig, remote, candidates,
                   history>>

\* Mutant: the answer is sent and not set.
AnswerNotSet(c, p) ==
    LET q == asked[<<c, p>>] IN
    /\ task[<<c, p>>] = "answering"
    /\ answerSig[<<c, q>>] \in {"have-remote-offer", "answered"}
    /\ task' = [task EXCEPT ![<<c, p>>] = "none"]
    /\ Relay(p, Event("answer", c, q))
    /\ UNCHANGED <<call, user, table, current, ends, asked, candidates, screens, history>>

\* The connection asked takes its operations in order: it answers when its own
\* remote description is set.  The answer is sent, and set on the global: only the
\* connection that made it accepts it.
AnswerMade(c, p) ==
    LET q == asked[<<c, p>>] IN
    /\ task[<<c, p>>] = "answering"
    /\ answerSig[<<c, q>>] \in {"have-remote-offer", "answered"}
    /\ task' = [task EXCEPT ![<<c, p>>] = "none"]
    /\ answerSig' = [answerSig EXCEPT ![<<c, q>>] = IF current[c] = q THEN "answered" ELSE @]
    /\ Relay(p, Event("answer", c, q))
    /\ UNCHANGED <<call, user, table, current, offerSig, remote, asked, candidates,
                   screens, history>>

\* A stable connection makes no answer: the chain ends in its catch.
AnswerRefused(c, p) ==
    /\ task[<<c, p>>] = "answering"
    /\ answerSig[<<c, asked[<<c, p>>]>>] = "stable"
    /\ task' = [task EXCEPT ![<<c, p>>] = "none"]
    /\ UNCHANGED <<call, inbox, user, table, current, ends, asked, candidates, screens,
                   history>>

\* setLocalDescription has taken effect.
LocalSet(c, p) ==
    /\ answerSig[<<c, p>>] = "answered"
    /\ answerSig' = [answerSig EXCEPT ![<<c, p>>] = "stable"]
    /\ UNCHANGED <<call, inbox, user, table, current, offerSig, remote, chain,
                   candidates, screens, history>>

-----------------------------------------------------------------------------
(* Candidates                                                              *)

\* onIceCandidate: from the time its local description is set, a connection finds
\* candidates; one stands for all of them.
SendCandidate(c, p, role) ==
    /\ \/ role = "offer" /\ offerSig[<<c, p>>] # "none"
       \/ role = "answer" /\ answerSig[<<c, p>>] = "stable"
    /\ <<p, role>> \notin trickled[c]
    /\ trickled' = [trickled EXCEPT ![c] = @ \cup {<<p, role>>}]
    /\ Relay(p, Event("candidate", c, IF role = "offer" THEN Nobody ELSE p))
    /\ UNCHANGED <<call, user, table, current, ends, chain, added, screens, history>>

\* Mutant: a candidate that comes before the answer is set is dropped.
OnCandidateOnceStable(c) ==
    LET p == Sender(c) IN
    /\ Handles(c, "candidate")
    /\ added' = IF /\ table[<<c, p>>] = "answer" /\ Head(inbox[c]).by = Nobody
                   /\ answerSig[<<c, p>>] = "stable"
                  THEN [added EXCEPT ![c] = @ \cup {p}] ELSE added
    /\ UNCHANGED <<call, user, table, current, ends, chain, trickled, screens, history>>

\* "candidate": given to the connection in the table, once the offer of the peer is
\* set.  A connection that offers is given none unless there was an offer of the peer
\* as well: only that leaves a promise in remoteDescriptionPromisesMap.  What counts is
\* the candidate of an offer that gets to the connection that answers it.
OnCandidate(c) ==
    LET p == Sender(c) IN
    /\ Handles(c, "candidate")
    /\ added' = IF table[<<c, p>>] = "answer" /\ Head(inbox[c]).by = Nobody
                  THEN [added EXCEPT ![c] = @ \cup {p}] ELSE added
    /\ UNCHANGED <<call, user, table, current, ends, chain, trickled, screens, history>>

-----------------------------------------------------------------------------

\* What users do, and the server's answer to a client that joins.
Users ==
    \E c \in Clients :
        \/ Join(c)
        \/ \E L \in SUBSET Clients : OnJoined(c, L)
        \/ AllowCamera(c) \/ DenyCamera(c)
        \/ Leave(c)

\* What the page of c does by itself.
Page(c) ==
    \/ OnLeft(c) \/ OnOffer(c) \/ OnAnswer(c) \/ OnCandidate(c)
    \/ \E p \in Clients :
          \/ SendOffer(c, p)
          \/ RemoteSet(c, p)
          \/ AnswerMade(c, p) \/ AnswerRefused(c, p)
          \/ LocalSet(c, p)
          \/ \E role \in Roles : SendCandidate(c, p, role)

Next == Users \/ \E c \in Clients : Page(c)

Spec == Init /\ [][Next]_vars

\* A client that stays is sent "created" or "joined" (who is listed has been, and
\* its packet is taken), its events arrive, and the browser resolves its promises.
\* A page's steps run out until an event comes, so fairness to all of them together
\* is fairness to each.
FairSpec ==
    Spec /\ \A c \in Clients :
               WF_vars(Page(c)) /\ WF_vars(\E L \in SUBSET Clients : OnJoined(c, L))

-----------------------------------------------------------------------------
(* Properties                                                              *)

\* "find the matching rtcPeerConnection by answerClientId": the answer to an offer
\* comes from the peer's connection to the client that offered.
AnswerMatches == \A c, p \in Clients : remote[<<c, p>>] \in {<<p, c>>, Nobody}

\* Wrong answers are due to overlap alone: they come from a client that took a second
\* offer while it answered a first.
WrongOnlyIfOverlapped ==
    \A c, p \in Clients : p \notin overlapped => remote[<<c, p>>] \in {<<p, c>>, Nobody}

\* The two ends of a call agree: who has the answer of a client without overlap can
\* be sure that it is that of the connection made for its own offer, and that it is set
\* there as well or about to be, even where offers crossed.
EndsAgree ==
    \A c, p \in Clients :
        (offerSig[<<p, c>>] = "stable" /\ joined[c] = "in" /\ c \notin overlapped)
            => remote[<<p, c>>] = <<c, p>> /\ answerSig[<<c, p>>] \in {"answered", "stable"}

Announced(p, c) == \E i \in DOMAIN inbox[c] : inbox[c][i] = Event("left", p, Nobody)

\* A client that answers forgets those that left: with the departure of a peer known
\* the connection it answered with is not in the table again, however late the answer
\* is made.
DepartedForgotten ==
    \A c, p \in Clients :
        (joined[c] = "in" /\ joined[p] = "gone" /\ table[<<c, p>>] = "answer")
            => Announced(p, c)

\* No video of somebody who left, at those it was listed: it stays only if the client
\* heard of the departure while it was setting the offer.
VideoOfDeparted ==
    \A c, p \in Clients :
        (joined[c] = "in" /\ joined[p] = "gone" /\ p \in screens[c] /\ c \in list[p])
            => Announced(p, c) \/ <<c, p>> \in late

Connected(p, c) ==
    /\ remote[<<p, c>>] = <<c, p>> /\ offerSig[<<p, c>>] = "stable"
    /\ answerSig[<<c, p>>] = "stable"
    /\ p \in added[c]
    /\ p \in screens[c] /\ c \in screens[p]

\* In the end every offer has led to two connections that belong together, with a
\* candidate to reach each other and the video of both; unless the receiver left, the
\* offer came before its camera, it took two offers at once, or it offered as well: of
\* two offers that cross, the second connection takes the place of the first in the
\* table, where the answer or the candidate looks for it.
OfferAnswered ==
    <>[](\A c, p \in Clients :
            offerSig[<<p, c>>] # "none"
                => \/ Connected(p, c)
                   \/ joined[c] = "gone"
                   \/ <<c, p>> \in deaf
                   \/ c \in overlapped
                   \/ offerSig[<<c, p>>] # "none")
=============================================================================
