--------------------------- MODULE MeshCallProofs ---------------------------
(***************************************************************************)
(* Proofs about MeshCall, for any number of clients, any lists they are    *)
(* sent, any overlap of their handlers and promise chains and any          *)
(* departures.                                                             *)
(***************************************************************************)
EXTENDS MeshCall, Naturals, TLAPS

USE NobodyAssumption

Message == [type : {"offer", "answer", "candidate", "left"}, from : Clients,
            by : Clients \cup {Nobody}]

Inboxes == inbox \in [Clients -> Seq(Message)]

\* An update with an element of the range keeps a function's type.
LEMMA UpdateTyped ==
    ASSUME NEW S, NEW T, NEW f \in [S -> T], NEW x, NEW v \in T
    PROVE  [f EXCEPT ![x] = v] \in [S -> T]
OBVIOUS

-----------------------------------------------------------------------------
(* Queues                                                                  *)

LEMMA AppendFacts ==
    ASSUME NEW S, NEW s \in Seq(S), NEW e \in S
    PROVE  /\ Append(s, e) \in Seq(S)
           /\ Len(s) + 1 \in DOMAIN Append(s, e) /\ Append(s, e)[Len(s) + 1] = e
           /\ \A i \in DOMAIN s : i \in DOMAIN Append(s, e) /\ Append(s, e)[i] = s[i]
                                  /\ i < Len(s) + 1
           /\ \A i \in DOMAIN Append(s, e) : i \in DOMAIN s \/ i = Len(s) + 1
OBVIOUS

LEMMA TailFacts ==
    ASSUME NEW S, NEW s \in Seq(S), s # <<>>
    PROVE  /\ Tail(s) \in Seq(S)
           /\ 1 \in DOMAIN s /\ Head(s) = s[1] /\ Head(s) \in S
           /\ \A i \in DOMAIN Tail(s) : i + 1 \in DOMAIN s /\ Tail(s)[i] = s[i + 1]
           /\ \A i \in DOMAIN s : i = 1 \/ (i - 1 \in DOMAIN Tail(s) /\ Tail(s)[i - 1] = s[i])
           /\ DOMAIN s \subseteq Nat
OBVIOUS

-----------------------------------------------------------------------------
(* What a step does to each variable                                       *)

Enters(c) == \E L \in SUBSET Clients : OnJoined(c, L)

Trickles(c, p) == \E role \in Roles : SendCandidate(c, p, role)

\* The disjuncts of the next-state relation.
Steps ==
    \E c \in Clients :
        \/ Join(c) \/ Enters(c) \/ AllowCamera(c) \/ DenyCamera(c) \/ Leave(c)
        \/ OnLeft(c) \/ OnOffer(c) \/ OnAnswer(c) \/ OnCandidate(c)
        \/ \E p \in Clients :
              \/ SendOffer(c, p) \/ RemoteSet(c, p) \/ AnswerMade(c, p)
              \/ AnswerRefused(c, p) \/ LocalSet(c, p) \/ Trickles(c, p)

LEMMA NextSteps == Next => Steps
BY DEF Next, Users, Page, Steps, Enters, Trickles

\* Clients join once and leave once; the list is written when they are sent it.
LEMMA CallStep ==
    ASSUME TypeOK, [Next]_vars, NEW c \in Clients
    PROVE  /\ \/ joined'[c] = joined[c]
              \/ joined[c] = "out" /\ joined'[c] = "in" /\ Join(c)
              \/ joined[c] = "in" /\ joined'[c] = "gone" /\ Leave(c)
           /\ \/ list'[c] = list[c]
              \/ /\ Enters(c) /\ joined[c] = "in" /\ camera[c] = "none"
                 /\ list'[c] \subseteq {p \in Clients \ {c} : joined[p] # "out"}
<1>0. /\ joined \in [Clients -> {"out", "in", "gone"}]
      /\ list \in [Clients -> SUBSET Clients]
  BY DEF TypeOK
<1>1. CASE joined' = joined /\ list' = list
  BY <1>1
<1>2. ASSUME NEW d \in Clients, Join(d)
      PROVE  /\ \/ joined'[c] = joined[c]
                \/ joined[c] = "out" /\ joined'[c] = "in" /\ Join(c)
             /\ list'[c] = list[c]
  BY <1>0, <1>2 DEF Join
<1>3. ASSUME NEW d \in Clients, Leave(d)
      PROVE  /\ \/ joined'[c] = joined[c]
                \/ joined[c] = "in" /\ joined'[c] = "gone" /\ Leave(c)
             /\ list'[c] = list[c]
  <2>1. /\ joined[d] = "in" /\ joined' = [joined EXCEPT ![d] = "gone"]
        /\ list' = list
    BY <1>3 DEF Leave
  <2> QED  BY <1>0, <1>3, <2>1
<1>4. ASSUME NEW d \in Clients, Enters(d)
      PROVE  /\ joined'[c] = joined[c]
             /\ \/ list'[c] = list[c]
                \/ /\ Enters(c) /\ joined[c] = "in" /\ camera[c] = "none"
                   /\ list'[c] \subseteq {p \in Clients \ {c} : joined[p] # "out"}
  <2>1. PICK L \in SUBSET Clients : OnJoined(d, L)
    BY <1>4 DEF Enters
  <2>2. /\ joined[d] = "in" /\ camera[d] = "none" /\ joined' = joined
        /\ L \subseteq {p \in Clients \ {d} : joined[p] # "out"}
        /\ list' = [list EXCEPT ![d] = L]
    BY <2>1 DEF OnJoined
  <2> QED  BY <1>0, <1>4, <2>2
<1>5. ASSUME NEW d \in Clients,
             \/ AllowCamera(d) \/ DenyCamera(d)
             \/ OnLeft(d) \/ OnOffer(d) \/ OnAnswer(d) \/ OnCandidate(d)
      PROVE  joined' = joined /\ list' = list
  BY <1>5 DEF call, AllowCamera, DenyCamera, OnLeft, OnOffer, OnAnswer, OnCandidate
<1>6. ASSUME NEW d \in Clients, NEW p \in Clients,
             \/ SendOffer(d, p) \/ RemoteSet(d, p) \/ AnswerMade(d, p)
             \/ AnswerRefused(d, p) \/ LocalSet(d, p) \/ Trickles(d, p)
      PROVE  joined' = joined /\ list' = list
  BY <1>6 DEF call, SendOffer, RemoteSet, AnswerMade, AnswerRefused, LocalSet, Trickles,
     SendCandidate
<1> QED  BY <1>1, <1>2, <1>3, <1>4, <1>5, <1>6, NextSteps DEF vars, Steps

\* The signaling state of a connection that offers.
OfferMoves(c, p) ==
    \/ offerSig'[<<c, p>>] = offerSig[<<c, p>>]
    \/ Leave(c) /\ offerSig'[<<c, p>>] = "none"
    \/ SendOffer(c, p) /\ offerSig'[<<c, p>>] = "have-local-offer"
    \/ /\ OnAnswer(c) /\ Sender(c) = p /\ Awaits(c, p) /\ Accept(c, p)
       /\ offerSig'[<<c, p>>] = "stable"

LEMMA OfferSigStep ==
    ASSUME TypeOK, [Next]_vars, NEW c \in Clients, NEW p \in Clients
    PROVE  OfferMoves(c, p)
<1>0. offerSig \in [Pairs -> OfferStates] /\ <<c, p>> \in Pairs
  BY DEF TypeOK, Pairs
<1>1. CASE UNCHANGED offerSig
  BY <1>1 DEF OfferMoves
<1>2. ASSUME NEW d \in Clients, Leave(d) PROVE OfferMoves(c, p)
  <2>1. offerSig' = [e \in Pairs |-> IF e[1] = d THEN "none" ELSE offerSig[e]]
    BY <1>2 DEF Leave
  <2>2. offerSig'[<<c, p>>] = IF c = d THEN "none" ELSE offerSig[<<c, p>>]
    BY <1>0, <2>1
  <2> QED  BY <1>2, <2>2 DEF OfferMoves
<1>3. ASSUME NEW d \in Clients, OnAnswer(d) PROVE OfferMoves(c, p)
  <2>1. \/ Awaits(d, Sender(d)) /\ Accept(d, Sender(d))
        \/ UNCHANGED offerSig
    BY <1>3 DEF OnAnswer
  <2>2. CASE Awaits(d, Sender(d)) /\ Accept(d, Sender(d))
    <3>1. offerSig' = [offerSig EXCEPT ![<<d, Sender(d)>>] = "stable"]
      BY <2>2 DEF Accept
    <3>2. CASE d = c /\ Sender(d) = p
      BY <1>0, <1>3, <2>2, <3>1, <3>2 DEF OfferMoves
    <3>3. CASE <<d, Sender(d)>> # <<c, p>>
      BY <1>0, <3>1, <3>3 DEF OfferMoves
    <3> QED  BY <3>2, <3>3
  <2> QED  BY <1>1, <2>1, <2>2
<1>4. ASSUME NEW d \in Clients, NEW q \in Clients, SendOffer(d, q) PROVE OfferMoves(c, p)
  <2>1. offerSig' = [offerSig EXCEPT ![<<d, q>>] = "have-local-offer"]
    BY <1>4 DEF SendOffer
  <2>2. CASE d = c /\ q = p
    BY <1>0, <1>4, <2>1, <2>2 DEF OfferMoves
  <2>3. CASE <<d, q>> # <<c, p>>
    BY <1>0, <2>1, <2>3 DEF OfferMoves
  <2> QED  BY <2>2, <2>3
<1>5. ASSUME NEW d \in Clients,
             \/ Join(d) \/ Enters(d) \/ AllowCamera(d) \/ DenyCamera(d)
             \/ OnLeft(d) \/ OnOffer(d) \/ OnCandidate(d)
      PROVE  UNCHANGED offerSig
  BY <1>5 DEF page, ends, Join, Enters, OnJoined, AllowCamera, DenyCamera, OnLeft, OnOffer,
     OnCandidate
<1>6. ASSUME NEW d \in Clients, NEW q \in Clients,
             \/ RemoteSet(d, q) \/ AnswerMade(d, q) \/ AnswerRefused(d, q)
             \/ LocalSet(d, q) \/ Trickles(d, q)
      PROVE  UNCHANGED offerSig
  BY <1>6 DEF ends, RemoteSet, AnswerMade, AnswerRefused, LocalSet, Trickles, SendCandidate
<1> QED
  BY <1>1, <1>2, <1>3, <1>4, <1>5, <1>6, NextSteps DEF vars, page, Steps

\* ... and of one that answers.
AnswerMoves(c, p) ==
    \/ answerSig'[<<c, p>>] = answerSig[<<c, p>>]
    \/ Leave(c) /\ answerSig'[<<c, p>>] = "none"
    \/ /\ OnOffer(c) /\ Sender(c) = p /\ camera[c] = "on"
       /\ answerSig'[<<c, p>>] = "new"
    \/ RemoteSet(c, p) /\ answerSig'[<<c, p>>] = "have-remote-offer"
    \/ /\ \E q \in Clients : AnswerMade(c, q) /\ asked[<<c, q>>] = p
       /\ answerSig[<<c, p>>] \in {"have-remote-offer", "answered"}
       /\ current[c] = p /\ answerSig'[<<c, p>>] = "answered"
    \/ /\ LocalSet(c, p) /\ answerSig[<<c, p>>] = "answered"
       /\ answerSig'[<<c, p>>] = "stable"

LEMMA AnswerSigStep ==
    ASSUME TypeOK, [Next]_vars, NEW c \in Clients, NEW p \in Clients
    PROVE  AnswerMoves(c, p)
<1>0. answerSig \in [Pairs -> AnswerStates] /\ <<c, p>> \in Pairs
  BY DEF TypeOK, Pairs
<1>1. CASE UNCHANGED answerSig
  BY <1>1 DEF AnswerMoves
<1>2. ASSUME NEW d \in Clients, Leave(d) PROVE AnswerMoves(c, p)
  <2>1. answerSig' = [e \in Pairs |-> IF e[1] = d THEN "none" ELSE answerSig[e]]
    BY <1>2 DEF Leave
  <2>2. answerSig'[<<c, p>>] = IF c = d THEN "none" ELSE answerSig[<<c, p>>]
    BY <1>0, <2>1
  <2> QED  BY <1>2, <2>2 DEF AnswerMoves
<1>3. ASSUME NEW d \in Clients, OnOffer(d) PROVE AnswerMoves(c, p)
  <2>1. \/ UNCHANGED answerSig
        \/ camera[d] = "on" /\ answerSig' = [answerSig EXCEPT ![<<d, Sender(d)>>] = "new"]
    BY <1>3 DEF OnOffer
  <2>2. CASE d = c /\ Sender(d) = p
    BY <1>0, <1>3, <2>1, <2>2 DEF AnswerMoves
  <2>3. CASE <<d, Sender(d)>> # <<c, p>>
    BY <1>0, <2>1, <2>3 DEF AnswerMoves
  <2> QED  BY <2>2, <2>3
<1>4. ASSUME NEW d \in Clients, NEW q \in Clients, RemoteSet(d, q) PROVE AnswerMoves(c, p)
  <2>1. answerSig' = [answerSig EXCEPT ![<<d, q>>] = "have-remote-offer"]
    BY <1>4 DEF RemoteSet
  <2>2. CASE d = c /\ q = p
    BY <1>0, <1>4, <2>1, <2>2 DEF AnswerMoves
  <2>3. CASE <<d, q>> # <<c, p>>
    BY <1>0, <2>1, <2>3 DEF AnswerMoves
  <2> QED  BY <2>2, <2>3
<1>5. ASSUME NEW d \in Clients, NEW q \in Clients, AnswerMade(d, q) PROVE AnswerMoves(c, p)
  <2> DEFINE a == asked[<<d, q>>]
  <2>1. /\ answerSig[<<d, a>>] \in {"have-remote-offer", "answered"}
        /\ answerSig' = [answerSig EXCEPT ![<<d, a>>] =
                            IF current[d] = a THEN "answered" ELSE @]
    BY <1>5 DEF AnswerMade
  <2>2. CASE d = c /\ a = p
    BY <1>0, <1>5, <2>1, <2>2 DEF AnswerMoves
  <2>3. CASE <<d, a>> # <<c, p>>
    BY <1>0, <2>1, <2>3 DEF AnswerMoves
  <2> QED  BY <2>2, <2>3
<1>6. ASSUME NEW d \in Clients, NEW q \in Clients, LocalSet(d, q) PROVE AnswerMoves(c, p)
  <2>1. /\ answerSig[<<d, q>>] = "answered"
        /\ answerSig' = [answerSig EXCEPT ![<<d, q>>] = "stable"]
    BY <1>6 DEF LocalSet
  <2>2. CASE d = c /\ q = p
    BY <1>0, <1>6, <2>1, <2>2 DEF AnswerMoves
  <2>3. CASE <<d, q>> # <<c, p>>
    BY <1>0, <2>1, <2>3 DEF AnswerMoves
  <2> QED  BY <2>2, <2>3
<1>7. ASSUME NEW d \in Clients,
             \/ Join(d) \/ Enters(d) \/ AllowCamera(d) \/ DenyCamera(d)
             \/ OnLeft(d) \/ OnAnswer(d) \/ OnCandidate(d)
      PROVE  UNCHANGED answerSig
  BY <1>7 DEF page, ends, Join, Enters, OnJoined, AllowCamera, DenyCamera, OnLeft, OnAnswer,
     OnCandidate
<1>8. ASSUME NEW d \in Clients, NEW q \in Clients,
             \/ SendOffer(d, q) \/ AnswerRefused(d, q) \/ Trickles(d, q)
      PROVE  UNCHANGED answerSig
  BY <1>8 DEF ends, SendOffer, AnswerRefused, Trickles, SendCandidate
<1> QED
  BY <1>1, <1>2, <1>3, <1>4, <1>5, <1>6, <1>7, <1>8, NextSteps DEF vars, page, Steps

\* The promise chain of an offer.
LEMMA TaskStep ==
    ASSUME TypeOK, [Next]_vars, NEW c \in Clients, NEW p \in Clients
    PROVE  \/ task'[<<c, p>>] = task[<<c, p>>]
           \/ OnOffer(c) /\ Sender(c) = p /\ camera[c] = "on" /\ task'[<<c, p>>] = "setting"
           \/ RemoteSet(c, p) /\ task[<<c, p>>] = "setting" /\ task'[<<c, p>>] = "answering"
           \/ task'[<<c, p>>] = "none"
<1>0. /\ task \in [Pairs -> {"none", "setting", "answering"}]
      /\ <<c, p>> \in Pairs
  BY DEF TypeOK, Pairs
<1>1. CASE UNCHANGED task
  BY <1>1
<1>2. ASSUME NEW d \in Clients, Leave(d)
      PROVE  task'[<<c, p>>] = task[<<c, p>>] \/ task'[<<c, p>>] = "none"
  <2>1. task' = [e \in Pairs |-> IF e[1] = d THEN "none" ELSE task[e]]
    BY <1>2 DEF Leave
  <2> QED  BY <1>0, <2>1
<1>3. ASSUME NEW d \in Clients, OnOffer(d)
      PROVE  \/ task'[<<c, p>>] = task[<<c, p>>]
             \/ OnOffer(c) /\ Sender(c) = p /\ camera[c] = "on" /\ task'[<<c, p>>] = "setting"
  BY <1>0, <1>3 DEF OnOffer
<1>4. ASSUME NEW d \in Clients, NEW q \in Clients, RemoteSet(d, q)
      PROVE  \/ task'[<<c, p>>] = task[<<c, p>>]
             \/ RemoteSet(c, p) /\ task[<<c, p>>] = "setting"
                /\ task'[<<c, p>>] = "answering"
  <2>1. task' = [task EXCEPT ![<<d, q>>] = "answering"] /\ task[<<d, q>>] = "setting"
    BY <1>4 DEF RemoteSet
  <2>2. CASE d = c /\ q = p
    BY <1>0, <1>4, <2>1, <2>2
  <2>3. CASE <<d, q>> # <<c, p>>
    BY <1>0, <2>1, <2>3
  <2> QED  BY <2>2, <2>3
<1>5. ASSUME NEW d \in Clients, NEW q \in Clients, AnswerMade(d, q) \/ AnswerRefused(d, q)
      PROVE  task'[<<c, p>>] = task[<<c, p>>] \/ task'[<<c, p>>] = "none"
  <2>1. task' = [task EXCEPT ![<<d, q>>] = "none"]
    BY <1>5 DEF AnswerMade, AnswerRefused
  <2> QED  BY <1>0, <2>1
<1>6. ASSUME NEW d \in Clients,
             \/ Join(d) \/ Enters(d) \/ AllowCamera(d) \/ DenyCamera(d)
             \/ OnLeft(d) \/ OnAnswer(d) \/ OnCandidate(d)
             \/ \E q \in Clients : SendOffer(d, q) \/ LocalSet(d, q) \/ Trickles(d, q)
      PROVE  UNCHANGED task
  BY <1>6 DEF page, chain, Join, Enters, OnJoined, AllowCamera, DenyCamera, OnLeft, OnAnswer,
     OnCandidate, SendOffer, LocalSet, Trickles, SendCandidate
<1> QED
  BY <1>1, <1>2, <1>3, <1>4, <1>5, <1>6, NextSteps DEF vars, page, Steps

\* The connection that is asked for an answer is the global at that time.
LEMMA AskedStep ==
    ASSUME TypeOK, [Next]_vars, NEW c \in Clients, NEW p \in Clients
    PROVE  \/ asked'[<<c, p>>] = asked[<<c, p>>]
           \/ Leave(c)
           \/ RemoteSet(c, p) /\ asked'[<<c, p>>] = current[c]
<1>0. /\ asked \in [Pairs -> Clients \cup {Nobody}]
      /\ <<c, p>> \in Pairs
  BY DEF TypeOK, Pairs
<1>1. CASE UNCHANGED asked
  BY <1>1
<1>2. ASSUME NEW d \in Clients, Leave(d)
      PROVE  asked'[<<c, p>>] = asked[<<c, p>>] \/ Leave(c)
  <2>1. asked' = [e \in Pairs |-> IF e[1] = d THEN Nobody ELSE asked[e]]
    BY <1>2 DEF Leave
  <2> QED  BY <1>0, <1>2, <2>1
<1>3. ASSUME NEW d \in Clients, NEW q \in Clients, RemoteSet(d, q)
      PROVE  \/ asked'[<<c, p>>] = asked[<<c, p>>]
             \/ RemoteSet(c, p) /\ asked'[<<c, p>>] = current[c]
  <2>1. asked' = [asked EXCEPT ![<<d, q>>] = current[d]]
    BY <1>3 DEF RemoteSet
  <2>2. CASE d = c /\ q = p
    BY <1>0, <1>3, <2>1, <2>2
  <2>3. CASE <<d, q>> # <<c, p>>
    BY <1>0, <2>1, <2>3
  <2> QED  BY <2>2, <2>3
<1>4. ASSUME NEW d \in Clients,
             \/ Join(d) \/ Enters(d) \/ AllowCamera(d) \/ DenyCamera(d)
             \/ OnLeft(d) \/ OnOffer(d) \/ OnAnswer(d) \/ OnCandidate(d)
             \/ \E q \in Clients : \/ SendOffer(d, q) \/ AnswerMade(d, q) \/ AnswerRefused(d, q)
                                   \/ LocalSet(d, q) \/ Trickles(d, q)
      PROVE  UNCHANGED asked
  BY <1>4 DEF page, chain, Join, Enters, OnJoined, AllowCamera, DenyCamera, OnLeft, OnOffer,
     OnAnswer, OnCandidate, SendOffer, AnswerMade, AnswerRefused, LocalSet, Trickles,
     SendCandidate
<1> QED
  BY <1>1, <1>2, <1>3, <1>4, NextSteps DEF vars, page, Steps

\* Whose answer a connection was given.
RemoteMoves(c, p) ==
    \/ remote'[<<c, p>>] = remote[<<c, p>>]
    \/ Leave(c) /\ remote'[<<c, p>>] = Nobody
    \/ /\ OnAnswer(c) /\ Sender(c) = p /\ Awaits(c, p)
       /\ remote'[<<c, p>>] = <<p, Head(inbox[c]).by>>

LEMMA RemoteStep ==
    ASSUME TypeOK, [Next]_vars, NEW c \in Clients, NEW p \in Clients
    PROVE  RemoteMoves(c, p)
<1>0. /\ remote \in [Pairs -> Pairs \cup {Nobody}]
      /\ <<c, p>> \in Pairs
  BY DEF TypeOK, Pairs
<1>1. CASE UNCHANGED remote
  BY <1>1 DEF RemoteMoves
<1>2. ASSUME NEW d \in Clients, Leave(d)
      PROVE  RemoteMoves(c, p)
  <2>1. remote' = [e \in Pairs |-> IF e[1] = d THEN Nobody ELSE remote[e]]
    BY <1>2 DEF Leave
  <2>2. remote'[<<c, p>>] = IF c = d THEN Nobody ELSE remote[<<c, p>>]
    BY <1>0, <2>1
  <2> QED  BY <1>2, <2>2 DEF RemoteMoves
<1>3. ASSUME NEW d \in Clients, OnAnswer(d)
      PROVE  RemoteMoves(c, p)
  <2>1. \/ UNCHANGED remote
        \/ /\ Awaits(d, Sender(d))
           /\ remote' = [remote EXCEPT ![<<d, Sender(d)>>] = <<Sender(d), Head(inbox[d]).by>>]
    BY <1>3 DEF OnAnswer, Accept
  <2>2. CASE d = c /\ Sender(d) = p
    BY <1>0, <1>3, <2>1, <2>2 DEF RemoteMoves
  <2>3. CASE <<d, Sender(d)>> # <<c, p>>
    BY <1>0, <2>1, <2>3 DEF RemoteMoves
  <2> QED  BY <2>2, <2>3
<1>4. ASSUME NEW d \in Clients,
             \/ Join(d) \/ Enters(d) \/ AllowCamera(d) \/ DenyCamera(d)
             \/ OnLeft(d) \/ OnOffer(d) \/ OnCandidate(d)
             \/ \E q \in Clients : \/ SendOffer(d, q) \/ RemoteSet(d, q) \/ AnswerMade(d, q)
                                   \/ AnswerRefused(d, q) \/ LocalSet(d, q) \/ Trickles(d, q)
      PROVE  UNCHANGED remote
  BY <1>4 DEF page, ends, Join, Enters, OnJoined, AllowCamera, DenyCamera, OnLeft, OnOffer,
     OnCandidate, SendOffer, RemoteSet, AnswerMade, AnswerRefused, LocalSet, Trickles,
     SendCandidate
<1> QED
  BY <1>1, <1>2, <1>3, <1>4, NextSteps DEF vars, page, Steps

\* The camera is asked for once; the global is the sender of the last offer.
CameraMoves(c) ==
    /\ \/ camera'[c] = camera[c]
       \/ Leave(c)
       \/ camera[c] \in {"none", "off"} /\ joined[c] = "in" /\ camera'[c] # "none"
    /\ \/ current'[c] = current[c] \/ Leave(c)
       \/ OnOffer(c) /\ current'[c] = Sender(c)

LEMMA CameraStep ==
    ASSUME TypeOK, [Next]_vars, NEW c \in Clients
    PROVE  CameraMoves(c)
<1>0. camera \in [Clients -> {"none", "off", "on", "denied"}]
      /\ current \in [Clients -> Clients \cup {Nobody}]
  BY DEF TypeOK
<1>1. CASE UNCHANGED <<camera, current>>
  BY <1>1 DEF CameraMoves
<1>2. ASSUME NEW d \in Clients,
             AllowCamera(d) \/ DenyCamera(d) \/ Leave(d) \/ OnOffer(d) \/ Enters(d)
      PROVE  CameraMoves(c)
  <2>1. CASE AllowCamera(d)
    BY <1>0, <2>1 DEF AllowCamera, CameraMoves
  <2>2. CASE DenyCamera(d)
    BY <1>0, <2>2 DEF DenyCamera, CameraMoves
  <2>3. CASE Leave(d)
    <3>1. camera' = [camera EXCEPT ![d] = "off"] /\ current' = [current EXCEPT ![d] = Nobody]
      BY <2>3 DEF Leave
    <3> QED  BY <1>0, <2>3, <3>1 DEF CameraMoves
  <2>4. CASE OnOffer(d)
    BY <1>0, <2>4 DEF OnOffer, user, CameraMoves
  <2>5. CASE Enters(d)
    BY <1>0, <2>5 DEF Enters, OnJoined, CameraMoves
  <2> QED  BY <1>2, <2>1, <2>2, <2>3, <2>4, <2>5
<1>3. ASSUME NEW d \in Clients,
             \/ Join(d)
             \/ OnLeft(d) \/ OnAnswer(d) \/ OnCandidate(d)
             \/ \E q \in Clients : \/ SendOffer(d, q) \/ RemoteSet(d, q) \/ AnswerMade(d, q)
                                   \/ AnswerRefused(d, q) \/ LocalSet(d, q) \/ Trickles(d, q)
      PROVE  UNCHANGED <<camera, current>>
  BY <1>3 DEF page, user, Join, OnLeft, OnAnswer, OnCandidate,
     SendOffer, RemoteSet, AnswerMade, AnswerRefused, LocalSet, Trickles, SendCandidate
<1> QED
  BY <1>1, <1>2, <1>3, NextSteps DEF vars, page, Steps

\* Whom a client has still to offer to.
ToOfferMoves(c) ==
    \/ toOffer'[c] = toOffer[c]
    \/ Leave(c) /\ toOffer'[c] = {}
    \/ joined[c] = "in" /\ camera[c] = "none" /\ toOffer'[c] = list'[c]
    \/ \E p \in toOffer[c] : SendOffer(c, p) /\ toOffer'[c] = toOffer[c] \ {p}

LEMMA ToOfferStep ==
    ASSUME TypeOK, [Next]_vars, NEW c \in Clients
    PROVE  ToOfferMoves(c)
<1>0. toOffer \in [Clients -> SUBSET Clients] /\ list \in [Clients -> SUBSET Clients]
  BY DEF TypeOK
<1>1. CASE UNCHANGED toOffer
  BY <1>1 DEF ToOfferMoves
<1>2. ASSUME NEW d \in Clients, Enters(d)
      PROVE  ToOfferMoves(c)
  <2>1. PICK L \in SUBSET Clients : OnJoined(d, L)
    BY <1>2 DEF Enters
  <2>2. /\ joined[d] = "in" /\ camera[d] = "none"
        /\ toOffer' = [toOffer EXCEPT ![d] = L] /\ list' = [list EXCEPT ![d] = L]
    BY <2>1 DEF OnJoined
  <2> QED  BY <1>0, <2>2 DEF ToOfferMoves
<1>3. ASSUME NEW d \in Clients, Leave(d)
      PROVE  ToOfferMoves(c)
  <2>1. toOffer' = [toOffer EXCEPT ![d] = {}]
    BY <1>3 DEF Leave
  <2> QED  BY <1>0, <1>3, <2>1 DEF ToOfferMoves
<1>4. ASSUME NEW d \in Clients, NEW p \in Clients, SendOffer(d, p)
      PROVE  ToOfferMoves(c)
  <2>1. p \in toOffer[d] /\ toOffer' = [toOffer EXCEPT ![d] = @ \ {p}]
    BY <1>4 DEF SendOffer
  <2> QED  BY <1>0, <1>4, <2>1 DEF ToOfferMoves
<1>5. ASSUME NEW d \in Clients,
             \/ Join(d) \/ AllowCamera(d) \/ DenyCamera(d)
             \/ OnLeft(d) \/ OnOffer(d) \/ OnAnswer(d) \/ OnCandidate(d)
             \/ \E q \in Clients : \/ RemoteSet(d, q) \/ AnswerMade(d, q) \/ AnswerRefused(d, q)
                                   \/ LocalSet(d, q) \/ Trickles(d, q)
      PROVE  UNCHANGED toOffer
  BY <1>5 DEF page, user, Join, AllowCamera, DenyCamera, OnLeft, OnOffer, OnAnswer,
     OnCandidate, RemoteSet, AnswerMade, AnswerRefused, LocalSet, Trickles, SendCandidate
<1> QED
  BY <1>1, <1>2, <1>3, <1>4, <1>5, NextSteps DEF vars, page, Steps

\* An inbox: one event is taken from its head, or one is put at its end.
Arrives(c, e) ==
    \E p \in Clients :
        \/ Leave(p) /\ p # c /\ e = Event("left", p, Nobody)
        \/ SendOffer(p, c) /\ e = Event("offer", p, Nobody)
        \/ AnswerMade(p, c) /\ e = Event("answer", p, asked[<<p, c>>])
        \/ e.type = "candidate"

LEMMA RelayStep ==
    ASSUME TypeOK, Inboxes, NEW to \in Clients, NEW e, Relay(to, e), NEW c \in Clients
    PROVE  \/ inbox'[c] = inbox[c]
           \/ to = c /\ joined[c] = "in" /\ inbox'[c] = Append(inbox[c], e)
BY DEF Relay, Inboxes

InboxMoves(c) ==
    \/ inbox'[c] = inbox[c]
    \/ Leave(c) /\ inbox'[c] = <<>>
    \/ /\ inbox[c] # <<>> /\ joined[c] = "in" /\ inbox'[c] = Tail(inbox[c])
       /\ OnLeft(c) \/ OnOffer(c) \/ OnAnswer(c) \/ OnCandidate(c)
    \/ \E e \in Message :
          joined[c] = "in" /\ inbox'[c] = Append(inbox[c], e) /\ Arrives(c, e)

LEMMA InboxStep ==
    ASSUME TypeOK, Inboxes, [Next]_vars, NEW c \in Clients
    PROVE  InboxMoves(c)
<1>1. CASE UNCHANGED inbox
  BY <1>1 DEF InboxMoves
<1>2. ASSUME NEW d \in Clients, Leave(d)
      PROVE  InboxMoves(c)
  <2>1. PICK missed \in SUBSET MayMiss(d) :
          inbox' = [p \in Clients |->
                       IF p = d THEN <<>>
                       ELSE IF joined[p] = "in" /\ p \notin missed
                            THEN Append(inbox[p], Event("left", d, Nobody))
                            ELSE inbox[p]]
    BY <1>2 DEF Leave
  <2>2. Event("left", d, Nobody) \in Message
    BY DEF Event, Message
  <2>3. CASE c = d
    BY <1>2, <2>1, <2>3 DEF InboxMoves
  <2>4. CASE c # d /\ joined[c] = "in" /\ c \notin missed
    <3>1. inbox'[c] = Append(inbox[c], Event("left", d, Nobody))
      BY <2>1, <2>4
    <3> QED  BY <1>2, <2>2, <2>4, <3>1 DEF InboxMoves, Arrives
  <2>5. CASE c # d /\ ~(joined[c] = "in" /\ c \notin missed)
    BY <2>1, <2>5 DEF InboxMoves
  <2> QED  BY <2>3, <2>4, <2>5
<1>3. ASSUME NEW d \in Clients, OnLeft(d) \/ OnOffer(d) \/ OnAnswer(d) \/ OnCandidate(d)
      PROVE  InboxMoves(c)
  <2>1. /\ joined[d] = "in" /\ inbox[d] # <<>>
        /\ inbox' = [inbox EXCEPT ![d] = Tail(@)]
    BY <1>3 DEF OnLeft, OnOffer, OnAnswer, OnCandidate, Handles
  <2> QED  BY <1>3, <2>1 DEF InboxMoves, Inboxes
<1>4. ASSUME NEW d \in Clients, NEW q \in Clients,
             \/ SendOffer(d, q) \/ AnswerMade(d, q) \/ Trickles(d, q)
      PROVE  InboxMoves(c)
  <2>1. CASE SendOffer(d, q)
    <3>1. Event("offer", d, Nobody) \in Message
      BY DEF Event, Message
    <3>2. Relay(q, Event("offer", d, Nobody))
      BY <2>1 DEF SendOffer
    <3>3. \/ inbox'[c] = inbox[c]
          \/ /\ q = c /\ joined[c] = "in"
             /\ inbox'[c] = Append(inbox[c], Event("offer", d, Nobody))
      BY <3>2, RelayStep
    <3>4. q = c => Arrives(c, Event("offer", d, Nobody))
      BY <2>1 DEF Arrives
    <3> QED  BY <3>1, <3>3, <3>4 DEF InboxMoves
  <2>2. CASE AnswerMade(d, q)
    <3>1. Event("answer", d, asked[<<d, q>>]) \in Message
      BY DEF Event, Message, TypeOK, Pairs
    <3>2. Relay(q, Event("answer", d, asked[<<d, q>>]))
      BY <2>2 DEF AnswerMade
    <3>3. \/ inbox'[c] = inbox[c]
          \/ /\ q = c /\ joined[c] = "in"
             /\ inbox'[c] = Append(inbox[c], Event("answer", d, asked[<<d, q>>]))
      BY <3>2, RelayStep
    <3>4. q = c => Arrives(c, Event("answer", d, asked[<<d, q>>]))
      BY <2>2 DEF Arrives
    <3> QED  BY <3>1, <3>3, <3>4 DEF InboxMoves
  <2>3. CASE Trickles(d, q)
    <3>1. PICK role \in Roles :
             Relay(q, Event("candidate", d, IF role = "offer" THEN Nobody ELSE q))
      BY <2>3 DEF Trickles, SendCandidate
    <3> DEFINE e == Event("candidate", d, IF role = "offer" THEN Nobody ELSE q)
    <3>2. e \in Message /\ Arrives(c, e)
      BY DEF Event, Message, Arrives
    <3>3. Relay(q, e)
      BY <3>1
    <3> HIDE DEF e
    <3> QED  BY <3>2, <3>3, RelayStep DEF InboxMoves
  <2> QED  BY <1>4, <2>1, <2>2, <2>3
<1>5. ASSUME NEW d \in Clients,
             \/ Join(d) \/ Enters(d) \/ AllowCamera(d) \/ DenyCamera(d)
             \/ \E q \in Clients : RemoteSet(d, q) \/ AnswerRefused(d, q) \/ LocalSet(d, q)
      PROVE  UNCHANGED inbox
  BY <1>5 DEF Join, Enters, OnJoined, AllowCamera, DenyCamera, RemoteSet, AnswerRefused,
     LocalSet
<1> QED
  BY <1>1, <1>2, <1>3, <1>4, <1>5, NextSteps DEF vars, Steps

\* Who is listed to a client hears that it left, after all that the client sent.
LEMMA LeaveTells ==
    ASSUME NEW p \in Clients, Leave(p), NEW c \in Clients, c # p,
           joined[c] = "in", c \in list[p]
    PROVE  inbox'[c] = Append(inbox[c], Event("left", p, Nobody))
<1>1. PICK missed \in SUBSET MayMiss(p) :
          inbox' = [x \in Clients |->
                       IF x = p THEN <<>>
                       ELSE IF joined[x] = "in" /\ x \notin missed
                            THEN Append(inbox[x], Event("left", p, Nobody))
                            ELSE inbox[x]]
  BY DEF Leave
<1>2. c \notin missed
  BY DEF MayMiss
<1> QED  BY <1>1, <1>2

\* The connections a page finds by their peer, and the videos it shows.
TableMoves(c, p) ==
    \/ table'[<<c, p>>] = table[<<c, p>>]
    \/ table'[<<c, p>>] # "answer"
    \/ OnOffer(c) /\ Sender(c) = p /\ camera[c] = "on"

LEMMA TableStep ==
    ASSUME TypeOK, [Next]_vars, NEW c \in Clients, NEW p \in Clients
    PROVE  /\ TableMoves(c, p)
           /\ Leave(c) => table'[<<c, p>>] = "none"
<1>0. table \in [Pairs -> Roles \cup {"none"}] /\ <<c, p>> \in Pairs
  BY DEF TypeOK, Pairs
<1>1. UNCHANGED table => TableMoves(c, p)
  BY DEF TableMoves
<1>2. ASSUME NEW d \in Clients, Leave(d)
      PROVE  /\ TableMoves(c, p)
             /\ c = d => table'[<<c, p>>] = "none"
  <2>1. table' = [e \in Pairs |-> IF e[1] = d THEN "none" ELSE table[e]]
    BY <1>2 DEF Leave
  <2>2. table'[<<c, p>>] = IF c = d THEN "none" ELSE table[<<c, p>>]
    BY <1>0, <2>1
  <2> QED  BY <2>2 DEF TableMoves
<1>3. ASSUME NEW d \in Clients, OnLeft(d)
      PROVE  TableMoves(c, p)
  <2>1. table' = [table EXCEPT ![<<d, Sender(d)>>] = "none"]
    BY <1>3 DEF OnLeft
  <2> QED  BY <1>0, <2>1 DEF TableMoves
<1>4. ASSUME NEW d \in Clients, OnOffer(d)
      PROVE  TableMoves(c, p)
  <2>1. \/ UNCHANGED table
        \/ camera[d] = "on" /\ table' = [table EXCEPT ![<<d, Sender(d)>>] = "answer"]
    BY <1>4 DEF OnOffer
  <2>2. CASE c = d /\ p = Sender(d)
    BY <1>0, <1>4, <2>1, <2>2 DEF TableMoves
  <2>3. CASE <<d, Sender(d)>> # <<c, p>>
    BY <1>0, <2>1, <2>3 DEF TableMoves
  <2> QED  BY <2>2, <2>3
<1>5. ASSUME NEW d \in Clients, NEW q \in Clients, SendOffer(d, q)
      PROVE  TableMoves(c, p)
  <2>1. table' = [table EXCEPT ![<<d, q>>] = "offer"]
    BY <1>5 DEF SendOffer
  <2> QED  BY <1>0, <2>1 DEF TableMoves
<1>6. ASSUME NEW d \in Clients,
             \/ Join(d) \/ Enters(d) \/ AllowCamera(d) \/ DenyCamera(d)
             \/ OnAnswer(d) \/ OnCandidate(d)
             \/ \E q \in Clients : \/ RemoteSet(d, q) \/ AnswerMade(d, q) \/ AnswerRefused(d, q)
                                   \/ LocalSet(d, q) \/ Trickles(d, q)
      PROVE  UNCHANGED table
  BY <1>6 DEF page, Join, Enters, OnJoined, AllowCamera, DenyCamera, OnAnswer, OnCandidate,
     RemoteSet, AnswerMade, AnswerRefused, LocalSet, Trickles, SendCandidate
<1>7. TableMoves(c, p)
  BY <1>1, <1>2, <1>3, <1>4, <1>5, <1>6, NextSteps DEF vars, page, Steps
<1> QED  BY <1>2, <1>7

ScreensMoves(c) ==
    \/ screens'[c] \subseteq screens[c]
    \/ \E p \in Clients : RemoteSet(c, p) /\ screens'[c] = screens[c] \cup {p}
    \/ OnAnswer(c) /\ screens'[c] = screens[c] \cup {Sender(c)}

LEMMA ScreensStep ==
    ASSUME TypeOK, [Next]_vars, NEW c \in Clients
    PROVE  /\ ScreensMoves(c)
           /\ Leave(c) => screens'[c] = {}
<1>0. screens \in [Clients -> SUBSET Clients]
  BY DEF TypeOK
<1>1. UNCHANGED screens => ScreensMoves(c)
  BY DEF ScreensMoves
<1>2. ASSUME NEW d \in Clients, Leave(d)
      PROVE  /\ ScreensMoves(c)
             /\ c = d => screens'[c] = {}
  <2>1. screens' = [screens EXCEPT ![d] = {}]
    BY <1>2 DEF Leave
  <2> QED  BY <1>0, <2>1 DEF ScreensMoves
<1>3. ASSUME NEW d \in Clients, OnLeft(d)
      PROVE  ScreensMoves(c)
  <2>1. screens' = [screens EXCEPT ![d] = @ \ {Sender(d)}]
    BY <1>3 DEF OnLeft
  <2> QED  BY <1>0, <2>1 DEF ScreensMoves
<1>4. ASSUME NEW d \in Clients, OnAnswer(d)
      PROVE  ScreensMoves(c)
  <2>1. \/ UNCHANGED screens
        \/ screens' = [screens EXCEPT ![d] = @ \cup {Sender(d)}]
    BY <1>4 DEF OnAnswer, Accept, AddStream
  <2>2. CASE c = d
    BY <1>0, <1>4, <2>1, <2>2 DEF ScreensMoves
  <2>3. CASE c # d
    BY <1>0, <2>1, <2>3 DEF ScreensMoves
  <2> QED  BY <2>2, <2>3
<1>5. ASSUME NEW d \in Clients, NEW q \in Clients, RemoteSet(d, q)
      PROVE  ScreensMoves(c)
  <2>1. screens' = [screens EXCEPT ![d] = @ \cup {q}]
    BY <1>5 DEF RemoteSet, AddStream
  <2> QED  BY <1>0, <1>5, <2>1 DEF ScreensMoves
<1>6. ASSUME NEW d \in Clients,
             \/ Join(d) \/ Enters(d) \/ AllowCamera(d) \/ DenyCamera(d)
             \/ OnOffer(d) \/ OnCandidate(d)
             \/ \E q \in Clients : \/ SendOffer(d, q) \/ AnswerMade(d, q) \/ AnswerRefused(d, q)
                                   \/ LocalSet(d, q) \/ Trickles(d, q)
      PROVE  UNCHANGED screens
  BY <1>6 DEF page, Join, Enters, OnJoined, AllowCamera, DenyCamera, OnOffer, OnCandidate,
     SendOffer, AnswerMade, AnswerRefused, LocalSet, Trickles, SendCandidate
<1>7. ScreensMoves(c)
  BY <1>1, <1>2, <1>3, <1>4, <1>5, <1>6, NextSteps DEF vars, page, Steps
<1> QED  BY <1>2, <1>7

\* What has happened stays.
LEMMA HistoryStep ==
    ASSUME [Next]_vars
    PROVE  overlapped \subseteq overlapped' /\ late \subseteq late'
<1>1. CASE UNCHANGED <<overlapped, late>>
  BY <1>1
<1>2. ASSUME NEW d \in Clients, OnOffer(d) \/ OnLeft(d)
      PROVE  overlapped \subseteq overlapped' /\ late \subseteq late'
  <2>1. CASE OnOffer(d)
    BY <2>1 DEF OnOffer
  <2>2. CASE OnLeft(d)
    BY <2>2 DEF OnLeft
  <2> QED  BY <1>2, <2>1, <2>2
<1>3. ASSUME NEW d \in Clients,
             \/ Join(d) \/ Enters(d) \/ AllowCamera(d) \/ DenyCamera(d) \/ Leave(d)
             \/ OnAnswer(d) \/ OnCandidate(d)
      PROVE  UNCHANGED <<overlapped, late>>
  BY <1>3 DEF history, Join, Enters, OnJoined, AllowCamera, DenyCamera, Leave, OnAnswer,
     OnCandidate
<1>4. ASSUME NEW d \in Clients, NEW q \in Clients,
             \/ SendOffer(d, q) \/ RemoteSet(d, q) \/ AnswerMade(d, q) \/ AnswerRefused(d, q)
             \/ LocalSet(d, q) \/ Trickles(d, q)
      PROVE  UNCHANGED <<overlapped, late>>
  BY <1>4 DEF history, SendOffer, RemoteSet, AnswerMade, AnswerRefused, LocalSet, Trickles,
     SendCandidate
<1> QED
  BY <1>1, <1>2, <1>3, <1>4, NextSteps DEF vars, Steps

-----------------------------------------------------------------------------
(* Type correctness                                                        *)

\* All of TypeOK but its last conjunct.
Types ==
    /\ joined \in [Clients -> {"out", "in", "gone"}]
    /\ list \in [Clients -> SUBSET Clients]
    /\ camera \in [Clients -> {"none", "off", "on", "denied"}]
    /\ toOffer \in [Clients -> SUBSET Clients]
    /\ table \in [Pairs -> Roles \cup {"none"}]
    /\ current \in [Clients -> Clients \cup {Nobody}]
    /\ offerSig \in [Pairs -> OfferStates]
    /\ answerSig \in [Pairs -> AnswerStates]
    /\ remote \in [Pairs -> Pairs \cup {Nobody}]
    /\ task \in [Pairs -> {"none", "setting", "answering"}]
    /\ asked \in [Pairs -> Clients \cup {Nobody}]
    /\ trickled \in [Clients -> SUBSET (Clients \X Roles)]
    /\ added \in [Clients -> SUBSET Clients]
    /\ screens \in [Clients -> SUBSET Clients]
    /\ deaf \subseteq Pairs
    /\ overlapped \subseteq Clients
    /\ late \subseteq Pairs

\* An answer names the client whose connection made it.
AnswersNamed ==
    \A c \in Clients : \A i \in DOMAIN inbox[c] :
        inbox[c][i].type = "answer" => inbox[c][i].by \in Clients

LEMMA NextInboxes ==
    ASSUME TypeOK, Inboxes, [Next]_vars
    PROVE  Inboxes'
<1>1. ASSUME NEW c \in Clients PROVE inbox'[c] \in Seq(Message)
  <2>1. inbox[c] \in Seq(Message)
    BY DEF Inboxes
  <2>2. \/ inbox'[c] = inbox[c] \/ inbox'[c] = <<>>
        \/ inbox[c] # <<>> /\ inbox'[c] = Tail(inbox[c])
        \/ \E e \in Message : inbox'[c] = Append(inbox[c], e)
    BY InboxStep DEF InboxMoves
  <2>3. ASSUME NEW e \in Message, inbox'[c] = Append(inbox[c], e)
        PROVE  inbox'[c] \in Seq(Message)
    BY <2>1, <2>3, AppendFacts
  <2>4. CASE inbox[c] # <<>> /\ inbox'[c] = Tail(inbox[c])
    BY <2>1, <2>4, TailFacts
  <2>5. <<>> \in Seq(Message)
    OBVIOUS
  <2> QED  BY <2>1, <2>2, <2>3, <2>4, <2>5
<1>2. inbox' = [c \in Clients |-> inbox'[c]]
  <2>0. inbox = [c \in Clients |-> inbox[c]]
    BY DEF Inboxes
  <2>1. CASE UNCHANGED inbox
    BY <2>0, <2>1
  <2>2. ASSUME NEW d \in Clients,
               Leave(d) \/ OnLeft(d) \/ OnOffer(d) \/ OnAnswer(d) \/ OnCandidate(d)
        PROVE  inbox' = [c \in Clients |-> inbox'[c]]
    <3>1. CASE Leave(d)
      BY <3>1 DEF Leave
    <3>2. CASE OnLeft(d) \/ OnOffer(d) \/ OnAnswer(d) \/ OnCandidate(d)
      <4>1. inbox' = [inbox EXCEPT ![d] = Tail(@)]
        BY <3>2 DEF OnLeft, OnOffer, OnAnswer, OnCandidate, Handles
      <4> QED  BY <2>0, <4>1
    <3> QED  BY <2>2, <3>1, <3>2
  <2>3. ASSUME NEW d \in Clients, NEW q \in Clients, NEW e, Relay(q, e)
        PROVE  inbox' = [c \in Clients |-> inbox'[c]]
    BY <2>0, <2>3 DEF Relay
  <2>4. ASSUME NEW d \in Clients, NEW q \in Clients,
               SendOffer(d, q) \/ AnswerMade(d, q) \/ Trickles(d, q)
        PROVE  \E e : Relay(q, e)
    BY <2>4 DEF SendOffer, AnswerMade, Trickles, SendCandidate
  <2>5. ASSUME NEW d \in Clients,
             \/ Join(d) \/ Enters(d) \/ AllowCamera(d) \/ DenyCamera(d)
             \/ \E q \in Clients : RemoteSet(d, q) \/ AnswerRefused(d, q) \/ LocalSet(d, q)
        PROVE  UNCHANGED inbox
    BY <2>5 DEF Join, Enters, OnJoined, AllowCamera, DenyCamera, RemoteSet, AnswerRefused,
       LocalSet
  <2> QED  BY <2>1, <2>2, <2>3, <2>4, <2>5, NextSteps DEF vars, Steps
<1> QED  BY <1>1, <1>2 DEF Inboxes

LEMMA HeadTypes ==
    ASSUME Inboxes, NEW c \in Clients, inbox[c] # <<>>
    PROVE  /\ Sender(c) \in Clients
           /\ Head(inbox[c]) \in Message
           /\ 1 \in DOMAIN inbox[c] /\ Head(inbox[c]) = inbox[c][1]
<1>1. inbox[c] \in Seq(Message)
  BY DEF Inboxes
<1>2. /\ Head(inbox[c]) \in Message
      /\ 1 \in DOMAIN inbox[c] /\ Head(inbox[c]) = inbox[c][1]
  BY <1>1, TailFacts
<1>3. Sender(c) \in Clients
  BY <1>2 DEF Sender, Message
<1> QED  BY <1>2, <1>3

LEMMA NextTypes ==
    ASSUME TypeOK, Inboxes, AnswersNamed, [Next]_vars
    PROVE  Types'
<1> USE DEF call, user, ends, chain, candidates, history, page
<1>0. Types
  BY DEF TypeOK, Types
<1>1. CASE UNCHANGED vars
  BY <1>0, <1>1 DEF Types, vars
<1>2. ASSUME NEW c \in Clients, Join(c) PROVE Types'
  BY <1>0, <1>2 DEF Types, Join
<1>16. ASSUME NEW c \in Clients, Enters(c) PROVE Types'
  BY <1>0, <1>16 DEF Types, Enters, OnJoined
<1>3. ASSUME NEW c \in Clients, AllowCamera(c) PROVE Types'
  BY <1>0, <1>3 DEF Types, AllowCamera
<1>4. ASSUME NEW c \in Clients, DenyCamera(c) PROVE Types'
  BY <1>0, <1>4 DEF Types, DenyCamera
<1>5. ASSUME NEW c \in Clients, Leave(c) PROVE Types'
  BY <1>0, <1>5 DEF Types, Leave, OfferStates, AnswerStates
<1>6. ASSUME NEW c \in Clients, OnLeft(c) PROVE Types'
  <2>1. Sender(c) \in Clients
    BY <1>6, HeadTypes DEF OnLeft, Handles
  <2> QED  BY <1>0, <1>6, <2>1 DEF Types, OnLeft, Pairs
<1>7. ASSUME NEW c \in Clients, OnOffer(c) PROVE Types'
  <2>1. Sender(c) \in Clients
    BY <1>7, HeadTypes DEF OnOffer, Handles
  <2>2. <<c, Sender(c)>> \in Pairs
    BY <2>1 DEF Pairs
  <2>3. current' \in [Clients -> Clients \cup {Nobody}]
    BY <1>0, <1>7, <2>1 DEF Types, OnOffer
  <2>4. answerSig' \in [Pairs -> AnswerStates]
    BY <1>0, <1>7, <2>2 DEF Types, OnOffer, AnswerStates
  <2>5. task' \in [Pairs -> {"none", "setting", "answering"}]
    BY <1>0, <1>7, <2>2 DEF Types, OnOffer
  <2>6. table' \in [Pairs -> Roles \cup {"none"}]
    BY <1>0, <1>7, <2>2 DEF Types, OnOffer, Roles
  <2>7. overlapped' \subseteq Clients /\ deaf' \subseteq Pairs
    <3>1. overlapped' \in {overlapped, overlapped \cup {c}}
      BY <1>7 DEF OnOffer
    <3>2. deaf' \in {deaf, deaf \cup {<<c, Sender(c)>>}}
      BY <1>7 DEF OnOffer
    <3> QED  BY <1>0, <2>2, <3>1, <3>2 DEF Types
  <2> QED  BY <1>0, <1>7, <2>3, <2>4, <2>5, <2>6, <2>7 DEF Types, OnOffer
<1>8. ASSUME NEW c \in Clients, OnAnswer(c) PROVE Types'
  <2>1. Sender(c) \in Clients /\ <<Sender(c), Head(inbox[c]).by>> \in Pairs
    BY <1>8, HeadTypes DEF OnAnswer, Handles, AnswersNamed, Pairs
  <2>2. <<c, Sender(c)>> \in Pairs
    BY <2>1 DEF Pairs
  <2>3. offerSig' \in [Pairs -> OfferStates]
    <3>1. offerSig' = offerSig \/ offerSig' = [offerSig EXCEPT ![<<c, Sender(c)>>] = "stable"]
      BY <1>8 DEF OnAnswer, Accept
    <3> QED  BY <1>0, <2>2, <3>1 DEF Types, OfferStates
  <2>4. remote' \in [Pairs -> Pairs \cup {Nobody}]
    <3>1. \/ remote' = remote
          \/ remote' = [remote EXCEPT ![<<c, Sender(c)>>] = <<Sender(c), Head(inbox[c]).by>>]
      BY <1>8 DEF OnAnswer, Accept
    <3>2. <<Sender(c), Head(inbox[c]).by>> \in Pairs \cup {Nobody}
      BY <2>1
    <3>3. remote \in [Pairs -> Pairs \cup {Nobody}]
      BY <1>0 DEF Types
    <3>4. [remote EXCEPT ![<<c, Sender(c)>>] = <<Sender(c), Head(inbox[c]).by>>]
             \in [Pairs -> Pairs \cup {Nobody}]
      BY <3>2, <3>3, UpdateTyped
    <3> QED  BY <3>1, <3>3, <3>4
  <2>5. screens' \in [Clients -> SUBSET Clients]
    <3>1. screens' = screens \/ screens' = [screens EXCEPT ![c] = @ \cup {Sender(c)}]
      BY <1>8 DEF OnAnswer, Accept, AddStream
    <3> QED  BY <1>0, <2>1, <3>1 DEF Types
  <2> QED  BY <1>0, <1>8, <2>3, <2>4, <2>5 DEF Types, OnAnswer
<1>9. ASSUME NEW c \in Clients, OnCandidate(c) PROVE Types'
  <2>1. Sender(c) \in Clients
    BY <1>9, HeadTypes DEF OnCandidate, Handles
  <2> QED  BY <1>0, <1>9, <2>1 DEF Types, OnCandidate
<1>10. ASSUME NEW c \in Clients, NEW p \in Clients, SendOffer(c, p) PROVE Types'
  <2>1. <<c, p>> \in Pairs
    BY DEF Pairs
  <2> QED  BY <1>0, <1>10, <2>1 DEF Types, SendOffer, OfferStates, Roles
<1>11. ASSUME NEW c \in Clients, NEW p \in Clients, RemoteSet(c, p) PROVE Types'
  <2>1. <<c, p>> \in Pairs
    BY DEF Pairs
  <2> QED  BY <1>0, <1>11, <2>1 DEF Types, RemoteSet, AddStream, AnswerStates
<1>12. ASSUME NEW c \in Clients, NEW p \in Clients, AnswerMade(c, p) PROVE Types'
  BY <1>0, <1>12 DEF Types, AnswerMade, AnswerStates
<1>13. ASSUME NEW c \in Clients, NEW p \in Clients, AnswerRefused(c, p) PROVE Types'
  BY <1>0, <1>13 DEF Types, AnswerRefused
<1>14. ASSUME NEW c \in Clients, NEW p \in Clients, LocalSet(c, p) PROVE Types'
  BY <1>0, <1>14 DEF Types, LocalSet, AnswerStates
<1>15. ASSUME NEW c \in Clients, NEW p \in Clients, Trickles(c, p) PROVE Types'
  BY <1>0, <1>15 DEF Types, Trickles, SendCandidate
<1> QED
  BY <1>1, <1>2, <1>3, <1>4, <1>5, <1>6, <1>7, <1>8, <1>9, <1>10, <1>11, <1>12, <1>13,
     <1>14, <1>15, <1>16, NextSteps DEF Steps

-----------------------------------------------------------------------------
(* The invariants                                                          *)

Queued(c, i, type, p) == inbox[c][i].type = type /\ inbox[c][i].from = p

\* Listed are clients that have joined, to one that was sent its list.
Lists ==
    \A c, p \in Clients :
        /\ c \in list[p] => c # p /\ joined[c] # "out"
        /\ joined[c] = "out" => camera[c] = "none"
        /\ camera[c] = "none" => list[c] = {} /\ joined[c] # "gone"
        /\ toOffer[c] \subseteq list[c]

\* A client that is not in the call has no page.
Absent ==
    \A c \in Clients : joined[c] # "in" =>
        /\ inbox[c] = <<>> /\ screens[c] = {} /\ toOffer[c] = {}
        /\ \A p \in Clients : /\ task[<<c, p>>] = "none"
                              /\ offerSig[<<c, p>>] = "none" /\ answerSig[<<c, p>>] = "none"

\* A client offers once, to those it was listed: until then, and until the offer is
\* taken, the other has no connection to answer it.
Offered(c, p) == c \in list[p] \ toOffer[p]

Offers ==
    \A c, p \in Clients :
        /\ offerSig[<<p, c>>] # "none" => Offered(c, p)
        /\ answerSig[<<c, p>>] # "none" => Offered(c, p)
        /\ table[<<c, p>>] = "answer" => answerSig[<<c, p>>] # "none"
        /\ \A i \in DOMAIN inbox[c] : Queued(c, i, "offer", p) =>
              /\ Offered(c, p) /\ answerSig[<<c, p>>] = "none"
              /\ \A j \in DOMAIN inbox[c] : Queued(c, j, "offer", p) => i = j

\* A promise chain works on a connection of its own; without overlap it is the
\* global, and the one that is asked for the answer.
Chain(c, p) ==
    /\ task[<<c, p>>] # "none" =>
          /\ camera[c] = "on"
          /\ current[c] \in Clients /\ answerSig[<<c, current[c]>>] # "none"
          /\ c \in overlapped \/ current[c] = p
    /\ task[<<c, p>>] = "setting" => answerSig[<<c, p>>] = "new"
    /\ task[<<c, p>>] = "answering" =>
          /\ asked[<<c, p>>] \in Clients /\ answerSig[<<c, asked[<<c, p>>]>>] # "none"
          /\ c \in overlapped \/ asked[<<c, p>>] = p

Chains == \A c, p \in Clients : Chain(c, p)

\* An answer on its way from c to p: without overlap it is that of the connection to
\* p, which is set.
Answered(c, p) == answerSig[<<c, p>>] \in {"answered", "stable"}

AnswerFits(p, e) ==
    /\ e.by \in Clients /\ joined[e.from] # "out"
    /\ \/ e.from \in overlapped
       \/ e.by = p /\ (joined[e.from] = "in" => Answered(e.from, p))

Answers ==
    \A p \in Clients : \A i \in DOMAIN inbox[p] :
        inbox[p][i].type = "answer" => AnswerFits(p, inbox[p][i])

Base == TypeOK /\ Inboxes /\ Lists /\ Absent /\ Offers /\ Chains /\ Answers

-----------------------------------------------------------------------------
(* The invariants are kept                                                 *)

\* Only a page that is in the call acts.
LEMMA Acts ==
    ASSUME NEW c \in Clients
    PROVE  /\ OnLeft(c) \/ OnOffer(c) \/ OnAnswer(c) \/ OnCandidate(c)
                 => joined[c] = "in" /\ camera[c] # "none"
           /\ Leave(c) => joined[c] = "in"
           /\ \A p : SendOffer(c, p) => joined[c] = "in" /\ p \in toOffer[c]
BY DEF OnLeft, OnOffer, OnAnswer, OnCandidate, Leave, SendOffer, Handles

LEMMA LeaveCamera ==
    ASSUME TypeOK, NEW c \in Clients, Leave(c)
    PROVE  camera'[c] = "off" /\ joined'[c] = "gone"
BY DEF Leave, TypeOK

LEMMA NextLists ==
    ASSUME TypeOK, Lists, [Next]_vars
    PROVE  Lists'
<1> SUFFICES ASSUME NEW c \in Clients, NEW p \in Clients
             PROVE  /\ c \in list'[p] => c # p /\ joined'[c] # "out"
                    /\ joined'[c] = "out" => camera'[c] = "none"
                    /\ camera'[c] = "none" => list'[c] = {} /\ joined'[c] # "gone"
                    /\ toOffer'[c] \subseteq list'[c]
  BY DEF Lists
<1>0. /\ c \in list[p] => c # p /\ joined[c] # "out"
      /\ joined[c] = "out" => camera[c] = "none"
      /\ camera[c] = "none" => list[c] = {} /\ joined[c] # "gone"
      /\ toOffer[c] \subseteq list[c]
  BY DEF Lists
<1>1. c \in list'[p] => c # p /\ joined'[c] # "out"
  BY <1>0, CallStep
<1>2. joined'[c] = "out" => camera'[c] = "none"
  <2>1. ASSUME joined'[c] = "out" PROVE camera'[c] = "none"
    <3>1. joined[c] = "out" /\ ~Leave(c)
      BY <2>1, CallStep, Acts
    <3> QED  BY <1>0, <3>1, CameraStep DEF CameraMoves
  <2> QED  BY <2>1
<1>3. camera'[c] = "none" => list'[c] = {} /\ joined'[c] # "gone"
  <2>1. ASSUME camera'[c] = "none" PROVE list'[c] = {} /\ joined'[c] # "gone"
    <3>1. camera[c] = "none" /\ ~Leave(c)
      BY <2>1, CameraStep, LeaveCamera DEF CameraMoves
    <3>2. joined'[c] # "gone"
      BY <1>0, <3>1, CallStep
    <3>3. ~Enters(c)
      BY <2>1 DEF Enters, OnJoined, TypeOK
    <3>4. list'[c] = list[c]
      BY <3>3, CallStep
    <3> QED  BY <1>0, <3>1, <3>2, <3>4
  <2> QED  BY <2>1
<1>4. toOffer'[c] \subseteq list'[c]
  <2>1. \/ toOffer'[c] \subseteq toOffer[c] \/ toOffer'[c] = list'[c]
    BY ToOfferStep DEF ToOfferMoves
  <2>2. CASE toOffer'[c] \subseteq toOffer[c]
    BY <1>0, <2>2, CallStep
  <2> QED  BY <2>1, <2>2
<1> QED  BY <1>1, <1>2, <1>3, <1>4

LEMMA NextAbsent ==
    ASSUME TypeOK, Inboxes, Lists, Absent, [Next]_vars
    PROVE  Absent'
<1> SUFFICES ASSUME NEW c \in Clients, joined'[c] # "in"
             PROVE  /\ inbox'[c] = <<>> /\ screens'[c] = {} /\ toOffer'[c] = {}
                    /\ \A p \in Clients :
                          /\ task'[<<c, p>>] = "none"
                          /\ offerSig'[<<c, p>>] = "none" /\ answerSig'[<<c, p>>] = "none"
  BY DEF Absent
<1>1. CASE Leave(c)
  <2>1. /\ inbox'[c] = <<>>
        /\ \A p \in Clients : /\ task'[<<c, p>>] = "none"
                              /\ offerSig'[<<c, p>>] = "none" /\ answerSig'[<<c, p>>] = "none"
    BY <1>1 DEF Leave, Pairs
  <2>2. toOffer' = [toOffer EXCEPT ![c] = {}]
    BY <1>1 DEF Leave
  <2>3. toOffer'[c] = {}
    BY <2>2 DEF TypeOK
  <2> QED  BY <1>1, <2>1, <2>3, ScreensStep
<1>2. CASE ~Leave(c)
  <2>1. joined'[c] = joined[c] /\ joined[c] # "in"
    <3>1. Join(c) => joined'[c] = "in"
      BY DEF Join, TypeOK
    <3> QED  BY <1>2, <3>1, CallStep
  <2>2. /\ inbox[c] = <<>> /\ screens[c] = {} /\ toOffer[c] = {}
        /\ \A p \in Clients : /\ task[<<c, p>>] = "none"
                              /\ offerSig[<<c, p>>] = "none" /\ answerSig[<<c, p>>] = "none"
    BY <2>1 DEF Absent
  <2>3. /\ ~OnOffer(c) /\ ~OnAnswer(c) /\ ~OnLeft(c) /\ ~OnCandidate(c)
        /\ \A p \in Clients : ~SendOffer(c, p) /\ ~RemoteSet(c, p)
    BY <2>1, <2>2, Acts DEF RemoteSet
  <2>4. inbox'[c] = <<>>
    BY <1>2, <2>1, <2>2, InboxStep DEF InboxMoves
  <2>5. screens'[c] = {} /\ toOffer'[c] = {}
    BY <1>2, <2>1, <2>2, <2>3, ScreensStep, ToOfferStep DEF ScreensMoves, ToOfferMoves
  <2>6. ASSUME NEW p \in Clients
        PROVE  /\ task'[<<c, p>>] = "none"
               /\ offerSig'[<<c, p>>] = "none" /\ answerSig'[<<c, p>>] = "none"
    BY <1>2, <2>2, <2>3, TaskStep, OfferSigStep, AnswerSigStep DEF OfferMoves, AnswerMoves
  <2> QED  BY <2>4, <2>5, <2>6
<1> QED  BY <1>1, <1>2

\* An event of an inbox was there before the step, or has just arrived.
LEMMA EventsOrigin ==
    ASSUME TypeOK, Inboxes, [Next]_vars, NEW c \in Clients, NEW i \in DOMAIN inbox'[c]
    PROVE  \/ \E j \in DOMAIN inbox[c] : inbox[c][j] = inbox'[c][i]
           \/ joined[c] = "in" /\ Arrives(c, inbox'[c][i])
<1>0. inbox[c] \in Seq(Message)
  BY DEF Inboxes
<1>1. CASE inbox'[c] = inbox[c]
  BY <1>1
<1>2. CASE inbox'[c] = <<>>
  BY <1>2
<1>3. CASE inbox[c] # <<>> /\ inbox'[c] = Tail(inbox[c])
  BY <1>0, <1>3, TailFacts
<1>4. ASSUME NEW e \in Message,
             joined[c] = "in" /\ inbox'[c] = Append(inbox[c], e) /\ Arrives(c, e)
      PROVE  \/ \E j \in DOMAIN inbox[c] : inbox[c][j] = inbox'[c][i]
             \/ joined[c] = "in" /\ Arrives(c, inbox'[c][i])
  BY <1>0, <1>4, AppendFacts
<1> QED  BY <1>1, <1>2, <1>3, <1>4, InboxStep DEF InboxMoves

LEMMA ArrivesTypes ==
    ASSUME NEW c \in Clients, NEW e, Arrives(c, e)
    PROVE  /\ e.type = "offer" => e.from \in Clients /\ SendOffer(e.from, c)
           /\ e.type = "answer" => /\ e.from \in Clients /\ AnswerMade(e.from, c)
                                   /\ e.by = asked[<<e.from, c>>]
BY DEF Arrives, Event

\* Two offers of one client are never in an inbox together.
LEMMA OffersUnique ==
    ASSUME TypeOK, Inboxes, Offers, [Next]_vars, NEW c \in Clients, NEW p \in Clients,
           NEW i \in DOMAIN inbox'[c], NEW j \in DOMAIN inbox'[c],
           Queued(c, i, "offer", p)', Queued(c, j, "offer", p)'
    PROVE  i = j
<1>0. inbox[c] \in Seq(Message) /\ DOMAIN inbox[c] \subseteq Nat
  BY DEF Inboxes
<1>1. \A k, l \in DOMAIN inbox[c] :
          Queued(c, k, "offer", p) /\ Queued(c, l, "offer", p) => k = l
  BY DEF Offers
<1>2. CASE inbox'[c] = inbox[c]
  BY <1>1, <1>2 DEF Queued
<1>3. CASE inbox'[c] = <<>>
  BY <1>3
<1>4. CASE inbox[c] # <<>> /\ inbox'[c] = Tail(inbox[c])
  <2>0. \A k \in DOMAIN Tail(inbox[c]) :
            k + 1 \in DOMAIN inbox[c] /\ Tail(inbox[c])[k] = inbox[c][k + 1]
    BY <1>0, <1>4, TailFacts
  <2>1. /\ i + 1 \in DOMAIN inbox[c] /\ inbox'[c][i] = inbox[c][i + 1]
        /\ j + 1 \in DOMAIN inbox[c] /\ inbox'[c][j] = inbox[c][j + 1]
    BY <1>4, <2>0
  <2>4. Tail(inbox[c]) \in Seq(Message)
    BY <1>0, <1>4, TailFacts
  <2>5. i \in Nat /\ j \in Nat
    BY <1>4, <2>4
  <2>2. Queued(c, i + 1, "offer", p) /\ Queued(c, j + 1, "offer", p)
    BY <2>1 DEF Queued
  <2>3. i + 1 = j + 1
    BY <1>1, <2>1, <2>2
  <2> QED  BY <2>3, <2>5
<1>5. ASSUME NEW e \in Message, inbox'[c] = Append(inbox[c], e), Arrives(c, e)
      PROVE  i = j
  <2>1. /\ \A k \in DOMAIN inbox[c] : inbox'[c][k] = inbox[c][k]
        /\ i \in DOMAIN inbox[c] \/ (i = Len(inbox[c]) + 1 /\ inbox'[c][i] = e)
        /\ j \in DOMAIN inbox[c] \/ (j = Len(inbox[c]) + 1 /\ inbox'[c][j] = e)
    BY <1>0, <1>5, AppendFacts
  <2>2. CASE i \in DOMAIN inbox[c] /\ j \in DOMAIN inbox[c]
    BY <1>1, <2>1, <2>2 DEF Queued
  <2>3. ASSUME inbox'[c][i] = e \/ inbox'[c][j] = e, NEW k \in DOMAIN inbox[c],
               Queued(c, k, "offer", p)
        PROVE  FALSE
    <3>1. c \notin toOffer[p]
      BY <2>3 DEF Offers, Offered
    <3>2. e.type = "offer" /\ e.from = p
      BY <2>3 DEF Queued
    <3> QED  BY <1>5, <3>1, <3>2, ArrivesTypes, Acts
  <2>4. CASE i \in DOMAIN inbox[c] /\ inbox'[c][j] = e
    BY <2>1, <2>3, <2>4 DEF Queued
  <2>5. CASE j \in DOMAIN inbox[c] /\ inbox'[c][i] = e
    BY <2>1, <2>3, <2>5 DEF Queued
  <2> QED  BY <2>1, <2>2, <2>4, <2>5
<1> QED  BY <1>2, <1>3, <1>4, <1>5, InboxStep DEF InboxMoves

\* What has been offered has been.
LEMMA OfferedStays ==
    ASSUME TypeOK, Lists, [Next]_vars, NEW c \in Clients, NEW p \in Clients, Offered(c, p)
    PROVE  Offered(c, p)'
<1>1. camera[p] # "none"
  BY DEF Offered, Lists
<1>2. list'[p] = list[p] /\ toOffer'[p] \subseteq toOffer[p]
  BY <1>1, CallStep, ToOfferStep DEF ToOfferMoves
<1> QED  BY <1>2 DEF Offered

\* The offer of p, when it is made.
LEMMA OfferMade ==
    ASSUME Base, NEW c \in Clients, NEW p \in Clients, SendOffer(p, c)
    PROVE  Offered(c, p)' /\ answerSig[<<c, p>>] = "none" /\ answerSig' = answerSig
<1> USE DEF Base
<1>1. /\ c \in toOffer[p] /\ c \in list[p]
      /\ toOffer' = [toOffer EXCEPT ![p] = @ \ {c}] /\ list' = list
      /\ answerSig' = answerSig
  BY DEF SendOffer, call, Lists
<1>2. c \notin toOffer'[p]
  BY <1>1 DEF TypeOK
<1>3. answerSig[<<c, p>>] = "none"
  BY <1>1 DEF Offers, Offered
<1> QED  BY <1>1, <1>2, <1>3 DEF Offered

\* The offer that is taken was made, and is the first of its kind.
LEMMA OfferComes ==
    ASSUME Base, NEW c \in Clients, OnOffer(c)
    PROVE  /\ Sender(c) \in Clients /\ Offered(c, Sender(c))
           /\ answerSig[<<c, Sender(c)>>] = "none"
           /\ 1 \in DOMAIN inbox[c] /\ Queued(c, 1, "offer", Sender(c))
<1> USE DEF Base
<1>1. /\ Sender(c) \in Clients /\ 1 \in DOMAIN inbox[c]
      /\ Queued(c, 1, "offer", Sender(c))
  BY HeadTypes DEF OnOffer, Handles, Queued, Sender
<1> QED  BY <1>1 DEF Offers

\* The offer that is taken is no longer in the inbox.
LEMMA OfferTaken ==
    ASSUME Base, [Next]_vars, NEW c \in Clients, OnOffer(c),
           NEW p \in Clients, Sender(c) = p,
           NEW j \in DOMAIN inbox'[c], Queued(c, j, "offer", p)'
    PROVE  FALSE
<1>0. inbox[c] \in Seq(Message) /\ inbox[c] # <<>> /\ Head(inbox[c]).type = "offer"
  BY DEF Base, Inboxes, OnOffer, Handles
<1>1. inbox'[c] = Tail(inbox[c])
  BY DEF Base, Inboxes, OnOffer, Handles
<1>2. /\ 1 \in DOMAIN inbox[c] /\ Head(inbox[c]) = inbox[c][1]
      /\ j + 1 \in DOMAIN inbox[c] /\ inbox'[c][j] = inbox[c][j + 1]
      /\ j + 1 \in Nat /\ j \in Nat /\ j # 0
  BY <1>0, <1>1, TailFacts
<1>3. Queued(c, 1, "offer", p)
  BY <1>0, <1>2 DEF Queued, Sender
<1>4. Queued(c, j + 1, "offer", p)
  BY <1>2 DEF Queued
<1>5. j + 1 = 1
  BY <1>2, <1>3, <1>4 DEF Base, Offers
<1> QED  BY <1>2, <1>5

\* Only an offer makes a connection that answers.
LEMMA AnswerBegins ==
    ASSUME Base, [Next]_vars, NEW c \in Clients, NEW p \in Clients,
           answerSig[<<c, p>>] = "none", ~(OnOffer(c) /\ Sender(c) = p)
    PROVE  answerSig'[<<c, p>>] = "none"
<1>1. ~RemoteSet(c, p)
  BY DEF Base, RemoteSet, Chains, Chain
<1> QED  BY <1>1, AnswerSigStep DEF Base, AnswerMoves

LEMMA NextOffers ==
    ASSUME Base, [Next]_vars
    PROVE  Offers'
<1> USE DEF Base
<1> SUFFICES ASSUME NEW c \in Clients, NEW p \in Clients
             PROVE  /\ offerSig'[<<p, c>>] # "none" => Offered(c, p)'
                    /\ answerSig'[<<c, p>>] # "none" => Offered(c, p)'
                    /\ table'[<<c, p>>] = "answer" => answerSig'[<<c, p>>] # "none"
                    /\ \A i \in DOMAIN inbox'[c] : Queued(c, i, "offer", p)' =>
                          /\ Offered(c, p)' /\ answerSig'[<<c, p>>] = "none"
                          /\ \A j \in DOMAIN inbox'[c] : Queued(c, j, "offer", p)' => i = j
  BY DEF Offers, Offered, Queued
<1>0. TypeOK /\ Inboxes /\ Lists
  OBVIOUS
<1>1. offerSig'[<<p, c>>] # "none" => Offered(c, p)'
  <2>1. CASE SendOffer(p, c)
    BY <2>1, OfferMade
  <2>2. CASE ~SendOffer(p, c)
    <3>1. offerSig'[<<p, c>>] # "none" => offerSig[<<p, c>>] # "none"
      BY <2>2, OfferSigStep DEF OfferMoves, Awaits
    <3> QED  BY <3>1, OfferedStays DEF Offers
  <2> QED  BY <2>1, <2>2
<1>2. answerSig'[<<c, p>>] # "none" => Offered(c, p)'
  <2>1. CASE OnOffer(c) /\ Sender(c) = p
    BY <2>1, OfferComes, OfferedStays
  <2>2. CASE ~(OnOffer(c) /\ Sender(c) = p)
    <3>1. answerSig'[<<c, p>>] # "none" => answerSig[<<c, p>>] # "none"
      BY <2>2, AnswerBegins
    <3> QED  BY <3>1, OfferedStays DEF Offers
  <2> QED  BY <2>1, <2>2
<1>3. table'[<<c, p>>] = "answer" => answerSig'[<<c, p>>] # "none"
  <2>1. ASSUME table'[<<c, p>>] = "answer" PROVE answerSig'[<<c, p>>] # "none"
    <3>1. ~Leave(c)
      BY <2>1, TableStep
    <3>2. CASE OnOffer(c) /\ Sender(c) = p /\ camera[c] = "on"
      BY <3>2 DEF OnOffer, TypeOK, Pairs
    <3>3. CASE table[<<c, p>>] = "answer"
      <4>1. answerSig[<<c, p>>] # "none"
        BY <3>3 DEF Offers
      <4> QED  BY <3>1, <4>1, AnswerSigStep DEF AnswerMoves
    <3> QED  BY <2>1, <3>2, <3>3, TableStep DEF TableMoves
  <2> QED  BY <2>1
<1>4. ASSUME NEW i \in DOMAIN inbox'[c], Queued(c, i, "offer", p)'
      PROVE  Offered(c, p)' /\ answerSig'[<<c, p>>] = "none"
  <2>1. ASSUME NEW k \in DOMAIN inbox[c], Queued(c, k, "offer", p)
        PROVE  Offered(c, p)' /\ answerSig'[<<c, p>>] = "none"
    <3>1. Offered(c, p) /\ answerSig[<<c, p>>] = "none"
      BY <2>1 DEF Offers
    <3>2. ~(OnOffer(c) /\ Sender(c) = p)
      BY <1>4, OfferTaken
    <3> QED  BY <3>1, <3>2, AnswerBegins, OfferedStays
  <2>2. ASSUME Arrives(c, inbox'[c][i])
        PROVE  Offered(c, p)' /\ answerSig'[<<c, p>>] = "none"
    <3>1. SendOffer(p, c)
      BY <1>4, <2>2, ArrivesTypes DEF Queued
    <3> QED  BY <3>1, OfferMade
  <2>3. \/ \E k \in DOMAIN inbox[c] : Queued(c, k, "offer", p)
        \/ Arrives(c, inbox'[c][i])
    BY <1>0, <1>4, EventsOrigin DEF Queued
  <2> QED  BY <2>1, <2>2, <2>3
<1>5. ASSUME NEW i \in DOMAIN inbox'[c], NEW j \in DOMAIN inbox'[c],
             Queued(c, i, "offer", p)', Queued(c, j, "offer", p)'
      PROVE  i = j
  BY <1>5, OffersUnique
<1> QED  BY <1>1, <1>2, <1>3, <1>4, <1>5

\* Taking an offer starts its chain, and makes its connection the global.
LEMMA OfferEffect ==
    ASSUME Base, NEW c \in Clients, OnOffer(c), camera[c] = "on"
    PROVE  /\ Sender(c) \in Clients
           /\ camera'[c] = "on" /\ current'[c] = Sender(c)
           /\ answerSig'[<<c, Sender(c)>>] = "new"
           /\ \A p \in Clients : task[<<c, p>>] # "none" => c \in overlapped'
<1> USE DEF Base
<1>1. Sender(c) \in Clients
  BY HeadTypes DEF OnOffer, Handles
<1>2. /\ current' = [current EXCEPT ![c] = Sender(c)]
      /\ answerSig' = [answerSig EXCEPT ![<<c, Sender(c)>>] = "new"]
      /\ overlapped' = IF Answering(c) THEN overlapped \cup {c} ELSE overlapped
      /\ camera' = camera
  BY DEF OnOffer, user
<1>3. current'[c] = Sender(c)
  BY <1>2 DEF TypeOK
<1>4. answerSig'[<<c, Sender(c)>>] = "new"
  BY <1>1, <1>2 DEF TypeOK, Pairs
<1>5. \A p \in Clients : task[<<c, p>>] # "none" => c \in overlapped'
  BY <1>2 DEF Answering
<1> QED  BY <1>1, <1>2, <1>3, <1>4, <1>5

LEMMA NextChains ==
    ASSUME Base, [Next]_vars
    PROVE  Chains'
<1> SUFFICES ASSUME NEW c \in Clients, NEW p \in Clients
             PROVE  Chain(c, p)'
  BY DEF Chains
<1>0. TypeOK /\ Chain(c, p)
  BY DEF Base, Chains
<1>1. CASE Leave(c)
  <2>1. task'[<<c, p>>] = "none"
    BY <1>1 DEF Leave, Pairs
  <2> QED  BY <2>1 DEF Chain
<1>2. CASE ~Leave(c)
  <2>0. \A q \in Clients : answerSig[<<c, q>>] # "none" => answerSig'[<<c, q>>] # "none"
    BY <1>0, <1>2, AnswerSigStep DEF AnswerMoves
  <2>1. ASSUME task'[<<c, p>>] # "none"
        PROVE  /\ camera'[c] = "on"
               /\ current'[c] \in Clients /\ answerSig'[<<c, current'[c]>>] # "none"
               /\ c \in overlapped' \/ current'[c] = p
    <3>1. CASE task[<<c, p>>] # "none"
      <4>1. /\ camera[c] = "on"
            /\ current[c] \in Clients /\ answerSig[<<c, current[c]>>] # "none"
            /\ c \in overlapped \/ current[c] = p
        BY <1>0, <3>1 DEF Chain
      <4>2. camera'[c] = "on"
        BY <1>0, <1>2, <4>1, CameraStep DEF CameraMoves
      <4>3. CASE OnOffer(c)
        BY <3>1, <4>1, <4>2, <4>3, OfferEffect
      <4>4. CASE ~OnOffer(c)
        BY <1>0, <1>2, <2>0, <4>1, <4>2, <4>4, CameraStep, HistoryStep DEF CameraMoves
      <4> QED  BY <4>3, <4>4
    <3>2. CASE task[<<c, p>>] = "none"
      <4>1. OnOffer(c) /\ Sender(c) = p /\ camera[c] = "on"
        BY <1>0, <2>1, <3>2, TaskStep
      <4> QED  BY <1>0, <4>1, OfferEffect
    <3> QED  BY <3>1, <3>2
  <2>2. ASSUME task'[<<c, p>>] = "setting"
        PROVE  answerSig'[<<c, p>>] = "new"
    <3>1. CASE OnOffer(c) /\ Sender(c) = p /\ camera[c] = "on"
      BY <3>1, OfferEffect
    <3>2. CASE ~(OnOffer(c) /\ Sender(c) = p /\ camera[c] = "on")
      <4>1. task[<<c, p>>] = "setting"
        BY <1>0, <2>2, <3>2, TaskStep
      <4>2. answerSig[<<c, p>>] = "new"
        BY <1>0, <4>1 DEF Chain
      <4>3. ~RemoteSet(c, p)
        BY <2>2 DEF RemoteSet, Base, TypeOK, Pairs
      <4> QED  BY <1>0, <1>2, <3>2, <4>2, <4>3, AnswerSigStep DEF AnswerMoves
    <3> QED  BY <3>1, <3>2
  <2>3. ASSUME task'[<<c, p>>] = "answering"
        PROVE  /\ asked'[<<c, p>>] \in Clients
               /\ answerSig'[<<c, asked'[<<c, p>>]>>] # "none"
               /\ c \in overlapped' \/ asked'[<<c, p>>] = p
    <3>1. CASE RemoteSet(c, p)
      <4>1. task[<<c, p>>] = "setting" /\ UNCHANGED overlapped
        BY <3>1 DEF RemoteSet, history
      <4>2. asked' = [asked EXCEPT ![<<c, p>>] = current[c]]
        BY <3>1 DEF RemoteSet
      <4>3. asked'[<<c, p>>] = current[c]
        BY <1>0, <4>2 DEF TypeOK, Pairs
      <4> QED  BY <1>0, <2>0, <4>1, <4>3 DEF Chain
    <3>2. CASE ~RemoteSet(c, p)
      <4>1. task[<<c, p>>] = "answering"
        BY <1>0, <2>3, <3>2, TaskStep
      <4>2. asked'[<<c, p>>] = asked[<<c, p>>]
        BY <1>0, <1>2, <3>2, AskedStep
      <4> QED  BY <1>0, <2>0, <4>1, <4>2, HistoryStep DEF Chain
    <3> QED  BY <3>1, <3>2
  <2> QED  BY <2>1, <2>2, <2>3 DEF Chain
<1> QED  BY <1>1, <1>2

\* A connection that has answered stays so while its client does.
LEMMA AnsweredStays ==
    ASSUME Base, [Next]_vars, NEW c \in Clients, NEW p \in Clients,
           Answered(c, p), ~Leave(c)
    PROVE  Answered(c, p)'
<1> USE DEF Base
<1>1. ~(OnOffer(c) /\ Sender(c) = p)
  BY OfferComes DEF Answered
<1>2. ~RemoteSet(c, p)
  BY DEF RemoteSet, Chains, Chain, Answered
<1> QED  BY <1>1, <1>2, AnswerSigStep DEF Answered, AnswerMoves

LEMMA NextAnswers ==
    ASSUME Base, [Next]_vars
    PROVE  Answers'
<1> USE DEF Base
<1> SUFFICES ASSUME NEW p \in Clients, NEW i \in DOMAIN inbox'[p], NEW e,
                    e = inbox'[p][i], e.type = "answer"
             PROVE  AnswerFits(p, e)'
  BY DEF Answers, AnswerFits, Answered
<1>1. ASSUME NEW j \in DOMAIN inbox[p], inbox[p][j] = e
      PROVE  AnswerFits(p, e)'
  <2>0. AnswerFits(p, e) /\ e.from \in Clients
    BY <1>1 DEF Answers, TypeOK
  <2>1. PICK c \in Clients : c = e.from
    BY <2>0
  <2>2. joined[c] # "out" /\ joined'[c] # "out"
    BY <2>0, <2>1, CallStep DEF AnswerFits
  <2>3. CASE c \in overlapped
    BY <2>0, <2>1, <2>2, <2>3, HistoryStep DEF AnswerFits
  <2>4. CASE c \notin overlapped
    <3>1. e.by = p /\ (joined[c] = "in" => Answered(c, p))
      BY <2>0, <2>1, <2>4 DEF AnswerFits
    <3>2. joined'[c] = "in" => joined[c] = "in" /\ ~Leave(c)
      BY <2>2, CallStep, LeaveCamera
    <3>3. joined'[c] = "in" => Answered(c, p)'
      BY <3>1, <3>2, AnsweredStays
    <3> QED  BY <2>0, <2>1, <2>2, <3>1, <3>3 DEF AnswerFits
  <2> QED  BY <2>3, <2>4
<1>2. ASSUME Arrives(p, e)
      PROVE  AnswerFits(p, e)'
  <2>1. PICK c \in Clients : /\ c = e.from /\ AnswerMade(c, p)
                             /\ e.by = asked[<<c, p>>]
    BY <1>2, ArrivesTypes
  <2>2. /\ task[<<c, p>>] = "answering"
        /\ UNCHANGED <<joined, overlapped>>
        /\ answerSig' = [answerSig EXCEPT ![<<c, asked[<<c, p>>]>>] =
                      IF current[c] = asked[<<c, p>>] THEN "answered" ELSE @]
    BY <2>1 DEF AnswerMade, call, history
  <2>3. Chain(c, p)
    BY DEF Chains
  <2>4. e.by \in Clients /\ joined[c] # "out"
    BY <2>1, <2>2, <2>3 DEF Chain, Absent
  <2>5. c \in overlapped \/ (e.by = p /\ answerSig'[<<c, p>>] = "answered")
    <3>1. c \in overlapped \/ (asked[<<c, p>>] = p /\ current[c] = p)
      BY <2>2, <2>3 DEF Chain
    <3>2. <<c, p>> \in Pairs /\ answerSig \in [Pairs -> AnswerStates]
      BY DEF TypeOK, Pairs
    <3> QED  BY <2>1, <2>2, <3>1, <3>2
  <2> QED  BY <2>1, <2>2, <2>4, <2>5 DEF AnswerFits, Answered
<1> QED  BY <1>1, <1>2, EventsOrigin

LEMMA NextTypeOK ==
    ASSUME Base, [Next]_vars
    PROVE  TypeOK'
<1> USE DEF Base
<1>1. AnswersNamed
  BY DEF AnswersNamed, Answers, AnswerFits
<1>2. Types' /\ Inboxes'
  BY <1>1, NextTypes, NextInboxes
<1>3. \A c \in Clients : \A i \in DOMAIN inbox'[c] : inbox'[c][i] \in Message
  BY <1>2 DEF Inboxes
<1>4. \A e \in Pairs : task'[e] = "answering" => answerSig'[<<e[1], asked'[e]>>] # "none"
  <2>1. \A c, p \in Clients :
           task'[<<c, p>>] = "answering" => answerSig'[<<c, asked'[<<c, p>>]>>] # "none"
    BY NextChains DEF Chains, Chain
  <2> TAKE e \in Pairs
  <2>2. e[1] \in Clients /\ e[2] \in Clients /\ e = <<e[1], e[2]>>
    BY DEF Pairs
  <2> QED  BY <2>1, <2>2
<1> QED  BY <1>2, <1>3, <1>4 DEF TypeOK, Types, Message

LEMMA InitBase == Init => Base
<1> SUFFICES ASSUME Init PROVE Base
  OBVIOUS
<1> USE DEF Init
<1>1. Inboxes
  BY DEF Inboxes
<1>2. TypeOK
  BY DEF TypeOK, OfferStates, AnswerStates, Pairs
<1>3. Lists /\ Absent
  BY DEF Lists, Absent, Pairs
<1>4. Offers /\ Answers
  BY DEF Offers, Answers, Pairs
<1>5. Chains
  BY DEF Chains, Chain, Pairs
<1> QED  BY <1>1, <1>2, <1>3, <1>4, <1>5 DEF Base

LEMMA NextBase == Base /\ [Next]_vars => Base'
BY NextTypeOK, NextInboxes, NextLists, NextAbsent, NextOffers, NextChains, NextAnswers
   DEF Base

-----------------------------------------------------------------------------
(* The two ends                                                            *)

\* The answer a client takes, with what holds of it.
LEMMA AnswerTaken ==
    ASSUME Base, NEW p \in Clients, NEW c \in Clients, OnAnswer(p), Sender(p) = c
    PROVE  AnswerFits(p, Head(inbox[p])) /\ Head(inbox[p]).from = c
<1> USE DEF Base
<1>1. /\ inbox[p] # <<>> /\ Head(inbox[p]).type = "answer"
      /\ 1 \in DOMAIN inbox[p] /\ Head(inbox[p]) = inbox[p][1]
  BY HeadTypes DEF OnAnswer, Handles
<1> QED  BY <1>1 DEF Answers, Sender

LEMMA InitEnds == Init => WrongOnlyIfOverlapped /\ EndsAgree
BY DEF Init, WrongOnlyIfOverlapped, EndsAgree, Pairs

\* A step makes no wrong pair but by an overlap.
LEMMA NextWrongOnly ==
    ASSUME Base, WrongOnlyIfOverlapped, [Next]_vars
    PROVE  WrongOnlyIfOverlapped'
<1> SUFFICES ASSUME NEW c \in Clients, NEW p \in Clients, p \notin overlapped'
             PROVE  remote'[<<c, p>>] \in {<<p, c>>, Nobody}
  BY DEF WrongOnlyIfOverlapped
<1>1. p \notin overlapped
  BY HistoryStep
<1>2. CASE remote'[<<c, p>>] = remote[<<c, p>>]
  BY <1>1, <1>2 DEF WrongOnlyIfOverlapped
<1>3. CASE OnAnswer(c) /\ Sender(c) = p /\ remote'[<<c, p>>] = <<p, Head(inbox[c]).by>>
  BY <1>1, <1>3, AnswerTaken DEF AnswerFits
<1> QED  BY <1>2, <1>3, RemoteStep DEF Base, RemoteMoves

\* Neither end leaves what the other relies on.
LEMMA NextEndsAgree ==
    ASSUME Base, EndsAgree, [Next]_vars
    PROVE  EndsAgree'
<1> USE DEF Base
<1> SUFFICES ASSUME NEW c \in Clients, NEW p \in Clients,
                    offerSig'[<<p, c>>] = "stable", joined'[c] = "in", c \notin overlapped'
             PROVE  remote'[<<p, c>>] = <<c, p>> /\ Answered(c, p)'
  BY DEF EndsAgree, Answered
<1>1. c \notin overlapped
  BY HistoryStep
<1>2. ASSUME joined[c] # "out" PROVE joined[c] = "in" /\ ~Leave(c)
  BY <1>2, CallStep, LeaveCamera
<1>3. CASE offerSig[<<p, c>>] = "stable" /\ offerSig'[<<p, c>>] = offerSig[<<p, c>>]
  <2>1. joined[c] # "out"
    BY <1>3 DEF Offers, Offered, Lists
  <2>2. remote[<<p, c>>] = <<c, p>> /\ Answered(c, p)
    BY <1>1, <1>2, <1>3, <2>1 DEF EndsAgree, Answered
  <2>3. remote'[<<p, c>>] = remote[<<p, c>>]
    <3>1. ~Awaits(p, c)
      BY <1>3 DEF Awaits
    <3>2. ASSUME Leave(p) PROVE FALSE
      <4>1. offerSig'[<<p, c>>] = "none"
        BY <3>2 DEF Leave, Pairs
      <4> QED  BY <4>1
    <3> QED  BY <3>1, <3>2, RemoteStep DEF RemoteMoves
  <2> QED  BY <1>2, <2>1, <2>2, <2>3, AnsweredStays
<1>4. CASE OnAnswer(p) /\ Sender(p) = c /\ Awaits(p, c) /\ Accept(p, c)
  <2>1. joined[c] # "out" /\ Head(inbox[p]).by = p /\ (joined[c] = "in" => Answered(c, p))
    BY <1>1, <1>4, AnswerTaken DEF AnswerFits
  <2>2. remote' = [remote EXCEPT ![<<p, c>>] = <<c, p>>]
    BY <1>4, <2>1 DEF Accept
  <2>3. remote'[<<p, c>>] = <<c, p>>
    BY <2>2 DEF TypeOK, Pairs
  <2> QED  BY <1>2, <2>1, <2>3, AnsweredStays
<1> QED  BY <1>3, <1>4, OfferSigStep DEF OfferMoves

-----------------------------------------------------------------------------
(* Departures                                                              *)

Word(c, i, p) == Queued(c, i, "offer", p) \/ Queued(c, i, "answer", p)

\* An offer or answer of a client that left is followed by the word that it left; what
\* it leads to is forgotten then, or the word came while the offer was being set.
Departed(c, p) ==
    /\ \A i \in DOMAIN inbox[c] : Word(c, i, p) =>
          \E j \in DOMAIN inbox[c] : i < j /\ inbox[c][j] = Event("left", p, Nobody)
    /\ task[<<c, p>>] = "setting" => Announced(p, c) \/ <<c, p>> \in late
    /\ table[<<c, p>>] = "answer" => Announced(p, c)
    /\ p \in screens[c] => Announced(p, c) \/ <<c, p>> \in late

Departures ==
    \A c, p \in Clients :
        joined[c] = "in" /\ joined[p] = "gone" /\ c \in list[p] => Departed(c, p)

\* When the client leaves.
LEMMA LeaveDeparts ==
    ASSUME Base, NEW p \in Clients, Leave(p), NEW c \in Clients, c # p,
           joined[c] = "in", c \in list[p]
    PROVE  Departed(c, p)'
<1>0. inbox[c] \in Seq(Message) /\ Event("left", p, Nobody) \in Message
  BY DEF Base, Inboxes, Event, Message
<1>1. inbox'[c] = Append(inbox[c], Event("left", p, Nobody))
  BY LeaveTells
<1> DEFINE n == Len(inbox[c]) + 1
<1>2. /\ n \in DOMAIN inbox'[c] /\ inbox'[c][n] = Event("left", p, Nobody)
      /\ \A i \in DOMAIN inbox[c] : i < n
      /\ \A i \in DOMAIN inbox'[c] : i \in DOMAIN inbox[c] \/ i = n
  BY <1>0, <1>1, AppendFacts
<1> HIDE DEF n
<1>3. Announced(p, c)'
  BY <1>2 DEF Announced, Event
<1>4. ASSUME NEW i \in DOMAIN inbox'[c], Word(c, i, p)'
      PROVE  \E j \in DOMAIN inbox'[c] : i < j /\ inbox'[c][j] = Event("left", p, Nobody)
  <2>1. i # n
    BY <1>2, <1>4 DEF Word, Queued, Event
  <2> QED  BY <1>2, <2>1
<1>5. \A i \in DOMAIN inbox'[c] : Word(c, i, p)' =>
          \E j \in DOMAIN inbox'[c] : i < j /\ inbox'[c][j] = Event("left", p, Nobody)
  BY <1>4
<1> QED  BY <1>3, <1>5 DEF Departed, Announced, Event, Word, Queued

\* Who has left sends nothing more.
LEMMA GoneIsSilent ==
    ASSUME Base, NEW c \in Clients, NEW p \in Clients, joined[p] = "gone", NEW e,
           Arrives(c, e), e.type \in {"offer", "answer"}
    PROVE  e.from # p
<1>1. ~SendOffer(p, c)
  BY Acts
<1>2. ~AnswerMade(p, c)
  BY DEF Base, Absent, AnswerMade
<1> QED  BY <1>1, <1>2, ArrivesTypes

\* While the other client does something else, or takes no event.
LEMMA DepartedWaits ==
    ASSUME Base, [Next]_vars, NEW c \in Clients, NEW p \in Clients,
           joined[c] = "in", joined[p] = "gone", Departed(c, p),
           ~Leave(c), ~OnLeft(c), ~OnOffer(c), ~OnAnswer(c), ~OnCandidate(c)
    PROVE  Departed(c, p)'
<1> USE DEF Base
<1>0. inbox[c] \in Seq(Message)
  BY DEF Inboxes
<1>1. /\ \A i \in DOMAIN inbox[c] : i \in DOMAIN inbox'[c] /\ inbox'[c][i] = inbox[c][i]
      /\ \A i \in DOMAIN inbox'[c] : i \in DOMAIN inbox[c] \/ Arrives(c, inbox'[c][i])
  <2>1. ASSUME NEW e \in Message, inbox'[c] = Append(inbox[c], e), Arrives(c, e)
        PROVE  /\ \A i \in DOMAIN inbox[c] : i \in DOMAIN inbox'[c]
                                             /\ inbox'[c][i] = inbox[c][i]
               /\ \A i \in DOMAIN inbox'[c] : i \in DOMAIN inbox[c]
                                              \/ Arrives(c, inbox'[c][i])
    BY <1>0, <2>1, AppendFacts
  <2>2. \/ inbox'[c] = inbox[c]
        \/ \E e \in Message : inbox'[c] = Append(inbox[c], e) /\ Arrives(c, e)
    BY InboxStep DEF InboxMoves
  <2> QED  BY <2>1, <2>2
<1>2. Announced(p, c) => Announced(p, c)'
  BY <1>1 DEF Announced, Event
<1>3. ASSUME NEW i \in DOMAIN inbox'[c], Word(c, i, p)'
      PROVE  \E j \in DOMAIN inbox'[c] : i < j /\ inbox'[c][j] = Event("left", p, Nobody)
  <2>1. CASE i \in DOMAIN inbox[c]
    <3>1. Word(c, i, p)
      BY <1>1, <1>3, <2>1 DEF Word, Queued
    <3> QED  BY <1>1, <2>1, <3>1 DEF Departed
  <2>2. ~Arrives(c, inbox'[c][i])
    BY <1>3, GoneIsSilent DEF Word, Queued
  <2> QED  BY <1>1, <2>1, <2>2
<1>4. \A i \in DOMAIN inbox'[c] : Word(c, i, p)' =>
          \E j \in DOMAIN inbox'[c] : i < j /\ inbox'[c][j] = Event("left", p, Nobody)
  BY <1>3
<1>5. task'[<<c, p>>] = "setting" => Announced(p, c)' \/ <<c, p>> \in late'
  BY <1>2, TaskStep, HistoryStep DEF Departed
<1>6. table'[<<c, p>>] = "answer" => Announced(p, c)'
  BY <1>2, TableStep DEF TableMoves, Departed
<1>7. p \in screens'[c] => Announced(p, c)' \/ <<c, p>> \in late'
  <2>1. CASE p \in screens[c]
    BY <1>2, <2>1, HistoryStep DEF Departed
  <2>2. CASE RemoteSet(c, p)
    BY <1>2, <2>2, HistoryStep DEF Departed, RemoteSet
  <2>3. ASSUME NEW q \in Clients, RemoteSet(c, q), screens'[c] = screens[c] \cup {q}
        PROVE  p \in screens'[c] => p \in screens[c] \/ RemoteSet(c, p)
    BY <2>3
  <2> QED  BY <2>1, <2>2, <2>3, ScreensStep DEF ScreensMoves
<1> QED  BY <1>4, <1>5, <1>6, <1>7 DEF Departed, Announced, Event, Word, Queued

\* When the other client takes an event.
LEMMA DepartedTakes ==
    ASSUME Base, [Next]_vars, NEW c \in Clients, NEW p \in Clients,
           joined[p] = "gone", Departed(c, p),
           OnLeft(c) \/ OnOffer(c) \/ OnAnswer(c) \/ OnCandidate(c)
    PROVE  Departed(c, p)'
<1> USE DEF Base
<1> DEFINE left == Event("left", p, Nobody)
<1>0. inbox[c] \in Seq(Message) /\ inbox[c] # <<>> /\ inbox'[c] = Tail(inbox[c])
  <2>1. inbox[c] # <<>> /\ inbox' = [inbox EXCEPT ![c] = Tail(@)]
    BY DEF OnLeft, OnOffer, OnAnswer, OnCandidate, Handles
  <2> QED  BY <2>1 DEF Inboxes
<1>1. /\ 1 \in DOMAIN inbox[c] /\ Head(inbox[c]) = inbox[c][1]
      /\ \A i \in DOMAIN inbox'[c] : i + 1 \in DOMAIN inbox[c]
                                     /\ inbox'[c][i] = inbox[c][i + 1] /\ i \in Nat
      /\ \A i \in DOMAIN inbox[c] : /\ i \in Nat
                                    /\ i = 1 \/ (i - 1 \in DOMAIN inbox'[c]
                                                 /\ inbox'[c][i - 1] = inbox[c][i])
  BY <1>0, TailFacts
<1>2. Head(inbox[c]) # left /\ Announced(p, c) => Announced(p, c)'
  BY <1>1 DEF Announced, Event
<1>3. ASSUME NEW i \in DOMAIN inbox'[c], Word(c, i, p)'
      PROVE  \E j \in DOMAIN inbox'[c] : i < j /\ inbox'[c][j] = left
  <2>1. i + 1 \in DOMAIN inbox[c] /\ Word(c, i + 1, p) /\ i \in Nat
    BY <1>1, <1>3 DEF Word, Queued
  <2>2. PICK j \in DOMAIN inbox[c] : i + 1 < j /\ inbox[c][j] = left
    BY <2>1 DEF Departed
  <2>3. j \in Nat /\ j # 1 /\ i < j - 1
    BY <1>1, <2>1, <2>2
  <2>4. j - 1 \in DOMAIN inbox'[c] /\ inbox'[c][j - 1] = left
    BY <1>1, <2>2, <2>3
  <2> QED  BY <2>3, <2>4
<1>4. \A i \in DOMAIN inbox'[c] : Word(c, i, p)' =>
          \E j \in DOMAIN inbox'[c] : i < j /\ inbox'[c][j] = left
  BY <1>3
<1>5. CASE Head(inbox[c]) = left
  <2>1. OnLeft(c) /\ Sender(c) = p
    BY <1>5 DEF Event, OnOffer, OnAnswer, OnCandidate, Handles, Sender
  <2>2. /\ table' = [table EXCEPT ![<<c, p>>] = "none"]
        /\ screens' = [screens EXCEPT ![c] = @ \ {p}]
        /\ late' = IF task[<<c, p>>] = "setting" THEN late \cup {<<c, p>>} ELSE late
        /\ task' = task
    BY <2>1 DEF OnLeft, chain
  <2>3. table'[<<c, p>>] = "none" /\ p \notin screens'[c]
    BY <2>2 DEF TypeOK, Pairs
  <2> QED  BY <1>4, <2>2, <2>3 DEF Departed, Announced, Event, Word, Queued
<1>6. CASE Head(inbox[c]) # left
  <2>1. (OnOffer(c) \/ OnAnswer(c)) /\ Sender(c) = p => Announced(p, c)'
    <3> SUFFICES ASSUME OnOffer(c) \/ OnAnswer(c), Sender(c) = p PROVE Announced(p, c)'
      OBVIOUS
    <3>1. Word(c, 1, p)
      BY <1>1 DEF OnOffer, OnAnswer, Handles, Word, Queued, Sender
    <3>2. Announced(p, c)
      BY <1>1, <3>1 DEF Departed, Announced
    <3> QED  BY <1>2, <1>6, <3>2
  <2>2. \A q \in Clients : ~RemoteSet(c, q)
    <3>1. Len(Tail(inbox[c])) # Len(inbox[c])
      BY <1>0
    <3>2. inbox'[c] # inbox[c]
      BY <1>0, <3>1
    <3> QED  BY <3>2 DEF RemoteSet
  <2>4. task'[<<c, p>>] = "setting" => Announced(p, c)' \/ <<c, p>> \in late'
    BY <1>2, <1>6, <2>1, TaskStep, HistoryStep DEF Departed
  <2>5. table'[<<c, p>>] = "answer" => Announced(p, c)'
    BY <1>2, <1>6, <2>1, TableStep DEF TableMoves, Departed
  <2>6. p \in screens'[c] => Announced(p, c)' \/ <<c, p>> \in late'
    BY <1>2, <1>6, <2>1, <2>2, ScreensStep, HistoryStep DEF ScreensMoves, Departed
  <2> QED  BY <1>4, <2>4, <2>5, <2>6 DEF Departed, Announced, Event, Word, Queued
<1> QED  BY <1>5, <1>6

LEMMA NextDepartures ==
    ASSUME Base, Departures, [Next]_vars
    PROVE  Departures'
<1> USE DEF Base
<1> SUFFICES ASSUME NEW c \in Clients, NEW p \in Clients,
                    joined'[c] = "in", joined'[p] = "gone", c \in list'[p]
             PROVE  Departed(c, p)'
  BY DEF Departures
<1>1. c \in list[p]
  <2>1. ~(joined[p] = "in" /\ camera[p] = "none" /\ Enters(p))
    <3>1. Enters(p) => joined'[p] = joined[p]
      BY DEF Enters, OnJoined
    <3> QED  BY <3>1
  <2> QED  BY <2>1, CallStep
<1>2. c # p /\ joined[c] = "in" /\ ~Leave(c)
  BY <1>1, CallStep, LeaveCamera DEF Lists
<1>3. CASE Leave(p)
  BY <1>1, <1>2, <1>3, LeaveDeparts
<1>4. CASE ~Leave(p)
  <2>1. joined[p] = "gone"
    BY <1>4, CallStep
  <2>2. Departed(c, p)
    BY <1>1, <1>2, <2>1 DEF Departures
  <2> QED  BY <1>2, <2>1, <2>2, DepartedWaits, DepartedTakes
<1> QED  BY <1>3, <1>4

-----------------------------------------------------------------------------
(* Theorems                                                                *)

IInv == Base /\ WrongOnlyIfOverlapped /\ EndsAgree /\ Departures

LEMMA Invariant == Spec => []IInv
<1>1. Init => IInv
  <2>1. Init => Departures
    BY DEF Init, Departures
  <2> QED  BY <2>1, InitBase, InitEnds DEF IInv
<1>2. IInv /\ [Next]_vars => IInv'
  BY NextBase, NextWrongOnly, NextEndsAgree, NextDepartures DEF IInv
<1> QED  BY <1>1, <1>2, PTL DEF Spec

\* The types of the variables; and that a connection asked for an answer exists.
THEOREM TypeCorrect == Spec => []TypeOK
<1>1. IInv => TypeOK
  BY DEF IInv, Base
<1> QED  BY Invariant, <1>1, PTL

\* The answer to an offer comes from the connection made for it, however many clients
\* call at once and offers cross, unless the client that answers took a second offer
\* while it answered a first.
THEOREM WrongAnswersFromOverlap == Spec => []WrongOnlyIfOverlapped
<1>1. IInv => WrongOnlyIfOverlapped
  BY DEF IInv
<1> QED  BY Invariant, <1>1, PTL

\* Who has the answer of a client without overlap can be sure that the connection that
\* made it is the one to it, and has it set.
THEOREM TwoEndsAgree == Spec => []EndsAgree
<1>1. IInv => EndsAgree
  BY DEF IInv
<1> QED  BY Invariant, <1>1, PTL

\* With the departure of a peer known, a client has no connection to it in its table
\* that it answered with, whatever was on its way.
THEOREM DepartedAreForgotten == Spec => []DepartedForgotten
<1>1. IInv => DepartedForgotten
  <2> SUFFICES ASSUME Base, Departures, NEW c \in Clients, NEW p \in Clients,
                      joined[c] = "in", joined[p] = "gone", table[<<c, p>>] = "answer"
               PROVE  Announced(p, c)
    BY DEF IInv, DepartedForgotten
  <2>1. c \in list[p]
    BY DEF Base, Offers, Offered
  <2> QED  BY <2>1 DEF Departures, Departed
<1> QED  BY Invariant, <1>1, PTL

\* The video of a peer that left stays only where the word came while the peer's
\* offer was being set.
THEOREM VideosOfDeparted == Spec => []VideoOfDeparted
<1>1. IInv => VideoOfDeparted
  BY DEF IInv, Departures, Departed, VideoOfDeparted
<1> QED  BY Invariant, <1>1, PTL
=============================================================================
