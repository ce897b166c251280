------------------------- MODULE ChatPipelineProofs -------------------------
(***************************************************************************)
(* Proofs about ChatPipeline, for any number of messages, instances and    *)
(* sockets, and any crashes, losses and overtaking.                        *)
(***************************************************************************)
EXTENDS ChatPipeline, TLAPS

USE SocketAssumption, SessionAssumption

LEMMA AppendRange ==
    ASSUME NEW S, NEW q \in Seq(S), NEW x \in S
    PROVE  /\ Append(q, x) \in Seq(S)
           /\ Range(Append(q, x)) = Range(q) \cup {x}
<1>1. /\ Len(Append(q, x)) = Len(q) + 1
      /\ \A k \in 1 .. Len(q) : Append(q, x)[k] = q[k]
      /\ Append(q, x)[Len(q) + 1] = x
      /\ DOMAIN q = 1 .. Len(q) /\ Len(q) \in Nat
      /\ Append(q, x) \in Seq(S)
  OBVIOUS
<1>2. DOMAIN Append(q, x) = DOMAIN q \cup {Len(q) + 1}
  BY <1>1
<1>3. \A k \in DOMAIN q : Append(q, x)[k] = q[k]
  BY <1>1
<1> QED  BY <1>1, <1>2, <1>3 DEF Range

LEMMA FrameOf ==
    ASSUME NEW f \in AllFrames
    PROVE  f[1] \in Messages
BY DEF AllFrames, Frames

LEMMA FramesAre ==
    ASSUME NEW s \in Sockets, NEW m \in Messages
    PROVE  Frames(s, m) \subseteq AllFrames /\ \A f \in Frames(s, m) : f[1] = m
<1>1. \A f \in Frames(s, m) : f[1] = m
  BY DEF Frames
<1>2. Frames(s, m) \subseteq AllFrames
  <2> HIDE DEF Frames
  <2> QED  BY DEF AllFrames
<1> QED  BY <1>1, <1>2

LEMMA InitTypeOK == Init => TypeOK
BY DEF Init, TypeOK, Open

LEMMA NextTypeOK == TypeOK /\ [Next]_vars => TypeOK'
<1> SUFFICES ASSUME TypeOK, [Next]_vars PROVE TypeOK'
  OBVIOUS
<1> USE DEF Open
<1>1. CASE UNCHANGED vars
  BY <1>1 DEF TypeOK, vars
<1>2. ASSUME NEW s \in Sockets, NEW i \in Instances, Connect(s, i) PROVE TypeOK'
  BY <1>2 DEF TypeOK, Connect
<1>3. ASSUME NEW s \in Sockets, Close(s) PROVE TypeOK'
  BY <1>3 DEF TypeOK, Close
<1>4. ASSUME NEW s \in Sockets, NEW m \in Messages, SendMessage(s, m) PROVE TypeOK'
  <2>1. UNION {Got(t) : t \in Sockets} \subseteq Messages
    BY FrameOf DEF TypeOK, Range, Got
  <2>2. past' \in [Messages -> SUBSET Messages]
    BY <1>4, <2>1 DEF TypeOK, SendMessage
  <2> QED  BY <1>4, <2>2 DEF TypeOK, SendMessage
<1>5. ASSUME NEW i \in Instances, Crash(i) PROVE TypeOK'
  BY <1>5 DEF TypeOK, Crash
<1>6. ASSUME NEW i \in Instances, Restart(i) PROVE TypeOK'
  BY <1>6 DEF TypeOK, Restart
<1>7. ASSUME NEW m \in Messages, AddMessage(m) PROVE TypeOK'
  BY <1>7, AppendRange DEF TypeOK, AddMessage
<1>8. ASSUME NEW m \in Messages, AddMessageThrows(m) PROVE TypeOK'
  <2>1. history' \in Seq(Messages)
    <3>1. history \in Seq(Messages) /\ Append(history, m) \in Seq(Messages)
      BY AppendRange DEF TypeOK
    <3>2. history' = history \/ history' = Append(history, m)
      BY <1>8 DEF AddMessageThrows
    <3> QED  BY <3>1, <3>2
  <2> QED  BY <1>8, <2>1 DEF TypeOK, AddMessageThrows
<1>9. ASSUME NEW m \in Messages, Publish(m) PROVE TypeOK'
  <2>1. PICK reached \in SUBSET up :
           /\ received' = received \cup (reached \X {m})
           /\ failed' = IF reached = up THEN failed ELSE failed \cup {m}
    BY <1>9 DEF Publish
  <2>2. /\ received' \subseteq Instances \X Messages
        /\ \A t \in received' : t[1] \in up
        /\ failed' \subseteq Messages
    BY <2>1 DEF TypeOK
  <2> QED  BY <1>9, <2>2 DEF TypeOK, Publish
<1>10. ASSUME NEW m \in Messages, NEW i \in Instances, Notify(i, m) PROVE TypeOK'
  BY <1>10, FramesAre DEF TypeOK, Notify, Queued
<1>11. ASSUME NEW m \in Messages, NEW i \in Instances, NotifyThrows(i, m) PROVE TypeOK'
  BY <1>11 DEF TypeOK, NotifyThrows
<1>12. ASSUME NEW m \in Messages, NEW i \in Instances, SendToChannel(i, m) PROVE TypeOK'
  BY <1>12, FramesAre DEF TypeOK, SendToChannel, Queued
<1>13. ASSUME NEW s \in Sockets, NEW m \in Messages, NEW f \in Frames(s, m), Write(s, f)
       PROVE  TypeOK'
  <2>1. Append(feed[s], f) \in Seq(AllFrames)
    BY AppendRange, FramesAre DEF TypeOK
  <2>2. feed' \in [Sockets -> Seq(AllFrames)]
    BY <1>13, <2>1 DEF TypeOK, Write
  <2> QED  BY <1>13, <2>2 DEF TypeOK, Write
<1> QED
  BY <1>1, <1>2, <1>3, <1>4, <1>5, <1>6, <1>7, <1>8, <1>9, <1>10, <1>11, <1>12, <1>13
     DEF Next, Environment, Handle, Dispatch

\* Every variable keeps its type, and nothing is at an instance that is down or
\* queued for a socket that is not open.
THEOREM TypeCorrect == Spec => []TypeOK
<1>1. Init => TypeOK
  BY InitTypeOK
<1>2. TypeOK /\ [Next]_vars => TypeOK'
  BY NextTypeOK
<1> QED  BY <1>1, <1>2, PTL DEF Spec

-----------------------------------------------------------------------------
(* What is stored, in transit and sent.                                    *)

\* m is in a thread of onMessage that will yet send it to the socket s.
InTransit(s, m) ==
    \/ <<session[s], m>> \in received
    \/ s \in ChannelSockets /\ <<session[s], m>> \in notified

\* What is beyond handleTextMessage is in the history; what has not reached
\* addMessage is not.
Stored ==
    /\ \A m \in Messages :
        /\ stage[m] \in {"new", "arrived"} => m \notin Range(history)
        /\ stage[m] = "saved" => m \in Range(history)
        /\ \A i \in Instances :
              <<i, m>> \in received \cup notified => m \in Range(history)
        /\ past[m] \subseteq Range(history)
    /\ \A s \in Sockets : \A f \in Sent(s) : f[1] \in Range(history)

\* A message is in one place on its way to a socket: queued or written, or with
\* onMessage, or not published.
Once ==
    /\ \A m \in Messages, i \in Instances :
          /\ <<i, m>> \in received => <<i, m>> \notin notified
          /\ stage[m] # "ended" => <<i, m>> \notin received \cup notified
    /\ \A m \in Messages, s \in Sockets :
          stage[m] # "ended" \/ InTransit(s, m) => \A f \in Sent(s) : f[1] # m
    /\ \A s \in Sockets : outbound[s] \cap Range(feed[s]) = {}
    /\ \A s \in Sockets :
          session[s] = Unopened =>
              Sent(s) = {} /\ \A m \in Messages : s \notin audience[m]

\* Where an instance is past Notify, the audience of a message has had its
\* notification there.
NotifiedBefore ==
    \A m \in Messages, u \in UserSockets :
        (u \in audience[m] /\ Open(u) /\ <<session[u], m>> \in notified)
            => Frames(u, m) \subseteq Sent(u)

IInv ==
    /\ TypeOK /\ Stored /\ Once /\ HistoryCausal
    /\ Accounted /\ NotifiedBefore /\ NotifiedFirst

-----------------------------------------------------------------------------
(* How each kind of step changes what a socket is sent.                    *)

LEMMA SentUnchanged ==
    ASSUME UNCHANGED <<feed, outbound>>, NEW s \in Sockets
    PROVE  Sent(s)' = Sent(s) /\ Range(feed[s])' = Range(feed[s])
BY DEF Sent

LEMMA SentQueued ==
    ASSUME TypeOK, NEW i \in Instances, NEW m \in Messages, NEW T \in SUBSET Sockets,
           outbound' = Queued(i, m, T), feed' = feed, NEW s \in Sockets
    PROVE  /\ s \in T /\ session[s] = i =>
                /\ Sent(s)' = Sent(s) \cup Frames(s, m)
                /\ outbound'[s] = outbound[s] \cup Frames(s, m)
           /\ ~(s \in T /\ session[s] = i) =>
                /\ Sent(s)' = Sent(s)
                /\ outbound'[s] = outbound[s]
           /\ Range(feed[s])' = Range(feed[s])
BY DEF TypeOK, Queued, Sent

LEMMA SentWrite ==
    ASSUME TypeOK, NEW t \in Sockets, NEW f \in AllFrames, Write(t, f), NEW s \in Sockets
    PROVE  /\ Sent(s)' = Sent(s)
           /\ outbound'[s] \subseteq outbound[s]
           /\ s = t => /\ outbound'[s] = outbound[s] \ {f}
                       /\ Range(feed[s])' = Range(feed[s]) \cup {f}
           /\ s # t => Range(feed[s])' = Range(feed[s]) /\ outbound'[s] = outbound[s]
<1>1. feed[t] \in Seq(AllFrames) /\ feed \in [Sockets -> Seq(AllFrames)]
  BY DEF TypeOK
<1>2. feed' = [feed EXCEPT ![t] = Append(feed[t], f)]
  BY DEF Write
<1>3. Range(Append(feed[t], f)) = Range(feed[t]) \cup {f}
  BY <1>1, AppendRange
<1>4. s = t => Range(feed[s])' = Range(feed[s]) \cup {f}
  BY <1>1, <1>2, <1>3
<1>5. s # t => Range(feed[s])' = Range(feed[s])
  BY <1>1, <1>2
<1>6. /\ s = t => outbound'[s] = outbound[s] \ {f}
      /\ s # t => outbound'[s] = outbound[s]
      /\ f \in outbound[t]
  BY DEF Write, TypeOK
<1>7. Sent(s)' = Sent(s)
  BY <1>4, <1>5, <1>6 DEF Sent
<1> QED  BY <1>4, <1>5, <1>6, <1>7

\* A connection, a closing and a crash queue nothing.
LEMMA SentLost ==
    ASSUME TypeOK, NEW s \in Sockets,
           \/ \E t \in Sockets : Close(t) \/ \E i \in Instances : Connect(t, i)
           \/ \E i \in Instances : Crash(i)
    PROVE  /\ \/ outbound'[s] = outbound[s]
              \/ outbound'[s] = {} /\ session'[s] = Closed
           /\ Range(feed[s])' = Range(feed[s])
           /\ Sent(s)' \subseteq Sent(s)
           /\ session'[s] # Closed => Sent(s)' = Sent(s)
<1>1. \/ outbound'[s] = outbound[s]
      \/ outbound'[s] = {} /\ session'[s] = Closed
  BY DEF TypeOK, Close, Connect, Crash
<1>2. feed' = feed
  BY DEF Close, Connect, Crash
<1> QED  BY <1>1, <1>2 DEF Sent

-----------------------------------------------------------------------------
(* Stored, and the order of the history.                                   *)

LEMMA InitStored == Init => Stored /\ HistoryCausal
BY DEF Init, Stored, HistoryCausal, Sent, Range

\* A step leaves the history alone, or adds a message that has just arrived.
LEMMA HistoryStep ==
    ASSUME TypeOK, Stored, [Next]_vars
    PROVE  /\ Range(history) \subseteq Range(history)'
           /\ \/ history' = history
              \/ \E m \in Messages :
                    /\ stage[m] = "arrived" /\ m \notin Range(history)
                    /\ history' = Append(history, m)
                    /\ Range(history)' = Range(history) \cup {m}
                    /\ past' = past
<1>1. CASE history' = history
  BY <1>1
<1>2. ASSUME history' # history PROVE
        \E m \in Messages : /\ stage[m] = "arrived" /\ history' = Append(history, m)
                            /\ past' = past
  BY <1>2 DEF Next, Environment, Connect, Close, SendMessage, Crash, Restart, Handle,
     AddMessage, AddMessageThrows, Publish, Dispatch, Notify, NotifyThrows,
     SendToChannel, Write, vars
<1>3. CASE history' # history
  <2>1. PICK m \in Messages : /\ stage[m] = "arrived" /\ history' = Append(history, m)
                              /\ past' = past
    BY <1>2, <1>3
  <2>2. history \in Seq(Messages) /\ m \notin Range(history)
    BY <2>1 DEF TypeOK, Stored
  <2>3. Range(Append(history, m)) = Range(history) \cup {m}
    BY <2>2, AppendRange
  <2> QED  BY <2>1, <2>2, <2>3
<1> QED  BY <1>1, <1>3

LEMMA NextStored == TypeOK /\ Stored /\ [Next]_vars => Stored'
<1> SUFFICES ASSUME TypeOK, Stored, [Next]_vars PROVE Stored'
  OBVIOUS
<1>0. Range(history) \subseteq Range(history)'
  BY HistoryStep
<1>1. CASE UNCHANGED vars
  BY <1>1, SentUnchanged DEF Stored, vars
<1>2. ASSUME NEW s \in Sockets, NEW i \in Instances, Connect(s, i) PROVE Stored'
  BY <1>2, SentLost DEF Stored, Connect
<1>3. ASSUME NEW s \in Sockets, Close(s) PROVE Stored'
  BY <1>3, SentLost DEF Stored, Close
<1>4. ASSUME NEW s \in Sockets, NEW m \in Messages, SendMessage(s, m) PROVE Stored'
  <2>1. \A n \in Messages : past'[n] \subseteq Range(history)
    <3>1. \A t \in Sockets : Got(t) \subseteq Range(history)
      BY DEF Stored, Sent, Got
    <3> QED  BY <1>4, <3>1 DEF SendMessage, TypeOK, Stored
  <2> QED  BY <1>4, <2>1, SentUnchanged DEF Stored, SendMessage, TypeOK
<1>5. ASSUME NEW i \in Instances, Crash(i) PROVE Stored'
  <2>1. \A r \in Sockets : Sent(r)' \subseteq Sent(r)
    BY <1>5, SentLost
  <2>2. \A m \in Messages : stage'[m] \in {stage[m], "ended"}
    BY <1>5 DEF Crash, TypeOK
  <2>3. UNCHANGED <<history, past>> /\ received' \subseteq received /\ notified' \subseteq notified
    BY <1>5 DEF Crash
  <2> QED  BY <2>1, <2>2, <2>3 DEF Stored
<1>6. ASSUME NEW i \in Instances, Restart(i) PROVE Stored'
  BY <1>6, SentUnchanged DEF Stored, Restart
<1>7. ASSUME NEW m \in Messages, AddMessage(m) PROVE Stored'
  <2>1. Range(history)' = Range(history) \cup {m}
    BY <1>7, AppendRange DEF AddMessage, TypeOK
  <2> QED  BY <1>7, <2>1, SentUnchanged DEF Stored, AddMessage, TypeOK
<1>8. ASSUME NEW m \in Messages, AddMessageThrows(m) PROVE Stored'
  <2>1. Range(history)' \subseteq Range(history) \cup {m}
    <3>1. Range(Append(history, m)) = Range(history) \cup {m}
      BY AppendRange DEF TypeOK
    <3>2. history' = history \/ history' = Append(history, m)
      BY <1>8 DEF AddMessageThrows
    <3> QED  BY <3>1, <3>2
  <2>2. /\ stage[m] = "arrived" /\ stage' = [stage EXCEPT ![m] = "ended"]
        /\ stage \in [Messages -> {"new", "arrived", "saved", "ended"}]
        /\ UNCHANGED <<received, notified, outbound, feed, past>>
    BY <1>8 DEF AddMessageThrows, TypeOK
  <2>3. \A s \in Sockets : Sent(s)' = Sent(s)
    BY <2>2, SentUnchanged
  <2> QED  BY <1>0, <2>1, <2>2, <2>3 DEF Stored
<1>9. ASSUME NEW m \in Messages, Publish(m) PROVE Stored'
  BY <1>9, SentUnchanged DEF Stored, Publish, TypeOK
<1>10. ASSUME NEW m \in Messages, NEW i \in Instances, Notify(i, m) PROVE Stored'
  <2>1. \A s \in Sockets : Sent(s)' \subseteq Sent(s) \cup Frames(s, m)
    BY <1>10, SentQueued DEF Notify, Sockets
  <2>2. m \in Range(history)
    BY <1>10 DEF Notify, Stored
  <2>3. \A s \in Sockets : \A f \in Sent(s)' : f[1] \in Range(history)
    BY <2>1, <2>2, FramesAre DEF Stored
  <2> QED  BY <1>10, <2>3 DEF Stored, Notify
<1>11. ASSUME NEW m \in Messages, NEW i \in Instances, NotifyThrows(i, m) PROVE Stored'
  BY <1>11, SentUnchanged DEF Stored, NotifyThrows
<1>12. ASSUME NEW m \in Messages, NEW i \in Instances, SendToChannel(i, m) PROVE Stored'
  <2>1. \A s \in Sockets : Sent(s)' \subseteq Sent(s) \cup Frames(s, m)
    BY <1>12, SentQueued DEF SendToChannel, Sockets
  <2>2. m \in Range(history)
    BY <1>12 DEF SendToChannel, Stored
  <2>3. \A s \in Sockets : \A f \in Sent(s)' : f[1] \in Range(history)
    BY <2>1, <2>2, FramesAre DEF Stored
  <2> QED  BY <1>12, <2>3 DEF Stored, SendToChannel
<1>13. ASSUME NEW s \in Sockets, NEW m \in Messages, NEW f \in Frames(s, m), Write(s, f)
       PROVE  Stored'
  <2>1. \A r \in Sockets : Sent(r)' = Sent(r)
    BY <1>13, SentWrite, FramesAre
  <2> QED  BY <1>13, <2>1 DEF Stored, Write
<1> QED
  BY <1>1, <1>2, <1>3, <1>4, <1>5, <1>6, <1>7, <1>8, <1>9, <1>10, <1>11, <1>12, <1>13
     DEF Next, Environment, Handle, Dispatch

\* Only the past of a message that is not stored yet is set.
LEMMA PastStep ==
    ASSUME TypeOK, Stored, [Next]_vars, NEW m \in Range(history)
    PROVE  past'[m] = past[m]
<1>1. m \in Messages /\ stage[m] # "new"
  BY DEF TypeOK, Stored, Range
<1>2. ASSUME NEW s \in Sockets, NEW n \in Messages, SendMessage(s, n)
      PROVE  past'[m] = past[m]
  BY <1>1, <1>2 DEF SendMessage, TypeOK
<1>3. CASE UNCHANGED vars
  BY <1>3 DEF vars
<1>4. CASE Environment
  BY <1>2, <1>4 DEF Environment, Connect, Close, Crash, Restart
<1>5. CASE \E n \in Messages :
             \/ Handle(n) \/ \E i \in Instances : Dispatch(i, n)
             \/ \E s \in Sockets : \E f \in Frames(s, n) : Write(s, f)
  BY <1>5 DEF Handle, AddMessage, AddMessageThrows, Publish, Dispatch, Notify,
     NotifyThrows, SendToChannel, Write
<1> QED
  BY <1>3, <1>4, <1>5 DEF Next

LEMMA NextHistoryCausal ==
    TypeOK /\ Stored /\ HistoryCausal /\ [Next]_vars => HistoryCausal'
<1> SUFFICES ASSUME TypeOK, Stored, HistoryCausal, [Next]_vars PROVE HistoryCausal'
  OBVIOUS
<1>1. \A j \in DOMAIN history : past'[history[j]] = past[history[j]]
  BY PastStep DEF Range
<1>2. CASE history' = history
  BY <1>1, <1>2 DEF HistoryCausal
<1>3. ASSUME NEW m \in Messages, m \notin Range(history),
             history' = Append(history, m), past' = past
      PROVE  HistoryCausal'
  <2>1. /\ DOMAIN history = 1 .. Len(history) /\ Len(history) \in Nat
        /\ DOMAIN history' = 1 .. (Len(history) + 1)
        /\ \A k \in 1 .. Len(history) : history'[k] = history[k]
        /\ history'[Len(history) + 1] = m
    BY <1>3 DEF TypeOK
  <2>2. past[m] \subseteq Range(history)
    BY DEF Stored
  <2> SUFFICES ASSUME NEW j \in DOMAIN history', NEW x \in past[history'[j]]
               PROVE  \E k \in DOMAIN history' : k < j /\ history'[k] = x
    BY <1>3 DEF HistoryCausal
  <2>3. CASE j \in DOMAIN history
    BY <2>1, <2>3 DEF HistoryCausal
  <2>4. CASE j = Len(history) + 1
    <3>1. PICK k \in DOMAIN history : history[k] = x
      BY <2>1, <2>2, <2>4 DEF Range
    <3> QED  BY <2>1, <2>4, <3>1
  <2> QED  BY <2>1, <2>3, <2>4
<1> QED  BY <1>2, <1>3, HistoryStep

-----------------------------------------------------------------------------
(* A message is in one place on its way to a socket.                       *)

LEMMA InitOnce == Init => Once
BY DEF Init, Once, InTransit, Sent, Range

LEMMA NextOnce == TypeOK /\ Once /\ [Next]_vars => Once'
<1> SUFFICES ASSUME TypeOK, Once, [Next]_vars PROVE Once'
  OBVIOUS
<1> USE DEF InTransit
<1>1. CASE UNCHANGED vars
  BY <1>1, SentUnchanged DEF Once, vars
<1>2. ASSUME NEW s \in Sockets, NEW i \in Instances, Connect(s, i) PROVE Once'
  <2>1. \A r \in Sockets : Sent(r)' = Sent(r)
    BY <1>2, SentUnchanged DEF Connect
  <2>2. Sent(s) = {}
    BY <1>2 DEF Once, Connect
  <2>3. /\ session'[s] = i /\ i # Unopened
        /\ \A r \in Sockets \ {s} : session'[r] = session[r]
        /\ UNCHANGED <<stage, received, notified, outbound, audience>>
        /\ \A r \in Sockets : Range(feed[r])' = Range(feed[r])
    BY <1>2 DEF Connect, TypeOK
  <2>4. \A m \in Messages, r \in Sockets :
           stage'[m] # "ended" \/ InTransit(r, m)' => \A f \in Sent(r)' : f[1] # m
    BY <2>1, <2>2, <2>3 DEF Once
  <2> QED  BY <2>1, <2>3, <2>4 DEF Once
<1>3. ASSUME NEW s \in Sockets, Close(s) PROVE Once'
  <2>1. \A r \in Sockets : /\ Sent(r)' \subseteq Sent(r)
                           /\ Range(feed[r])' = Range(feed[r])
                           /\ outbound'[r] \subseteq outbound[r]
    BY <1>3, SentLost
  <2>2. /\ \A r \in Sockets : session'[r] \in {session[r], Closed}
        /\ UNCHANGED <<stage, received, notified, audience>>
        /\ \A m \in Messages : <<Closed, m>> \notin received \cup notified
    BY <1>3 DEF Close, TypeOK
  <2> QED  BY <2>1, <2>2 DEF Once
<1>4. ASSUME NEW s \in Sockets, NEW m \in Messages, SendMessage(s, m) PROVE Once'
  BY <1>4, SentUnchanged DEF Once, SendMessage, TypeOK
<1>5. ASSUME NEW i \in Instances, Crash(i) PROVE Once'
  <2>1. \A r \in Sockets : /\ Sent(r)' \subseteq Sent(r)
                           /\ Range(feed[r])' = Range(feed[r])
                           /\ outbound'[r] \subseteq outbound[r]
    BY <1>5, SentLost
  <2>2. /\ \A r \in Sockets : session'[r] \in {session[r], Closed}
        /\ \A m \in Messages : stage'[m] \in {stage[m], "ended"}
        /\ received' \subseteq received /\ notified' \subseteq notified
        /\ UNCHANGED audience
        /\ \A m \in Messages : <<Closed, m>> \notin received \cup notified
    BY <1>5 DEF Crash, TypeOK
  <2> QED  BY <2>1, <2>2 DEF Once
<1>6. ASSUME NEW i \in Instances, Restart(i) PROVE Once'
  BY <1>6, SentUnchanged DEF Once, Restart
<1>7. ASSUME NEW m \in Messages, AddMessage(m) PROVE Once'
  BY <1>7, SentUnchanged DEF Once, AddMessage, TypeOK
<1>8. ASSUME NEW m \in Messages, AddMessageThrows(m) PROVE Once'
  BY <1>8, SentUnchanged DEF Once, AddMessageThrows, TypeOK
<1>9. ASSUME NEW m \in Messages, Publish(m) PROVE Once'
  BY <1>9, SentUnchanged DEF Once, Publish, TypeOK, Open
<1>10. ASSUME NEW m \in Messages, NEW i \in Instances, Notify(i, m) PROVE Once'
  <2>1. \A r \in Sockets :
           /\ r \in UserSockets /\ session[r] = i =>
                /\ Sent(r)' = Sent(r) \cup Frames(r, m)
                /\ outbound'[r] = outbound[r] \cup Frames(r, m)
           /\ ~(r \in UserSockets /\ session[r] = i) =>
                Sent(r)' = Sent(r) /\ outbound'[r] = outbound[r]
           /\ Range(feed[r])' = Range(feed[r])
    BY <1>10, SentQueued DEF Notify, Sockets
  <2>2. \A r \in Sockets : session[r] = i => \A f \in Sent(r) : f[1] # m
    BY <1>10 DEF Once, Notify
  <2>3. stage[m] = "ended"
    BY <1>10 DEF Once, Notify
  <2>4. \A r \in Sockets : outbound'[r] \cap Range(feed[r])' = {}
    <3> TAKE r \in Sockets
    <3>1. CASE outbound'[r] = outbound[r]
      BY <2>1, <3>1 DEF Once
    <3>2. CASE r \in UserSockets /\ session[r] = i
      <4>1. Frames(r, m) \cap Range(feed[r]) = {}
        BY <2>2, <3>2, FramesAre DEF Sent
      <4> QED  BY <2>1, <3>2, <4>1 DEF Once
    <3> QED  BY <2>1, <3>1, <3>2
  <2>5. \A n \in Messages, r \in Sockets :
           stage'[n] # "ended" \/ InTransit(r, n)' => \A f \in Sent(r)' : f[1] # n
    <3> TAKE n \in Messages, r \in Sockets
    <3>1. CASE n = m
      BY <1>10, <2>1, <2>2, <2>3, <3>1 DEF Once, Notify, Sockets
    <3>2. CASE n # m
      <4>1. \A f \in Sent(r)' : f \in Sent(r) \/ f[1] = m
        BY <2>1, FramesAre
      <4>2. (stage'[n] # "ended" => stage[n] # "ended") /\ (InTransit(r, n)' => InTransit(r, n))
        BY <1>10, <3>2 DEF Notify
      <4> QED  BY <3>2, <4>1, <4>2 DEF Once
    <3> QED  BY <3>1, <3>2
  <2>6. \A r \in Sockets : session[r] = Unopened => Sent(r)' = Sent(r)
    BY <1>10, <2>1 DEF Notify, TypeOK
  <2> QED  BY <1>10, <2>3, <2>4, <2>5, <2>6 DEF Once, Notify
<1>11. ASSUME NEW m \in Messages, NEW i \in Instances, NotifyThrows(i, m) PROVE Once'
  BY <1>11, SentUnchanged DEF Once, NotifyThrows
<1>12. ASSUME NEW m \in Messages, NEW i \in Instances, SendToChannel(i, m) PROVE Once'
  <2>1. \A r \in Sockets :
           /\ r \in ChannelSockets /\ session[r] = i =>
                /\ Sent(r)' = Sent(r) \cup Frames(r, m)
                /\ outbound'[r] = outbound[r] \cup Frames(r, m)
           /\ ~(r \in ChannelSockets /\ session[r] = i) =>
                Sent(r)' = Sent(r) /\ outbound'[r] = outbound[r]
           /\ Range(feed[r])' = Range(feed[r])
    BY <1>12, SentQueued DEF SendToChannel, Sockets
  <2>2. \A r \in ChannelSockets : session[r] = i => \A f \in Sent(r) : f[1] # m
    BY <1>12 DEF Once, SendToChannel, Sockets
  <2>3. stage[m] = "ended" /\ <<i, m>> \notin received
    BY <1>12 DEF Once, SendToChannel
  <2>4. \A r \in Sockets : outbound'[r] \cap Range(feed[r])' = {}
    <3> TAKE r \in Sockets
    <3>1. CASE outbound'[r] = outbound[r]
      BY <2>1, <3>1 DEF Once
    <3>2. CASE r \in ChannelSockets /\ session[r] = i
      <4>1. Frames(r, m) \cap Range(feed[r]) = {}
        BY <2>2, <3>2, FramesAre DEF Sent
      <4> QED  BY <2>1, <3>2, <4>1 DEF Once
    <3> QED  BY <2>1, <3>1, <3>2
  <2>5. \A n \in Messages, r \in Sockets :
           stage'[n] # "ended" \/ InTransit(r, n)' => \A f \in Sent(r)' : f[1] # n
    <3> TAKE n \in Messages, r \in Sockets
    <3>1. CASE n = m
      BY <1>12, <2>1, <2>2, <2>3, <3>1 DEF Once, SendToChannel, Sockets
    <3>2. CASE n # m
      <4>1. \A f \in Sent(r)' : f \in Sent(r) \/ f[1] = m
        BY <2>1, FramesAre
      <4>2. (stage'[n] # "ended" => stage[n] # "ended") /\ (InTransit(r, n)' => InTransit(r, n))
        BY <1>12, <3>2 DEF SendToChannel
      <4> QED  BY <3>2, <4>1, <4>2 DEF Once
    <3> QED  BY <3>1, <3>2
  <2>6. \A r \in Sockets : session[r] = Unopened => Sent(r)' = Sent(r)
    BY <1>12, <2>1 DEF SendToChannel, TypeOK
  <2> QED  BY <1>12, <2>3, <2>4, <2>5, <2>6 DEF Once, SendToChannel
<1>13. ASSUME NEW s \in Sockets, NEW m \in Messages, NEW f \in Frames(s, m), Write(s, f)
       PROVE  Once'
  <2>1. \A r \in Sockets :
           /\ Sent(r)' = Sent(r)
           /\ r = s => /\ outbound'[r] = outbound[r] \ {f}
                       /\ Range(feed[r])' = Range(feed[r]) \cup {f}
           /\ r # s => Range(feed[r])' = Range(feed[r]) /\ outbound'[r] = outbound[r]
    BY <1>13, SentWrite, FramesAre
  <2> QED  BY <1>13, <2>1 DEF Once, Write
<1> QED
  BY <1>1, <1>2, <1>3, <1>4, <1>5, <1>6, <1>7, <1>8, <1>9, <1>10, <1>11, <1>12, <1>13
     DEF Next, Environment, Handle, Dispatch

-----------------------------------------------------------------------------
(* Who gets a message.                                                     *)

\* What the three properties of an audience have in common: they are kept by a
\* step that sends nothing, keeps the threads of onMessage and takes a socket
\* from its instance only to close it.
LEMMA AudienceFrame ==
    ASSUME TypeOK, Once, Accounted, NotifiedBefore, NotifiedFirst,
           UNCHANGED <<audience, failed>>,
           received' \subseteq received, notified' \subseteq notified,
           \A s \in Sockets :
              /\ Sent(s)' \subseteq Sent(s)
              /\ \/ session'[s] = Closed
                 \/ /\ Sent(s)' = Sent(s)
                    /\ \/ session'[s] = session[s]
                       \/ session[s] = Unopened
                    /\ \A m \in Messages :
                          /\ <<session[s], m>> \in received => <<session[s], m>> \in received'
                          /\ <<session[s], m>> \in notified => <<session[s], m>> \in notified'
    PROVE  Accounted' /\ NotifiedBefore' /\ NotifiedFirst'
<1>1. \A m \in Messages : audience[m] \subseteq Sockets
  BY DEF TypeOK
<1>2. Accounted'
  BY <1>1 DEF Accounted, Once, Open
<1>3. NotifiedBefore'
  BY <1>1 DEF NotifiedBefore, Once, Open, Sockets
<1>4. NotifiedFirst'
  BY <1>1 DEF NotifiedFirst, Once, Open, Sockets
<1> QED  BY <1>2, <1>3, <1>4

LEMMA InitAudience == Init => Accounted /\ NotifiedBefore /\ NotifiedFirst
BY DEF Init, Accounted, NotifiedBefore, NotifiedFirst, Sent, Range

LEMMA NextAudience ==
    /\ TypeOK /\ Once /\ Accounted /\ NotifiedBefore /\ NotifiedFirst
    /\ [Next]_vars
    => Accounted' /\ NotifiedBefore' /\ NotifiedFirst'
<1> SUFFICES ASSUME TypeOK, Once, Accounted, NotifiedBefore, NotifiedFirst, [Next]_vars
             PROVE  Accounted' /\ NotifiedBefore' /\ NotifiedFirst'
  OBVIOUS
<1> DEFINE Goal == Accounted' /\ NotifiedBefore' /\ NotifiedFirst'
<1> USE DEF Sockets
<1>0. \A n \in Messages : audience[n] \subseteq Sockets
  BY DEF TypeOK
<1>1. ASSUME UNCHANGED <<session, received, notified, outbound, feed, audience, failed>>
      PROVE  Goal
  BY <1>1, AudienceFrame, SentUnchanged
<1>2. ASSUME NEW s \in Sockets, NEW i \in Instances, Connect(s, i) PROVE Goal
  <2>1. \A r \in Sockets : Sent(r)' = Sent(r)
    BY <1>2, SentUnchanged DEF Connect
  <2>2. \A r \in Sockets : session'[r] = session[r] \/ session[r] = Unopened
    BY <1>2 DEF Connect, TypeOK
  <2> QED  BY <1>2, <2>1, <2>2, AudienceFrame DEF Connect
<1>3. ASSUME NEW s \in Sockets, Close(s) PROVE Goal
  <2>1. \A r \in Sockets : /\ Sent(r)' \subseteq Sent(r)
                           /\ session'[r] # Closed => Sent(r)' = Sent(r)
                           /\ session'[r] \in {session[r], Closed}
    BY <1>3, SentLost DEF Close, TypeOK
  <2> QED  BY <1>3, <2>1, AudienceFrame DEF Close
<1>4. ASSUME NEW i \in Instances, Crash(i) PROVE Goal
  <2>1. \A r \in Sockets : /\ Sent(r)' \subseteq Sent(r)
                           /\ session'[r] # Closed => Sent(r)' = Sent(r)
                           /\ session[r] = i => session'[r] = Closed
                           /\ session[r] # i => session'[r] = session[r]
    BY <1>4, SentLost DEF Crash, TypeOK
  <2>2. \A r \in Sockets, m \in Messages :
           session[r] # i =>
              /\ <<session[r], m>> \in received => <<session[r], m>> \in received'
              /\ <<session[r], m>> \in notified => <<session[r], m>> \in notified'
    BY <1>4 DEF Crash
  <2>3. received' \subseteq received /\ notified' \subseteq notified
        /\ UNCHANGED <<audience, failed>>
    BY <1>4 DEF Crash
  <2> QED  BY <2>1, <2>2, <2>3, AudienceFrame
<1>5. ASSUME NEW m \in Messages, Publish(m) PROVE Goal
  <2>1. PICK reached \in SUBSET up :
           /\ received' = received \cup (reached \X {m})
           /\ failed' = IF reached = up THEN failed ELSE failed \cup {m}
    BY <1>5 DEF Publish
  <2>2. /\ audience' = [audience EXCEPT ![m] = {s \in Sockets : Open(s)}]
        /\ audience \in [Messages -> SUBSET Sockets]
        /\ UNCHANGED <<session, notified, outbound, feed>>
        /\ stage[m] = "saved"
    BY <1>5 DEF Publish, TypeOK
  <2>3. /\ \A s \in Sockets : Open(s) => session[s] \in up
        /\ \A s \in Sockets : Sent(s)' = Sent(s) /\ \A f \in Sent(s) : f[1] # m
        /\ \A i \in Instances : <<i, m>> \notin notified
    BY <2>2, SentUnchanged DEF TypeOK, Once
  <2>4. \A s \in Sockets : Open(s)' <=> Open(s)
    BY <2>2 DEF Open
  <2>5. Accounted'
    <3> SUFFICES ASSUME NEW n \in Messages \ failed', NEW s \in audience'[n]
                 PROVE  \/ session'[s] = Closed
                        \/ Frames(s, n) \subseteq Sent(s)'
                        \/ <<session'[s], n>> \in received'
                        \/ s \in ChannelSockets /\ <<session'[s], n>> \in notified'
      BY DEF Accounted
    <3>1. CASE n = m
      BY <2>1, <2>2, <2>3, <3>1
    <3>2. CASE n # m
      BY <2>1, <2>2, <2>3, <3>2 DEF Accounted
    <3> QED  BY <3>1, <3>2
  <2>6. NotifiedBefore'
    BY <2>2, <2>3, <2>4 DEF NotifiedBefore, Open
  <2>7. NotifiedFirst'
    <3>1. \A s \in Sockets : Frames(s, m) \cap Sent(s) = {}
      BY <2>3, FramesAre
    <3> QED  BY <2>2, <2>3, <2>4, <3>1 DEF NotifiedFirst
  <2> QED  BY <2>5, <2>6, <2>7
<1>6. ASSUME NEW m \in Messages, NEW i \in Instances, Notify(i, m) PROVE Goal
  <2>1. \A r \in Sockets :
           /\ r \in UserSockets /\ session[r] = i => Sent(r)' = Sent(r) \cup Frames(r, m)
           /\ ~(r \in UserSockets /\ session[r] = i) => Sent(r)' = Sent(r)
    BY <1>6, SentQueued DEF Notify
  <2>2. /\ received' = received \ {<<i, m>>} /\ notified' = notified \cup {<<i, m>>}
        /\ UNCHANGED <<session, audience, failed>>
    BY <1>6 DEF Notify
  <2>3. Accounted'
    BY <1>0, <2>1, <2>2 DEF Accounted
  <2>4. NotifiedBefore'
    BY <1>0, <2>1, <2>2 DEF NotifiedBefore, Open
  <2>5. NotifiedFirst'
    BY <1>0, <2>1, <2>2 DEF NotifiedFirst, Open
  <2> QED  BY <2>3, <2>4, <2>5
<1>7. ASSUME NEW m \in Messages, NEW i \in Instances, NotifyThrows(i, m) PROVE Goal
  <2>1. /\ received' = received \ {<<i, m>>} /\ failed' = failed \cup {m}
        /\ UNCHANGED <<session, audience, notified>>
        /\ \A r \in Sockets : Sent(r)' = Sent(r)
    BY <1>7, SentUnchanged DEF NotifyThrows
  <2>2. Accounted'
    BY <1>0, <2>1 DEF Accounted
  <2>3. NotifiedBefore' /\ NotifiedFirst'
    BY <1>0, <2>1 DEF NotifiedBefore, NotifiedFirst, Open
  <2> QED  BY <2>2, <2>3
<1>8. ASSUME NEW m \in Messages, NEW i \in Instances, SendToChannel(i, m) PROVE Goal
  <2>1. \A r \in Sockets :
           /\ r \in ChannelSockets /\ session[r] = i => Sent(r)' = Sent(r) \cup Frames(r, m)
           /\ ~(r \in ChannelSockets /\ session[r] = i) => Sent(r)' = Sent(r)
    BY <1>8, SentQueued DEF SendToChannel
  <2>2. /\ <<i, m>> \in notified /\ notified' = notified \ {<<i, m>>}
        /\ UNCHANGED <<session, audience, failed, received>>
    BY <1>8 DEF SendToChannel
  <2>3. Accounted'
    BY <1>0, <2>1, <2>2 DEF Accounted
  <2>4. NotifiedBefore'
    BY <1>0, <2>1, <2>2 DEF NotifiedBefore, Open
  <2>5. NotifiedFirst'
    <3> SUFFICES ASSUME NEW n \in Messages, NEW s \in ChannelSockets, NEW u \in UserSockets,
                        Frames(s, n) \cap Sent(s)' # {},
                        u \in audience[n], Open(u), session[u] = session[s]
                 PROVE  Frames(u, n) \subseteq Sent(u)
      BY <2>1, <2>2 DEF NotifiedFirst, Open
    <3>1. CASE n = m /\ session[s] = i
      BY <2>2, <3>1 DEF NotifiedBefore
    <3>2. CASE ~(n = m /\ session[s] = i)
      <4>1. Frames(s, n) \cap Sent(s) # {}
        BY <2>1, <3>2, FramesAre
      <4> QED  BY <4>1 DEF NotifiedFirst
    <3> QED  BY <3>1, <3>2
  <2> QED  BY <2>3, <2>4, <2>5
<1>9. ASSUME NEW s \in Sockets, NEW m \in Messages, NEW f \in Frames(s, m), Write(s, f)
      PROVE  Goal
  <2>1. \A r \in Sockets : Sent(r)' = Sent(r)
    BY <1>9, SentWrite, FramesAre
  <2> QED  BY <1>9, <2>1, AudienceFrame DEF Write
<1>10. \/ UNCHANGED <<session, received, notified, outbound, feed, audience, failed>>
       \/ \E s \in Sockets : Close(s) \/ \E i \in Instances : Connect(s, i)
       \/ \E i \in Instances : Crash(i)
       \/ \E m \in Messages :
             \/ Publish(m)
             \/ \E i \in Instances : Dispatch(i, m)
             \/ \E s \in Sockets : \E f \in Frames(s, m) : Write(s, f)
  BY DEF Next, Environment, Handle, SendMessage, AddMessage, AddMessageThrows,
     Restart, vars
<1> QED
  BY <1>1, <1>2, <1>3, <1>4, <1>5, <1>6, <1>7, <1>8, <1>9, <1>10 DEF Dispatch

-----------------------------------------------------------------------------

LEMMA Invariance == Spec => []IInv
<1>1. Init => IInv
  BY InitTypeOK, InitStored, InitOnce, InitAudience DEF IInv
<1>2. IInv /\ [Next]_vars => IInv'
  BY NextTypeOK, NextStored, NextHistoryCausal, NextOnce, NextAudience DEF IInv
<1> QED  BY <1>1, <1>2, PTL DEF Spec

\* A message follows in the history all those that anyone had been sent when it
\* was sent, because handleTextMessage saves before it publishes.
THEOREM CausalHistory == Spec => []HistoryCausal
<1>1. IInv => HistoryCausal
  BY DEF IInv
<1> QED  BY <1>1, Invariance, PTL

\* Unless Redis or a notification failed, a published message is on its way to
\* or at every socket that was open then and still is.
THEOREM NothingDropped == Spec => []Accounted
<1>1. IInv => Accounted
  BY DEF IInv
<1> QED  BY <1>1, Invariance, PTL

\* A channel's subscribers are sent a message after the members connected to the
\* same instance have been sent its notification.
THEOREM NotificationFirst == Spec => []NotifiedFirst
<1>1. IInv => NotifiedFirst
  BY DEF IInv
<1> QED  BY <1>1, Invariance, PTL

\* The servers implement ChannelFeed: what a socket is sent is in the history,
\* and it is sent once.
THEOREM FeedImplemented == Spec => ImplementsFeed
<1>1. Init => Feed!Init
  BY DEF Init, Feed!Init
<1>2. IInv /\ [Next]_vars => [Feed!Next]_(Feed!vars)
  <2> SUFFICES ASSUME IInv, [Next]_vars PROVE [Feed!Next]_(Feed!vars)
    OBVIOUS
  <2>1. CASE UNCHANGED <<history, feed>>
    BY <2>1 DEF Feed!vars
  <2>2. CASE history' # history
    <3>1. PICK m \in Messages : m \notin Range(history) /\ history' = Append(history, m)
      BY <2>2, HistoryStep DEF IInv
    <3>2. UNCHANGED feed
      BY <2>2 DEF Next, Environment, Connect, Close, SendMessage, Crash, Restart,
         Handle, AddMessage, AddMessageThrows, Publish, Dispatch, Notify,
         NotifyThrows, SendToChannel, Write, vars
    <3> QED  BY <3>1, <3>2 DEF Feed!Next, Feed!Post, Feed!Range, Range
  <2>3. CASE feed' # feed
    <3>1. PICK s \in Sockets, m \in Messages : \E f \in Frames(s, m) : Write(s, f)
      BY <2>3 DEF Next, Environment, Connect, Close, SendMessage, Crash, Restart,
         Handle, AddMessage, AddMessageThrows, Publish, Dispatch, Notify,
         NotifyThrows, SendToChannel, vars
    <3>2. PICK copy \in Copies[s] : Write(s, <<m, copy>>)
      BY <3>1 DEF Frames
    <3>3. m \in Range(history) /\ <<m, copy>> \notin Range(feed[s])
      BY <3>2 DEF Write, IInv, Stored, Once, Sent
    <3> QED  BY <3>2, <3>3 DEF Feed!Next, Feed!Show, Feed!Range, Range, Write
  <2> QED  BY <2>1, <2>2, <2>3
<1> QED  BY <1>1, <1>2, Invariance, PTL DEF Spec, ImplementsFeed, Feed!Spec
=============================================================================
