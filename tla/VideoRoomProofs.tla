--------------------------- MODULE VideoRoomProofs ---------------------------
(***************************************************************************)
(* Proofs about VideoRoom, for any number of clients and rooms and any     *)
(* interleaving of their handlers, lost and missed map accesses included.  *)
(***************************************************************************)
EXTENDS VideoRoom, TLAPS

USE RoomAssumption, SetAssumption

LEMMA EventTypes ==
    ASSUME NEW c \in Clients
    PROVE  /\ [type |-> "created"] \in Event
           /\ [type |-> "joined"] \in Event
           /\ [type |-> "userDisconnected", client |-> c] \in Event
BY DEF Event

LEMMA InitTypeOK == Init => TypeOK
<1> SUFFICES ASSUME Init PROVE TypeOK
  OBVIOUS
<1>1. inbox \in [Clients -> Seq(Event)]
  BY DEF Init
<1>2. torn \in BOOLEAN /\ overlapped \in BOOLEAN
  BY DEF Init
<1> QED
  BY <1>1, <1>2 DEF Init, TypeOK, Steps, Handlers, Sets

LEMMA NextTypeOK == TypeOK /\ [Next]_vars => TypeOK'
<1> SUFFICES ASSUME TypeOK, [Next]_vars PROVE TypeOK'
  OBVIOUS
<1> USE DEF Goto, server, packet, maps, Steps, Handlers, Sets, Seen, Kept
<1>1. CASE UNCHANGED vars
  BY <1>1 DEF TypeOK, vars, thread
<1>2. ASSUME NEW c \in Clients, HandlerStart(c) \/ HandlerStep(c) \/ Encode(c), Track
      PROVE  TypeOK'
  <2>0. overlapped' \in BOOLEAN
    BY <1>2 DEF Track
  <2>1. ASSUME NEW r \in Rooms, JoinStart(c, r) PROVE TypeOK'
    BY <2>0, <2>1 DEF TypeOK, JoinStart
  <2>2. CASE JoinReply(c)
    <3>1. \E e \in Event : inbox' = [inbox EXCEPT ![c] = Append(@, e)]
      BY <2>2, EventTypes DEF JoinReply, Send
    <3>2. inbox' \in [Clients -> Seq(Event)]
      BY <3>1 DEF TypeOK
    <3>3. room[c] \in Rooms
      BY <2>2 DEF TypeOK, JoinReply
    <3>4. carried' \in [Clients -> Sets \cup {NoSet}] /\ torn' \in BOOLEAN
      <4>1. CASE alone[c]
        BY <2>2, <4>1 DEF TypeOK, JoinReply
      <4>2. CASE ~alone[c]
        <5>1. PICK s \in Seen(c, roomClients[room[c]], NoSet, RoomMapWrites) :
                 /\ carried' = [carried EXCEPT ![c] = s]
                 /\ torn' = (torn \/ s # roomClients[room[c]])
          BY <2>2, <4>2 DEF JoinReply
        <5>2. roomClients[room[c]] \in Sets \cup {NoSet}
          BY <3>3 DEF TypeOK
        <5>3. s \in Sets \cup {NoSet}
          BY <5>2
        <5> QED  BY <5>1, <5>3 DEF TypeOK
      <4> QED  BY <4>1, <4>2
    <3>5. UNCHANGED <<socketRoom, listed, userRoomMap, roomClients, heap, handler, room,
                      ref, copy>>
      BY <2>2 DEF JoinReply
    <3>6. pc[c] = "reply" /\ pc' = [pc EXCEPT ![c] = "enter"] /\ alone' = [alone EXCEPT ![c] = FALSE]
      BY <2>2 DEF JoinReply
    <3> HIDE DEF Sets, Handlers
    <3> QED  BY <2>0, <3>2, <3>3, <3>4, <3>5, <3>6 DEF TypeOK
  <2>3. CASE JoinLogThrows(c)
    BY <2>0, <2>3 DEF TypeOK, JoinLogThrows
  <2>4. CASE JoinEnter(c)
    <3>1. socketRoom \in [Rooms -> SUBSET Clients] /\ room[c] \in Rooms
      BY <2>4 DEF TypeOK, JoinEnter
    <3>2. socketRoom' = [socketRoom EXCEPT ![room[c]] = @ \cup {c}]
      BY <2>4 DEF JoinEnter
    <3>3. socketRoom' \in [Rooms -> SUBSET Clients]
      BY <3>1, <3>2
    <3> QED  BY <2>0, <2>4, <3>3 DEF TypeOK, JoinEnter
  <2>5. CASE JoinFetch(c)
    <3>1. /\ room[c] \in Rooms
          /\ <<c, "join">> \in Sets
          /\ roomClients \in [Rooms -> Sets \cup {NoSet}]
          /\ ref \in [Clients -> Sets \cup {NoSet}]
      BY <2>5 DEF TypeOK, JoinFetch
    <3>2. PICK s \in Seen(c, roomClients[room[c]], NoSet, RoomMapWrites) :
             \/ /\ s # NoSet
                /\ ref' = [ref EXCEPT ![c] = s]
                /\ UNCHANGED <<roomClients, torn>>
             \/ /\ s = NoSet
                /\ ref' = [ref EXCEPT ![c] = <<c, "join">>]
                /\ \E kept \in Kept(Overlaps(c, RoomMapWrites)) :
                      /\ roomClients' = IF kept
                            THEN [roomClients EXCEPT ![room[c]] = <<c, "join">>]
                            ELSE roomClients
                      /\ torn' = (torn \/ ~kept \/ s # roomClients[room[c]])
      BY <2>5 DEF JoinFetch
    <3>3. s \in Sets \cup {NoSet}
      BY <3>1
    <3>4. torn' \in BOOLEAN
      BY <3>2 DEF TypeOK
    <3>5. roomClients' \in [Rooms -> Sets \cup {NoSet}]
      BY <3>1, <3>2
    <3>6. \E x \in Sets : ref' = [ref EXCEPT ![c] = x]
      BY <3>1, <3>2, <3>3
    <3>7. /\ ref' \in [Clients -> Sets \cup {NoSet}]
          /\ ref'[c] \in Sets
          /\ \A d \in Clients \ {c} : ref'[d] = ref[d]
      BY <3>1, <3>6
    <3>8. /\ pc[c] = "fetch" /\ pc' = [pc EXCEPT ![c] = "add"]
          /\ UNCHANGED <<server, userRoomMap, heap, handler, room, alone, copy>>
      BY <2>5 DEF JoinFetch, Goto
    <3> QED  BY <2>0, <3>1, <3>4, <3>5, <3>7, <3>8 DEF TypeOK
  <2>6. CASE JoinAdd(c)
    BY <2>0, <2>6 DEF TypeOK, JoinAdd
  <2>7. CASE JoinRecord(c)
    BY <2>0, <2>7 DEF TypeOK, JoinRecord
  <2>8. CASE LeaveStart(c)
    BY <2>0, <2>8 DEF TypeOK, LeaveStart, Joined, Busy
  <2>9. CASE DisconnectStart(c)
    BY <2>0, <2>9 DEF TypeOK, DisconnectStart
  <2>10. CASE Lookup(c)
    BY <2>0, <2>10 DEF TypeOK, Lookup
  <2>11. CASE RemoveFind(c)
    BY <2>0, <2>11 DEF TypeOK, RemoveFind, AfterRemoval
  <2>12. CASE RemoveCopy(c)
    <3>1. copy' \in [Clients -> SUBSET Clients]
      BY <2>12 DEF TypeOK, RemoveCopy
    <3>2. pc[c] = "copy" /\ pc' = [pc EXCEPT ![c] = "store"]
      BY <2>12 DEF RemoveCopy
    <3>3. UNCHANGED <<socketRoom, inbox, carried, listed, userRoomMap, roomClients, heap,
                      handler, room, alone, ref, torn>>
      BY <2>12 DEF RemoveCopy
    <3> HIDE DEF Sets, Handlers
    <3> QED  BY <2>0, <3>1, <3>2, <3>3 DEF TypeOK
  <2>13. CASE RemoveStore(c)
    <3>1. pc[c] = "store" /\ handler[c] \in Handlers /\ c \in Clients
      BY <2>13 DEF TypeOK, RemoveStore
    <3>2. <<c, handler[c]>> \in Sets
      BY <3>1
    <3>3. PICK kept \in BOOLEAN :
             /\ roomClients' =
                   IF ~kept THEN roomClients
                   ELSE [roomClients EXCEPT ![room[c]] =
                            IF heap[ref[c]] = {} THEN NoSet ELSE <<c, handler[c]>>]
             /\ torn' = (torn \/ ~kept)
      BY <2>13 DEF RemoveStore
    <3>4. /\ pc' = [pc EXCEPT ![c] = AfterRemoval(c)]
          /\ heap' = [heap EXCEPT ![<<c, handler[c]>>] = copy[c]]
          /\ ref' = [ref EXCEPT ![c] = NoSet]
          /\ copy' = [copy EXCEPT ![c] = {}]
          /\ UNCHANGED <<socketRoom, inbox, carried, listed, userRoomMap, handler, room, alone>>
      BY <2>13 DEF RemoveStore
    <3>5. AfterRemoval(c) \in {"tell", "forget"}
      BY DEF AfterRemoval
    <3> HIDE DEF Sets, Handlers
    <3>6. roomClients' \in [Rooms -> Sets \cup {NoSet}] /\ torn' \in BOOLEAN
      BY <3>2, <3>3 DEF TypeOK
    <3>7. heap' \in [Sets -> SUBSET Clients] /\ copy' \in [Clients -> SUBSET Clients]
      BY <3>4 DEF TypeOK
    <3> QED  BY <2>0, <3>1, <3>4, <3>5, <3>6, <3>7 DEF TypeOK
  <2>14. CASE Throw(c)
    BY <2>0, <2>14 DEF TypeOK, Throw
  <2>15. CASE Forget(c)
    BY <2>0, <2>15 DEF TypeOK, Forget
  <2>16. CASE Tell(c)
    <3>1. inbox' \in [Clients -> Seq(Event)]
      <4>1. inbox \in [Clients -> Seq(Event)]
        BY DEF TypeOK
      <4>2. [type |-> "userDisconnected", client |-> c] \in Event
        BY EventTypes
      <4> QED  BY <2>16, <4>1, <4>2 DEF Tell
    <3> QED  BY <2>0, <2>16, <3>1 DEF TypeOK, Tell
  <2>17. CASE Encode(c)
    BY <2>0, <2>17 DEF TypeOK, Encode, thread
  <2> QED
    BY <1>2, <2>1, <2>2, <2>3, <2>4, <2>5, <2>6, <2>7, <2>8, <2>9, <2>10,
       <2>11, <2>12, <2>13, <2>14, <2>15, <2>16, <2>17 DEF HandlerStart, HandlerStep
<1> QED
  BY <1>1, <1>2 DEF Next

\* Type correctness: every variable keeps its type, and no thread reaches a
\* step of the RoomManager without a room or without a set.
THEOREM TypeCorrect == Spec => []TypeOK
BY InitTypeOK, NextTypeOK, PTL DEF Spec

-----------------------------------------------------------------------------
(***************************************************************************)
(* What a step of a client leaves alone, and what it does to the lists.    *)
(***************************************************************************)

\* The client has been, or may have been, added to a set: it is past
\* addClientToRoom.  Nothing before that step puts it into a set, so nothing
\* can list it.
Added(c) ==
    ~(\/ handler[c] = "none"
      \/ handler[c] = "join" /\ pc[c] \in {"reply", "enter", "fetch", "add"})

\* Which handler a thread is in at each step.
Threads ==
    \A c \in Clients :
        /\ pc[c] \in {"reply", "enter", "fetch", "add", "record"}
              => handler[c] = "join"
        /\ pc[c] \in {"find", "copy", "store", "tell"}
              => handler[c] \in {"leave", "disconnect"}
        /\ pc[c] \in {"lookup", "forget"} => handler[c] = "disconnect"

Step(c) == HandlerStart(c) \/ HandlerStep(c) \/ Encode(c)

\* A step changes the thread of its own client only.
LEMMA Frame ==
    ASSUME TypeOK, NEW c \in Clients, Step(c), NEW d \in Clients, d # c
    PROVE  /\ pc'[d] = pc[d]
           /\ handler'[d] = handler[d]
           /\ room'[d] = room[d]
           /\ copy'[d] = copy[d]
           /\ ref'[d] = ref[d]
           /\ userRoomMap'[d] = userRoomMap[d]
           /\ carried'[d] = carried[d]
           /\ listed'[d] = listed[d]
<1> USE DEF TypeOK, Goto, server, packet, maps, Seen, Kept
<1>1. ASSUME NEW r \in Rooms, JoinStart(c, r)
      PROVE  /\ pc'[d] = pc[d] /\ handler'[d] = handler[d] /\ room'[d] = room[d]
             /\ copy'[d] = copy[d] /\ ref'[d] = ref[d]
             /\ userRoomMap'[d] = userRoomMap[d]
             /\ carried'[d] = carried[d] /\ listed'[d] = listed[d]
  BY <1>1 DEF JoinStart
<1>2. CASE LeaveStart(c) \/ DisconnectStart(c) \/ Lookup(c)
  BY <1>2 DEF LeaveStart, DisconnectStart, Lookup
<1>3. CASE JoinReply(c) \/ JoinLogThrows(c) \/ JoinEnter(c) \/ Encode(c)
  <2>1. CASE JoinReply(c)
    BY <2>1 DEF JoinReply
  <2>2. CASE JoinLogThrows(c) \/ JoinEnter(c)
    BY <2>2 DEF JoinLogThrows, JoinEnter
  <2>3. CASE Encode(c)
    BY <2>3 DEF Encode, thread
  <2> QED  BY <1>3, <2>1, <2>2, <2>3
<1>4. CASE JoinFetch(c)
  BY <1>4 DEF JoinFetch
<1>5. CASE JoinAdd(c) \/ JoinRecord(c)
  <2>1. CASE JoinAdd(c)
    BY <2>1 DEF JoinAdd
  <2>2. CASE JoinRecord(c)
    BY <2>2 DEF JoinRecord
  <2> QED  BY <1>5, <2>1, <2>2
<1>6. CASE RemoveFind(c) \/ RemoveCopy(c) \/ RemoveStore(c)
  <2>1. CASE RemoveFind(c)
    BY <2>1 DEF RemoveFind
  <2>2. CASE RemoveCopy(c)
    BY <2>2 DEF RemoveCopy
  <2>3. CASE RemoveStore(c)
    BY <2>3 DEF RemoveStore
  <2> QED  BY <1>6, <2>1, <2>2, <2>3
<1>7. CASE Throw(c) \/ Forget(c) \/ Tell(c)
  <2>1. CASE Throw(c)
    BY <2>1 DEF Throw
  <2>2. CASE Forget(c)
    BY <2>2 DEF Forget
  <2>3. CASE Tell(c)
    BY <2>3 DEF Tell
  <2> QED  BY <1>7, <2>1, <2>2, <2>3
<1> QED
  BY <1>1, <1>2, <1>3, <1>4, <1>5, <1>6, <1>7
  DEF Step, HandlerStart, HandlerStep

\* What a step does to the thread of its client.
LEMMA OwnThread ==
    ASSUME TypeOK, Threads, NEW c \in Clients, Step(c)
    PROVE  /\ Added(c) => Added(c)'
           /\ Threads'
<1> USE DEF TypeOK, Goto, Threads, Added, AfterRemoval
<1>1. ASSUME NEW d \in Clients, d # c
      PROVE  pc'[d] = pc[d] /\ handler'[d] = handler[d]
  BY <1>1, Frame
<1>2. ASSUME NEW r \in Rooms, JoinStart(c, r)
      PROVE  /\ Added(c) => Added(c)'
               /\ ~Added(c)'
             /\ Threads'
  <2>1. handler'[c] = "join" /\ pc'[c] = "reply" /\ handler[c] = "none"
    BY <1>2 DEF JoinStart
  <2>2. ~Added(c)
    BY <2>1
  <2>3. ~Added(c)'
    BY <2>1
  <2>4. Threads'
    BY <1>1, <2>1
  <2> QED  BY <2>2, <2>3, <2>4
<1>3. CASE LeaveStart(c)
  BY <1>1, <1>3 DEF LeaveStart, Joined, Busy
<1>4. CASE DisconnectStart(c)
  BY <1>1, <1>4 DEF DisconnectStart
<1>5. CASE Lookup(c)
  BY <1>1, <1>5 DEF Lookup
<1>6. CASE JoinReply(c)
  BY <1>1, <1>6 DEF JoinReply
<1>7. CASE JoinLogThrows(c)
  BY <1>1, <1>7 DEF JoinLogThrows
<1>8. CASE JoinEnter(c)
  BY <1>1, <1>8 DEF JoinEnter
<1>9. CASE JoinFetch(c)
  BY <1>1, <1>9 DEF JoinFetch
<1>10. CASE JoinAdd(c)
  BY <1>1, <1>10 DEF JoinAdd
<1>11. CASE JoinRecord(c)
  BY <1>1, <1>11 DEF JoinRecord
<1>12. CASE RemoveFind(c)
  BY <1>1, <1>12 DEF RemoveFind
<1>13. CASE RemoveCopy(c)
  BY <1>1, <1>13 DEF RemoveCopy
<1>14. CASE RemoveStore(c)
  BY <1>1, <1>14 DEF RemoveStore
<1>15. CASE Throw(c)
  BY <1>1, <1>15 DEF Throw
<1>16. CASE Forget(c)
  BY <1>1, <1>16 DEF Forget
<1>17. CASE Tell(c)
  BY <1>1, <1>17 DEF Tell
<1>18. CASE Encode(c)
  BY <1>1, <1>18 DEF Encode, thread
<1> HIDE DEF TypeOK, Goto, Threads, Added, AfterRemoval
<1> QED
  BY <1>1, <1>2, <1>3, <1>4, <1>5, <1>6, <1>7, <1>8, <1>9, <1>10, <1>11,
     <1>12, <1>13, <1>14, <1>15, <1>16, <1>17, <1>18
  DEF Step, HandlerStart, HandlerStep

\* Only the encoding of a packet lists clients, to the packet's client, and it
\* lists those of the set the packet carries: all of them, or an access went
\* wrong.
LEMMA ListedStep ==
    ASSUME TypeOK, NEW c \in Clients, Step(c), NEW d \in Clients
    PROVE  \/ listed'[d] = listed[d]
           \/ /\ d = c /\ Encode(c)
              /\ carried[c] \in Sets
              /\ listed'[c] \subseteq heap[carried[c]]
              /\ ~torn' => listed'[c] = heap[carried[c]]
<1>1. CASE listed' = listed
  BY <1>1
<1>2. CASE Encode(c)
  <2>1. CASE d # c
    BY <1>2, <2>1, Frame
  <2>2. CASE d = c
    <3>1. PICK seen \in SUBSET heap[carried[c]] :
             /\ listed' = [listed EXCEPT ![c] = seen]
             /\ torn' = (torn \/ seen # heap[carried[c]])
      BY <1>2 DEF Encode
    <3>2. carried[c] \in Sets /\ listed'[c] = seen
      BY <1>2, <3>1 DEF Encode, TypeOK
    <3> QED  BY <1>2, <2>2, <3>1, <3>2
  <2> QED  BY <2>1, <2>2
<1> QED
  BY <1>1, <1>2
  DEF Step, HandlerStart, HandlerStep, JoinStart, LeaveStart, DisconnectStart,
      Lookup, JoinReply, JoinLogThrows, JoinEnter, JoinFetch, JoinAdd, JoinRecord,
      RemoveFind, RemoveCopy, RemoveStore, Throw, Forget, Tell, server, packet

-----------------------------------------------------------------------------
(***************************************************************************)
(* Whoever is in a set, in a copy of one or in a list has been added.      *)
(***************************************************************************)
Meet ==
    /\ \A s \in Sets : \A e \in heap[s] : Added(e)
    /\ \A d \in Clients : \A e \in copy[d] : Added(e)
    /\ \A d \in Clients : \A e \in Listed(d) : Added(e)

LEMMA InitMeet == Init => Meet /\ Threads
BY DEF Init, Meet, Threads, Listed

\* A step adds no client to a set or to a copy but one that has been added.
LEMMA SetsStep ==
    ASSUME TypeOK, NEW c \in Clients, Step(c)
    PROVE  /\ \A s \in Sets : \A e \in heap'[s] :
                  \/ e \in heap[s]
                  \/ JoinAdd(c) /\ e = c /\ s = ref[c]
                  \/ RemoveStore(c) /\ e \in copy[c] /\ s = <<c, handler[c]>>
           /\ \A d \in Clients : \A e \in copy'[d] :
                  \/ e \in copy[d]
                  \/ RemoveCopy(c) /\ d = c /\ e \in heap[ref[c]]
<1> USE DEF TypeOK, maps, Goto
<1>1. CASE UNCHANGED <<heap, copy>>
  BY <1>1
<1>2. CASE JoinAdd(c)
  BY <1>2 DEF JoinAdd
<1>3. CASE RemoveStore(c)
  BY <1>3 DEF RemoveStore
<1>4. CASE RemoveCopy(c)
  BY <1>4 DEF RemoveCopy
<1> QED
  BY <1>1, <1>2, <1>3, <1>4
  DEF Step, HandlerStart, HandlerStep, JoinStart, LeaveStart, DisconnectStart,
      Lookup, JoinReply, JoinLogThrows, JoinEnter, JoinFetch, JoinRecord,
      RemoveFind, Throw, Forget, Tell, Encode, thread

LEMMA NextMeet == TypeOK /\ Threads /\ Meet /\ [Next]_vars => Meet' /\ Threads'
<1> SUFFICES ASSUME TypeOK, Threads, Meet, [Next]_vars PROVE Meet' /\ Threads'
  OBVIOUS
<1>1. CASE UNCHANGED vars
  BY <1>1 DEF vars, server, packet, maps, thread, Meet, Threads, Added, Listed
<1>2. ASSUME NEW c \in Clients, Step(c)
      PROVE  Meet' /\ Threads'
  <2>0. /\ Added(c) => Added(c)'
        /\ Threads'
    BY <1>2, OwnThread
  <2>1. \A e \in Clients : Added(e) => Added(e)'
    BY <1>2, <2>0, Frame DEF Added
  <2>3. JoinAdd(c) => Added(c)'
    BY DEF JoinAdd, Goto, Added, TypeOK
  <2>4. ASSUME NEW s \in Sets, NEW e \in heap'[s] PROVE Added(e)'
    <3>1. \/ e \in heap[s]
          \/ JoinAdd(c) /\ e = c
          \/ e \in copy[c]
      BY <1>2, <2>4, SetsStep
    <3> QED  BY <2>1, <2>3, <3>1 DEF Meet, TypeOK
  <2>5. ASSUME NEW d \in Clients, NEW e \in copy'[d] PROVE Added(e)'
    <3>1. \/ e \in copy[d]
          \/ RemoveCopy(c) /\ e \in heap[ref[c]]
      BY <1>2, <2>5, SetsStep
    <3>2. RemoveCopy(c) => ref[c] \in Sets
      BY DEF RemoveCopy, Goto, TypeOK
    <3> QED  BY <2>1, <3>1, <3>2 DEF Meet, TypeOK
  <2>6. ASSUME NEW d \in Clients, NEW e \in Listed(d)' PROVE Added(e)'
    <3>1. CASE listed'[d] = listed[d]
      BY <2>1, <2>6, <3>1 DEF Meet, Listed, TypeOK
    <3>2. CASE carried[c] \in Sets /\ listed'[d] \subseteq heap[carried[c]]
      BY <2>1, <2>6, <3>2 DEF Meet, Listed, TypeOK
    <3> QED  BY <1>2, <3>1, <3>2, ListedStep
  <2> QED
    BY <2>0, <2>4, <2>5, <2>6 DEF Meet
<1> QED
  BY <1>1, <1>2 DEF Next, Step

LEMMA MeetInvariant == Spec => [](Threads /\ Meet)
<1>1. Init => Threads /\ Meet
  BY InitMeet
<1>2. TypeOK /\ Threads /\ Meet /\ [Next]_vars => (Threads /\ Meet)'
  BY NextMeet
<1> QED
  BY <1>1, <1>2, TypeCorrect, PTL DEF Spec

-----------------------------------------------------------------------------
(***************************************************************************)
(* What no step takes back.                                                *)
(***************************************************************************)

\* A client that is in a room stays with it: a session joins one room.
LEMMA RoomKept ==
    ASSUME TypeOK, NEW c \in Clients, Step(c), NEW d \in Clients, room[d] \in Rooms
    PROVE  room'[d] = room[d]
<1>1. CASE d # c
  BY <1>1, Frame
<1>2. ASSUME NEW r \in Rooms, JoinStart(c, r) PROVE d # c
  BY <1>2 DEF JoinStart, TypeOK
<1> QED
  BY <1>1, <1>2
  DEF Step, HandlerStart, HandlerStep, LeaveStart, DisconnectStart,
      Lookup, JoinReply, JoinLogThrows, JoinEnter, JoinFetch, JoinAdd, JoinRecord,
      RemoveFind, RemoveCopy, RemoveStore, Throw, Forget, Tell, Encode, thread, maps,
      server

\* What went wrong stays recorded.
LEMMA TornKept ==
    ASSUME TypeOK, NEW c \in Clients, Step(c), torn
    PROVE  torn'
<1>1. CASE UNCHANGED torn
  BY <1>1
<1>2. CASE JoinReply(c) \/ JoinLogThrows(c)
  BY <1>2 DEF JoinReply, JoinLogThrows
<1>3. CASE JoinFetch(c) \/ JoinAdd(c) \/ JoinRecord(c)
  BY <1>3 DEF JoinFetch, JoinAdd, JoinRecord
<1>4. CASE Lookup(c) \/ RemoveFind(c) \/ RemoveStore(c) \/ Throw(c) \/ Forget(c) \/ Encode(c)
  BY <1>4 DEF Lookup, RemoveFind, RemoveStore, Throw, Forget, Encode
<1> QED
  BY <1>1, <1>2, <1>3, <1>4
  DEF Step, HandlerStart, HandlerStep, JoinStart, LeaveStart, DisconnectStart,
      JoinEnter, RemoveCopy, Tell

\* What a browser was sent stays in its inbox.
LEMMA InboxStep ==
    ASSUME TypeOK, NEW c \in Clients, Step(c),
           NEW d \in Clients, NEW i \in DOMAIN inbox[d]
    PROVE  i \in DOMAIN inbox'[d] /\ inbox'[d][i] = inbox[d][i]
<1>0. inbox[d] \in Seq(Event)
  BY DEF TypeOK
<1>1. CASE inbox'[d] = inbox[d]
  BY <1>1
<1>2. ASSUME NEW e, inbox'[d] = Append(inbox[d], e)
      PROVE  i \in DOMAIN inbox'[d] /\ inbox'[d][i] = inbox[d][i]
  BY <1>0, <1>2
<1>3. inbox \in [Clients -> Seq(Event)]
  BY DEF TypeOK
<1>4. CASE JoinReply(c)
  <2>1. \E e : Send(c, e)
    BY <1>4 DEF JoinReply
  <2> QED  BY <1>1, <1>2, <1>3, <2>1 DEF Send
<1>5. CASE Tell(c)
  BY <1>1, <1>2, <1>3, <1>5 DEF Tell
<1> QED
  BY <1>1, <1>4, <1>5
  DEF Step, HandlerStart, HandlerStep, JoinStart, LeaveStart, DisconnectStart,
      Lookup, JoinLogThrows, JoinEnter, JoinFetch, JoinAdd, JoinRecord,
      RemoveFind, RemoveCopy, RemoveStore, Throw, Forget, Encode, maps, server

-----------------------------------------------------------------------------
(***************************************************************************)
(* The rooms of the socket server are exact, whatever overlaps: a client   *)
(* is in the room it joined from client.joinRoom until it leaves.          *)
(***************************************************************************)
Inside(c) == handler[c] = "join" /\ pc[c] \notin {"reply", "enter"}

SocketRooms ==
    \A r \in Rooms : socketRoom[r] = {c \in Clients : Inside(c) /\ room[c] = r}

LEMMA NextSocketRooms ==
    ASSUME TypeOK, TypeOK', Threads, SocketRooms, NEW c \in Clients, Step(c)
    PROVE  SocketRooms'
<1>0. /\ handler[c] = "none" => pc[c] = "ready"
      /\ pc[c] \in {"reply", "enter", "fetch", "add", "record"} => handler[c] = "join"
      /\ pc[c] \in {"find", "copy", "store", "tell", "lookup", "forget"}
            => handler[c] \in {"leave", "disconnect"}
      /\ pc[c] \notin {"ready", "lookup"} => room[c] \in Rooms
  BY DEF TypeOK, Threads
<1>1. ASSUME NEW d \in Clients, d # c
      PROVE  (Inside(d)' <=> Inside(d)) /\ room'[d] = room[d]
  BY <1>1, Frame DEF Inside
<1>2. SUFFICES ASSUME NEW r \in Rooms, NEW d \in Clients
               PROVE  d \in socketRoom'[r] <=> Inside(d)' /\ room'[d] = r
  <2>1. \A r \in Rooms : socketRoom'[r] \subseteq Clients
    BY DEF TypeOK
  <2> QED  BY <1>2, <2>1 DEF SocketRooms
<1>3. d \in socketRoom[r] <=> Inside(d) /\ room[d] = r
  BY DEF SocketRooms
<1>4. socketRoom \in [Rooms -> SUBSET Clients]
  BY DEF TypeOK
<1>5. /\ handler \in [Clients -> Handlers \cup {"none", "aborted"}]
      /\ pc \in [Clients -> Steps]
      /\ room \in [Clients -> Rooms \cup {NoRoom}]
  BY DEF TypeOK
<1>6. ASSUME NEW q \in Rooms, JoinStart(c, q)
      PROVE  d \in socketRoom'[r] <=> Inside(d)' /\ room'[d] = r
  BY <1>0, <1>1, <1>3, <1>5, <1>6 DEF JoinStart, Goto, server, Inside
<1>7. CASE JoinEnter(c)
  BY <1>0, <1>1, <1>3, <1>4, <1>5, <1>7 DEF JoinEnter, Goto, Inside
<1>8. CASE LeaveStart(c)
  BY <1>0, <1>1, <1>3, <1>4, <1>5, <1>8 DEF LeaveStart, Joined, Busy, Goto, Inside
<1>9. CASE DisconnectStart(c)
  BY <1>0, <1>1, <1>3, <1>4, <1>5, <1>9 DEF DisconnectStart, Goto, Inside
<1>10. ASSUME socketRoom' = socketRoom, room' = room, Inside(c)' <=> Inside(c)
       PROVE  d \in socketRoom'[r] <=> Inside(d)' /\ room'[d] = r
  BY <1>1, <1>3, <1>10
<1>11. CASE JoinReply(c) \/ JoinLogThrows(c)
  BY <1>0, <1>5, <1>10, <1>11 DEF JoinReply, JoinLogThrows, Goto, Inside, server
<1>12. CASE JoinFetch(c) \/ JoinAdd(c) \/ JoinRecord(c)
  BY <1>0, <1>5, <1>10, <1>12 DEF JoinFetch, JoinAdd, JoinRecord, Goto, Inside, server
<1>13. CASE Lookup(c) \/ RemoveFind(c) \/ RemoveCopy(c) \/ RemoveStore(c)
  BY <1>0, <1>5, <1>10, <1>13
  DEF Lookup, RemoveFind, RemoveCopy, RemoveStore, Goto, Inside, server
<1>14. CASE Throw(c) \/ Forget(c) \/ Tell(c) \/ Encode(c)
  BY <1>0, <1>5, <1>10, <1>14 DEF Throw, Forget, Tell, Encode, Goto, Inside, server, thread
<1> QED
  BY <1>6, <1>7, <1>8, <1>9, <1>11, <1>12, <1>13, <1>14
  DEF Step, HandlerStart, HandlerStep

-----------------------------------------------------------------------------
(***************************************************************************)
(* Sets of different rooms do not mix.  A set belongs to the client whose  *)
(* handler allocated it, and so to that client's room.                     *)
(***************************************************************************)
SameRoom ==
    /\ \A s \in Sets : \A e \in heap[s] : room[e] \in Rooms /\ room[s[1]] = room[e]
    /\ \A r \in Rooms : roomClients[r] # NoSet => room[roomClients[r][1]] = r
    /\ \A d \in Clients :
          ref[d] # NoSet => room[d] \in Rooms /\ room[ref[d][1]] = room[d]
    /\ \A d \in Clients :
          carried[d] # NoSet => room[d] \in Rooms /\ room[carried[d][1]] = room[d]
    /\ \A d \in Clients : \A e \in copy[d] : room[d] \in Rooms /\ room[e] = room[d]
    /\ \A d \in Clients : \A e \in Listed(d) : room[d] \in Rooms /\ room[e] = room[d]

\* Where the sets that a step puts somewhere come from.
LEMMA RefsStep ==
    ASSUME TypeOK, NEW c \in Clients, Step(c)
    PROVE  /\ \A r \in Rooms :
                 \/ roomClients'[r] = roomClients[r]
                 \/ roomClients'[r] = NoSet
                 \/ JoinFetch(c) /\ r = room[c] /\ roomClients'[r] = <<c, "join">>
                 \/ RemoveStore(c) /\ r = room[c] /\ roomClients'[r] = <<c, handler[c]>>
           /\ \A d \in Clients :
                 \/ ref'[d] = ref[d]
                 \/ ref'[d] = NoSet
                 \/ d = c /\ RemoveFind(c) /\ ref'[d] = roomClients[room[c]]
                 \/ /\ d = c /\ JoinFetch(c)
                    /\ ref'[d] \in {roomClients[room[c]], <<c, "join">>}
           /\ \A d \in Clients :
                 \/ carried'[d] = carried[d]
                 \/ carried'[d] = NoSet
                 \/ d = c /\ JoinReply(c) /\ carried'[d] = roomClients[room[c]]
<1>0. /\ roomClients \in [Rooms -> Sets \cup {NoSet}]
      /\ ref \in [Clients -> Sets \cup {NoSet}]
      /\ carried \in [Clients -> Sets \cup {NoSet}]
  BY DEF TypeOK
<1> USE DEF server, packet
<1>1. CASE UNCHANGED <<roomClients, ref, carried>>
  BY <1>1
<1>6. CASE JoinReply(c)
  BY <1>0, <1>6 DEF JoinReply, Seen, maps
<1>7. CASE DisconnectStart(c) \/ Encode(c)
  BY <1>0, <1>7 DEF DisconnectStart, Encode, thread, maps
<1>2. CASE JoinFetch(c)
  BY <1>0, <1>2 DEF JoinFetch, Seen, Kept
<1>3. CASE JoinAdd(c) \/ Throw(c)
  BY <1>0, <1>3 DEF JoinAdd, Throw, maps
<1>4. CASE RemoveFind(c)
  BY <1>0, <1>4 DEF RemoveFind, Seen, maps
<1>5. CASE RemoveStore(c)
  BY <1>0, <1>5 DEF RemoveStore, Kept
<1> QED
  BY <1>1, <1>2, <1>3, <1>4, <1>5, <1>6, <1>7
  DEF Step, HandlerStart, HandlerStep, JoinStart, LeaveStart,
      Lookup, JoinLogThrows, JoinEnter, JoinRecord, RemoveCopy, Forget, Tell, maps

LEMMA NextSameRoom ==
    ASSUME TypeOK, TypeOK', Threads, Meet, SameRoom, NEW c \in Clients, Step(c)
    PROVE  SameRoom'
<1>1. ASSUME NEW d \in Clients, room[d] \in Rooms
      PROVE  room'[d] = room[d]
  BY <1>1, RoomKept
<1>2. \A s \in Sets : s[1] \in Clients
  BY DEF Sets
<1>3. /\ heap \in [Sets -> SUBSET Clients]
      /\ copy \in [Clients -> SUBSET Clients]
      /\ roomClients \in [Rooms -> Sets \cup {NoSet}]
      /\ ref \in [Clients -> Sets \cup {NoSet}]
      /\ carried \in [Clients -> Sets \cup {NoSet}]
  BY DEF TypeOK
<1>4. /\ pc[c] \in {"find", "copy", "store", "add", "fetch", "reply"} => room[c] \in Rooms
      /\ pc[c] \in {"add", "copy", "store"} => ref[c] \in Sets
  BY DEF TypeOK
<1>5. <<c, "join">> \in Sets /\ <<c, "join">>[1] = c
  BY DEF Sets, Handlers
<1>6. pc[c] = "store" => <<c, handler[c]>> \in Sets /\ <<c, handler[c]>>[1] = c
  BY DEF Sets, Handlers, Threads
<1>7. ASSUME NEW s \in Sets, NEW e \in heap'[s]
      PROVE  room'[e] \in Rooms /\ room'[s[1]] = room'[e]
  <2>1. CASE e \in heap[s]
    BY <1>1, <1>2, <1>3, <2>1 DEF SameRoom
  <2>2. CASE JoinAdd(c) /\ e = c /\ s = ref[c]
    BY <1>1, <1>2, <1>3, <1>4, <2>2, SetAssumption DEF SameRoom, JoinAdd, Goto
  <2>3. CASE RemoveStore(c) /\ e \in copy[c] /\ s = <<c, handler[c]>>
    <3>1. pc[c] = "store"
      BY <2>3 DEF RemoveStore, Goto
    <3>2. e \in Clients /\ room[e] = room[c] /\ room[c] \in Rooms
      BY <1>3, <2>3 DEF SameRoom
    <3> QED  BY <1>1, <1>6, <2>3, <3>1, <3>2
  <2> QED  BY <2>1, <2>2, <2>3, SetsStep
<1>8. ASSUME NEW r \in Rooms, roomClients'[r] # NoSet
      PROVE  room'[roomClients'[r][1]] = r
  <2>1. CASE roomClients'[r] = roomClients[r]
    BY <1>1, <1>2, <1>3, <1>8, <2>1 DEF SameRoom
  <2>2. CASE JoinFetch(c) /\ r = room[c] /\ roomClients'[r] = <<c, "join">>
    BY <1>1, <1>5, <2>2
  <2>3. CASE RemoveStore(c) /\ r = room[c] /\ roomClients'[r] = <<c, handler[c]>>
    BY <1>1, <1>6, <2>3 DEF RemoveStore, Goto
  <2> QED  BY <1>8, <2>1, <2>2, <2>3, RefsStep
<1>9. ASSUME NEW d \in Clients, ref'[d] # NoSet
      PROVE  room'[d] \in Rooms /\ room'[ref'[d][1]] = room'[d]
  <2>1. CASE ref'[d] = ref[d]
    BY <1>1, <1>2, <1>3, <1>9, <2>1 DEF SameRoom
  <2>2. CASE /\ d = c /\ JoinFetch(c)
             /\ ref'[d] \in {roomClients[room[c]], <<c, "join">>}
    <3>1. room[c] \in Rooms
      BY <1>4, <2>2 DEF JoinFetch, Goto
    <3> QED  BY <1>1, <1>2, <1>3, <1>5, <1>9, <2>2, <3>1 DEF SameRoom
  <2>3. CASE d = c /\ RemoveFind(c) /\ ref'[d] = roomClients[room[c]]
    <3>1. room[c] \in Rooms
      BY <1>4, <2>3 DEF RemoveFind
    <3> QED  BY <1>1, <1>2, <1>3, <1>9, <2>3, <3>1 DEF SameRoom
  <2> QED  BY <1>9, <2>1, <2>2, <2>3, RefsStep
<1>10. ASSUME NEW d \in Clients, NEW e \in copy'[d]
       PROVE  room'[d] \in Rooms /\ room'[e] = room'[d]
  <2>1. CASE e \in copy[d]
    BY <1>1, <1>3, <2>1 DEF SameRoom
  <2>2. CASE RemoveCopy(c) /\ d = c /\ e \in heap[ref[c]]
    <3>1. ref[c] \in Sets /\ room[c] \in Rooms
      BY <1>4, <2>2 DEF RemoveCopy, Goto
    <3> QED  BY <1>1, <1>2, <1>3, <2>2, <3>1, SetAssumption DEF SameRoom
  <2> QED  BY <2>1, <2>2, SetsStep
<1>11. ASSUME NEW d \in Clients, NEW e \in Listed(d)'
       PROVE  room'[d] \in Rooms /\ room'[e] = room'[d]
  <2>1. CASE listed'[d] = listed[d]
    <3>1. e \in Clients /\ e \in Listed(d)
      BY <1>11, <2>1 DEF Listed, TypeOK
    <3> QED  BY <1>1, <3>1 DEF SameRoom
  <2>2. CASE d = c /\ carried[c] \in Sets /\ listed'[c] \subseteq heap[carried[c]]
    <3>1. e \in Clients /\ e \in heap[carried[c]]
      BY <1>3, <1>11, <2>2 DEF Listed
    <3>2. room[c] \in Rooms /\ room[carried[c][1]] = room[c]
      BY <2>2, SetAssumption DEF SameRoom
    <3>3. room[e] = room[c]
      BY <2>2, <3>1, <3>2 DEF SameRoom
    <3> QED  BY <1>1, <2>2, <3>1, <3>2, <3>3
  <2> QED  BY <2>1, <2>2, ListedStep
<1>12. ASSUME NEW d \in Clients, carried'[d] # NoSet
       PROVE  room'[d] \in Rooms /\ room'[carried'[d][1]] = room'[d]
  <2>1. CASE carried'[d] = carried[d]
    BY <1>1, <1>2, <1>3, <1>12, <2>1 DEF SameRoom
  <2>2. CASE d = c /\ JoinReply(c) /\ carried'[d] = roomClients[room[c]]
    <3>1. room[c] \in Rooms
      BY <1>4, <2>2 DEF JoinReply, Goto
    <3> QED  BY <1>1, <1>2, <1>3, <1>12, <2>2, <3>1 DEF SameRoom
  <2> QED  BY <1>12, <2>1, <2>2, RefsStep
<1> QED
  BY <1>7, <1>8, <1>9, <1>10, <1>11, <1>12 DEF SameRoom

-----------------------------------------------------------------------------
(***************************************************************************)
(* The set that a handler run would allocate is nobody's before it does.   *)
(***************************************************************************)
Unused(o, h) ==
    \/ /\ h = "join"
       /\ \/ handler[o] = "none"
          \/ handler[o] = "join" /\ pc[o] \in {"reply", "enter", "fetch"}
    \/ /\ h = "leave"
       /\ \/ handler[o] \in {"none", "join", "aborted"}
          \/ handler[o] = "leave" /\ pc[o] \in {"find", "copy", "store"}
    \/ /\ h = "disconnect"
       /\ \/ handler[o] # "disconnect"
          \/ pc[o] \in {"lookup", "find", "copy", "store"}

Fresh ==
    \A o \in Clients, h \in Handlers : Unused(o, h) =>
        /\ heap[<<o, h>>] = {}
        /\ \A r \in Rooms : roomClients[r] # <<o, h>>
        /\ \A d \in Clients : ref[d] # <<o, h>> /\ carried[d] # <<o, h>>

\* What is unused after a step was so before, and is not what the step allocates.
LEMMA UnusedStep ==
    ASSUME TypeOK, Threads, NEW c \in Clients, Step(c),
           NEW o \in Clients, NEW h \in Handlers, Unused(o, h)'
    PROVE  /\ Unused(o, h)
           /\ JoinFetch(c) => <<o, h>> # <<c, "join">>
           /\ RemoveStore(c) => <<o, h>> # <<c, handler[c]>>
<1>1. CASE o # c
  BY <1>1, Frame DEF Unused
<1>2. CASE o = c
  <2>1. /\ handler \in [Clients -> Handlers \cup {"none", "aborted"}]
        /\ pc \in [Clients -> Steps]
        /\ handler[c] \in {"none", "aborted"} => pc[c] = "ready"
    BY DEF TypeOK
  <2>2. /\ pc[c] \in {"reply", "enter", "fetch", "add", "record"} => handler[c] = "join"
        /\ pc[c] \in {"find", "copy", "store", "tell"}
              => handler[c] \in {"leave", "disconnect"}
        /\ pc[c] \in {"lookup", "forget"} => handler[c] = "disconnect"
    BY DEF Threads
  <2>3. CASE HandlerStart(c)
    BY <1>2, <2>1, <2>2, <2>3
    DEF Unused, HandlerStart, JoinStart, LeaveStart, DisconnectStart, Goto, Handlers,
        JoinFetch, RemoveStore
  <2>4. CASE JoinFetch(c)
    BY <1>2, <2>1, <2>2, <2>4 DEF Unused, JoinFetch, RemoveStore, Goto, Handlers
  <2>5. CASE RemoveStore(c)
    BY <1>2, <2>1, <2>2, <2>5
    DEF Unused, JoinFetch, RemoveStore, Goto, Handlers, AfterRemoval
  <2>6. CASE JoinReply(c) \/ JoinLogThrows(c) \/ JoinEnter(c) \/ JoinAdd(c) \/ JoinRecord(c)
    BY <1>2, <2>1, <2>2, <2>6
    DEF Unused, JoinReply, JoinLogThrows, JoinEnter, JoinAdd, JoinRecord, JoinFetch,
        RemoveStore, Goto, Handlers
  <2>7. CASE Lookup(c) \/ RemoveFind(c) \/ RemoveCopy(c)
    BY <1>2, <2>1, <2>2, <2>7
    DEF Unused, Lookup, RemoveFind, RemoveCopy, JoinFetch, RemoveStore, Goto, Handlers,
        AfterRemoval
  <2>8. CASE Throw(c) \/ Forget(c) \/ Tell(c)
    BY <1>2, <2>1, <2>2, <2>8
    DEF Unused, Throw, Forget, Tell, JoinFetch, RemoveStore, Goto, Handlers
  <2>9. CASE Encode(c)
    BY <1>2, <2>1, <2>2, <2>9
    DEF Unused, Encode, thread, JoinFetch, RemoveStore, AfterRemoval, Goto
  <2> QED
    BY <2>3, <2>4, <2>5, <2>6, <2>7, <2>8, <2>9 DEF Step, HandlerStep
<1> QED
  BY <1>1, <1>2

LEMMA NextFresh ==
    ASSUME TypeOK, TypeOK', Threads, Fresh, NEW c \in Clients, Step(c)
    PROVE  Fresh'
<1>1. SUFFICES ASSUME NEW o \in Clients, NEW h \in Handlers, Unused(o, h)'
               PROVE  /\ heap'[<<o, h>>] = {}
                      /\ \A r \in Rooms : roomClients'[r] # <<o, h>>
                      /\ \A d \in Clients : ref'[d] # <<o, h>> /\ carried'[d] # <<o, h>>
  BY DEF Fresh
<1>2. <<o, h>> \in Sets
  BY DEF Sets
<1>3. /\ Unused(o, h)
      /\ JoinFetch(c) => <<o, h>> # <<c, "join">>
      /\ RemoveStore(c) => <<o, h>> # <<c, handler[c]>>
  BY <1>1, UnusedStep
<1>4. /\ heap[<<o, h>>] = {}
      /\ \A r \in Rooms : roomClients[r] # <<o, h>>
      /\ \A d \in Clients : ref[d] # <<o, h>> /\ carried[d] # <<o, h>>
  BY <1>3 DEF Fresh
<1>5. JoinFetch(c) \/ RemoveFind(c) \/ JoinReply(c) => room[c] \in Rooms
  BY DEF JoinFetch, RemoveFind, JoinReply, Goto, TypeOK
<1>6. heap'[<<o, h>>] = {}
  <2>1. ASSUME NEW e \in heap'[<<o, h>>] PROVE FALSE
    BY <1>2, <1>3, <1>4, <2>1, SetsStep
  <2> QED  BY <2>1
<1>7. ASSUME NEW r \in Rooms PROVE roomClients'[r] # <<o, h>>
  BY <1>2, <1>3, <1>4, RefsStep, SetAssumption
<1>8. ASSUME NEW d \in Clients PROVE ref'[d] # <<o, h>> /\ carried'[d] # <<o, h>>
  BY <1>2, <1>3, <1>4, <1>5, RefsStep, SetAssumption
<1> QED
  BY <1>6, <1>7, <1>8

-----------------------------------------------------------------------------
(***************************************************************************)
(* Who may be on whose list.  As long as no access goes wrong, a room's     *)
(* sets follow each other, each of them in the map once.  A client takes   *)
(* the set it will be sent, then the one it is added to, the same or a     *)
(* later one.  So if d may be on e's list, d was or is being added to a    *)
(* set that e took; where that is not the set that d took, the latter has  *)
(* been replaced before e took its own, and e will never be in it.         *)
(***************************************************************************)
Joining(e, s) == e \in heap[s] \/ (pc[e] = "add" /\ ref[e] = s)

\* d is, or may come to be, on e's list.
Knows(e, d) ==
    \/ d \in Listed(e)
    \/ carried[e] # NoSet /\ Joining(d, carried[e])

Current(s) == \E r \in Rooms : roomClients[r] = s

Ordered ==
    ~torn =>
        /\ \A d, e \in Clients :
              (carried[d] # NoSet /\ Knows(e, d) /\ ~Joining(d, carried[d]))
              => ~Joining(e, carried[d]) /\ ~Current(carried[d])
        /\ \A e \in Clients, z \in Sets :
              (carried[e] # NoSet /\ Current(carried[e]) /\ Joining(e, z)) => z = carried[e]

\* Without a torn access, a client is being put into the room's current set by
\* JoinFetch, is in a fresh copy of a set it was in by RemoveStore, and
\* otherwise in no set it was not in before.
LEMMA JoiningStep ==
    ASSUME TypeOK, Threads, NEW c \in Clients, Step(c), ~torn',
           NEW d \in Clients, NEW s \in Sets
    PROVE  /\ Joining(d, s)' =>
                 \/ Joining(d, s)
                 \/ d = c /\ JoinFetch(c) /\ s = roomClients'[room[c]]
                 \/ RemoveStore(c) /\ s = <<c, handler[c]>> /\ d \in copy[c]
           /\ Joining(d, s) =>
                 \/ Joining(d, s)'
                 \/ RemoveStore(c) /\ s = <<c, handler[c]>>
<1>0. /\ heap \in [Sets -> SUBSET Clients]
      /\ ref \in [Clients -> Sets \cup {NoSet}]
      /\ pc \in [Clients -> Steps]
      /\ roomClients \in [Rooms -> Sets \cup {NoSet}]
      /\ pc[c] \in {"fetch", "add"} => room[c] \in Rooms
      /\ pc[c] = "add" => ref[c] \in Sets
  BY DEF TypeOK
<1>1. ASSUME d # c PROVE pc'[d] = pc[d] /\ ref'[d] = ref[d]
  BY <1>1, Frame
<1>2. CASE JoinFetch(c)
  <2>1. heap' = heap /\ pc[c] = "fetch" /\ pc'[c] = "add"
    BY <1>0, <1>2 DEF JoinFetch, Goto
  <2>2. ref'[c] = roomClients'[room[c]]
    <3>1. PICK t \in Seen(c, roomClients[room[c]], NoSet, RoomMapWrites) :
             \/ /\ t # NoSet
                /\ ref' = [ref EXCEPT ![c] = t]
                /\ UNCHANGED <<roomClients, torn>>
             \/ /\ t = NoSet
                /\ ref' = [ref EXCEPT ![c] = <<c, "join">>]
                /\ \E kept \in Kept(Overlaps(c, RoomMapWrites)) :
                      /\ roomClients' = IF kept
                            THEN [roomClients EXCEPT ![room[c]] = <<c, "join">>]
                            ELSE roomClients
                      /\ torn' = (torn \/ ~kept \/ t # roomClients[room[c]])
      BY <1>2 DEF JoinFetch
    <3>2. room[c] \in Rooms
      BY <1>0, <2>1
    <3>3. CASE t # NoSet
      <4>1. t = roomClients[room[c]]
        BY <3>3 DEF Seen
      <4> QED  BY <1>0, <3>1, <3>3, <4>1
    <3>4. CASE t = NoSet
      <4>1. roomClients' = [roomClients EXCEPT ![room[c]] = <<c, "join">>]
        BY <3>1, <3>4 DEF Kept
      <4> QED  BY <1>0, <3>1, <3>2, <3>4, <4>1
    <3> QED  BY <3>3, <3>4
  <2> QED  BY <1>1, <1>2, <2>1, <2>2 DEF Joining
<1>3. CASE JoinAdd(c)
  <2>1. heap' = [heap EXCEPT ![ref[c]] = @ \cup {c}]
    BY <1>3 DEF JoinAdd, Kept
  <2>2. pc[c] = "add" /\ pc'[c] = "record"
    BY <1>0, <1>3 DEF JoinAdd, Goto
  <2> QED  BY <1>0, <1>1, <2>1, <2>2 DEF Joining
<1>4. CASE RemoveStore(c)
  <2>1. heap' = [heap EXCEPT ![<<c, handler[c]>>] = copy[c]]
    BY <1>4 DEF RemoveStore
  <2>2. pc[c] = "store" /\ pc'[c] # "add"
    BY <1>0, <1>4 DEF RemoveStore, Goto, AfterRemoval
  <2> QED  BY <1>0, <1>1, <1>4, <2>1, <2>2 DEF Joining
<1>5. ASSUME heap' = heap, pc[c] # "add", pc'[c] # "add"
      PROVE  Joining(d, s)' <=> Joining(d, s)
  BY <1>1, <1>5 DEF Joining
<1>6. CASE Encode(c)
  <2>1. heap' = heap /\ pc' = pc /\ ref' = ref
    BY <1>6 DEF Encode, thread, maps
  <2> QED  BY <2>1 DEF Joining
<1>7. CASE HandlerStart(c)
  BY <1>0, <1>5, <1>7 DEF HandlerStart, JoinStart, LeaveStart, DisconnectStart, Goto, maps
<1>8. CASE JoinReply(c) \/ JoinLogThrows(c) \/ JoinEnter(c) \/ JoinRecord(c)
  BY <1>0, <1>5, <1>8 DEF JoinReply, JoinLogThrows, JoinEnter, JoinRecord, Goto, maps
<1>9. CASE Lookup(c) \/ RemoveFind(c) \/ RemoveCopy(c)
  BY <1>0, <1>5, <1>9 DEF Lookup, RemoveFind, RemoveCopy, Goto, AfterRemoval, maps
<1>10. CASE Throw(c) \/ Forget(c) \/ Tell(c)
  BY <1>0, <1>5, <1>10 DEF Throw, Forget, Tell, Goto, maps
<1> QED
  BY <1>2, <1>3, <1>4, <1>6, <1>7, <1>8, <1>9, <1>10 DEF Step, HandlerStep

\* A set names a room, by the client that allocated it.
LEMMA OneRoomNext ==
    ASSUME TypeOK', SameRoom'
    PROVE  /\ \A s \in Sets, r \in Rooms : roomClients'[r] = s => room'[s[1]] = r
           /\ \A d \in Clients, s \in Sets : Joining(d, s)' => room'[s[1]] = room'[d]
<1>1. ASSUME NEW s \in Sets, NEW r \in Rooms, roomClients'[r] = s PROVE room'[s[1]] = r
  BY <1>1, SetAssumption DEF SameRoom
<1>2. ASSUME NEW d \in Clients, NEW s \in Sets, Joining(d, s)' PROVE room'[s[1]] = room'[d]
  <2>1. CASE d \in heap'[s]
    BY <2>1 DEF SameRoom
  <2>2. CASE ref'[d] = s
    BY <2>2, SetAssumption DEF SameRoom
  <2> QED  BY <1>2, <2>1, <2>2 DEF Joining
<1> QED  BY <1>1, <1>2

\* The set a packet carries is allocated by no step.
LEMMA CarriedOld ==
    ASSUME TypeOK, Threads, Fresh, NEW c \in Clients, NEW d \in Clients
    PROVE  /\ JoinFetch(c) => carried[d] # <<c, "join">>
           /\ RemoveStore(c) => carried[d] # <<c, handler[c]>>
<1>1. JoinFetch(c) => Unused(c, "join") /\ "join" \in Handlers
  BY DEF JoinFetch, Goto, Threads, Unused, Handlers
<1>2. RemoveStore(c) => Unused(c, handler[c]) /\ handler[c] \in Handlers
  BY DEF RemoveStore, Goto, Threads, Unused, Handlers
<1> QED  BY <1>1, <1>2 DEF Fresh

\* What becomes current without being so before is allocated by the step.
LEMMA CurrentStep ==
    ASSUME TypeOK, NEW c \in Clients, Step(c), NEW s \in Sets, Current(s)'
    PROVE  \/ Current(s)
           \/ JoinFetch(c) /\ s = <<c, "join">>
           \/ RemoveStore(c) /\ s = <<c, handler[c]>>
<1>1. PICK r \in Rooms : roomClients'[r] = s
  BY DEF Current
<1> QED  BY <1>1, RefsStep, SetAssumption DEF Current

\* A client whose answer is being sent is in no set.
LEMMA ReplyingOut ==
    ASSUME TypeOK, Threads, Meet, NEW c \in Clients, JoinReply(c), NEW s \in Sets
    PROVE  ~Joining(c, s) /\ ~Joining(c, s)' /\ \A e \in Clients : c \notin Listed(e)'
<1>1. pc[c] = "reply" /\ handler[c] = "join" /\ pc'[c] = "enter"
  BY DEF JoinReply, Goto, Threads, TypeOK
<1>2. ~Added(c)
  BY <1>1 DEF Added
<1>3. c \notin heap[s] /\ \A e \in Clients : c \notin Listed(e)
  BY <1>2 DEF Meet
<1>4. heap' = heap /\ listed' = listed
  BY DEF JoinReply, maps
<1> QED  BY <1>1, <1>3, <1>4 DEF Joining, Listed

LEMMA NextOrdered ==
    ASSUME TypeOK, TypeOK', Threads, Meet, SameRoom, SameRoom', Fresh, Ordered,
           NEW c \in Clients, Step(c)
    PROVE  Ordered'
<1>0. SUFFICES ASSUME ~torn' PROVE Ordered'
  BY DEF Ordered
<1>1. /\ \A d, e \in Clients :
            (carried[d] # NoSet /\ Knows(e, d) /\ ~Joining(d, carried[d]))
            => ~Joining(e, carried[d]) /\ ~Current(carried[d])
      /\ \A e \in Clients, z \in Sets :
            (carried[e] # NoSet /\ Current(carried[e]) /\ Joining(e, z)) => z = carried[e]
  BY <1>0, TornKept DEF Ordered
<1>2. carried \in [Clients -> Sets \cup {NoSet}] /\ carried' \in [Clients -> Sets \cup {NoSet}]
  BY DEF TypeOK
<1>3. \A d \in Clients :
         \/ carried'[d] = carried[d]
         \/ carried'[d] = NoSet
         \/ d = c /\ JoinReply(c) /\ carried'[d] = roomClients[room[c]]
  BY RefsStep
<1>4. ASSUME NEW d \in Clients, NEW e \in Clients, NEW S \in Sets, carried'[d] = S,
             Knows(e, d)', ~Joining(d, S)'
      PROVE  ~Joining(e, S)' /\ ~Current(S)'
  <2>1. S \in Sets
    OBVIOUS
  <2>2. d \in Listed(e)' \/ \E x \in Sets : carried'[e] = x /\ Joining(d, x)'
    BY <1>2, <1>4 DEF Knows, Joining
  \* The client that is sent its set now is on no list.
  <2>3. CASE d = c /\ JoinReply(c)
    BY <2>2, <2>3, <2>1, ReplyingOut
  <2>4. CASE ~(d = c /\ JoinReply(c))
    <3>1. carried[d] = S
      BY <1>3, <1>4, <2>4
    <3>2. ~Joining(d, S)
      BY <1>0, <1>4, <2>1, <3>1, JoiningStep, CarriedOld
    <3>3. CASE Knows(e, d)
      <4>1. ~Joining(e, S) /\ ~Current(S)
        BY <1>1, <1>4, <3>1, <3>2, <3>3
      <4>2. ~Current(S)'
        BY <2>1, <3>1, <4>1, CurrentStep, CarriedOld
      <4>3. ASSUME Joining(e, S)' PROVE FALSE
        <5>1. e = c /\ JoinFetch(c) /\ S = roomClients'[room[c]]
          BY <1>0, <2>1, <3>1, <4>1, <4>3, JoiningStep, CarriedOld
        <5>2. room[c] \in Rooms
          BY <5>1 DEF JoinFetch, Goto, TypeOK
        <5> QED  BY <4>2, <5>1, <5>2 DEF Current
      <4> QED  BY <4>2, <4>3
    <3>4. CASE ~Knows(e, d)
      <4>1. ~(d \in Listed(e)')
        <5>1. ASSUME d \in Listed(e)' PROVE FALSE
          <6>1. listed'[e] # listed[e]
            BY <3>4, <5>1 DEF Knows, Listed
          <6>2. e = c /\ carried[c] \in Sets /\ listed'[c] \subseteq heap[carried[c]]
            BY <6>1, ListedStep
          <6>3. d \in heap[carried[e]] /\ carried[e] # NoSet
            BY <5>1, <6>2, SetAssumption DEF Listed
          <6> QED  BY <3>4, <6>3 DEF Knows, Joining
        <5> QED  BY <5>1
      <4>2. PICK X \in Sets : carried'[e] = X /\ Joining(d, X)'
        BY <2>2, <4>1
      <4>3. X # S /\ d # e
        BY <1>4, <4>2
      \* e has taken its set before: d is being put into it.
      <4>4. CASE carried[e] = X
        <5>1. ~Joining(d, X)
          BY <3>4, <4>2, <4>4, SetAssumption DEF Knows
        <5>2. d = c /\ JoinFetch(c) /\ X = roomClients'[room[c]]
          BY <1>0, <4>2, <4>4, <5>1, JoiningStep, CarriedOld
        <5>3. room[c] \in Rooms
          BY <5>2 DEF JoinFetch, Goto, TypeOK
        <5>4. Current(X)' /\ Current(X)
          BY <4>2, <4>4, <5>2, <5>3, CurrentStep, CarriedOld DEF Current
        <5>5. room'[c] = room[c] /\ room'[X[1]] = room[c] /\ room'[S[1]] = room[c]
          <6>1. room'[c] = room[c]
            BY <5>3, RoomKept
          <6>2. room'[X[1]] = room[c]
            BY <5>2, <5>3, OneRoomNext
          <6>3. room'[S[1]] = room'[d]
            BY <1>4, SetAssumption DEF SameRoom
          <6> QED  BY <5>2, <6>1, <6>2, <6>3
        <5>6. ASSUME Current(S)' PROVE FALSE
          <6>1. PICK r \in Rooms : roomClients'[r] = S
            BY <5>6 DEF Current
          <6>2. r = room[c]
            BY <2>1, <5>5, <6>1, OneRoomNext
          <6> QED  BY <4>3, <5>2, <6>1, <6>2
        <5>7. ASSUME Joining(e, S)' PROVE FALSE
          <6>1. Joining(e, S)
            BY <1>0, <2>1, <3>1, <4>3, <5>2, <5>7, JoiningStep, CarriedOld
          <6>2. S = X
            BY <1>1, <2>1, <4>2, <4>4, <5>4, <6>1, SetAssumption
          <6> QED  BY <4>3, <6>2
        <5> QED  BY <5>6, <5>7
      \* e takes it now.
      <4>5. CASE carried[e] # X
        <5>1. e = c /\ JoinReply(c) /\ X = roomClients[room[c]]
          BY <1>3, <4>2, <4>5, SetAssumption
        <5>2. room[c] \in Rooms /\ roomClients' = roomClients
          BY <5>1 DEF JoinReply, Goto, TypeOK, maps
        <5>3. room'[X[1]] = room[c]
          BY <5>1, <5>2, OneRoomNext
        <5>4. room'[X[1]] = room'[d] /\ room'[S[1]] = room'[d]
          BY <1>4, <4>2, OneRoomNext, SetAssumption DEF SameRoom
        <5>5. ASSUME Current(S)' PROVE FALSE
          <6>1. PICK r \in Rooms : roomClients'[r] = S
            BY <5>5 DEF Current
          <6>2. r = room[c]
            BY <2>1, <5>3, <5>4, <6>1, OneRoomNext
          <6> QED  BY <4>3, <5>1, <5>2, <6>1, <6>2
        <5>6. ~Joining(e, S)'
          BY <2>1, <5>1, ReplyingOut
        <5> QED  BY <5>5, <5>6
      <4> QED  BY <4>4, <4>5
    <3> QED  BY <3>3, <3>4
  <2> QED  BY <2>3, <2>4
<1>5. ASSUME NEW e \in Clients, NEW z \in Sets, NEW X \in Sets, carried'[e] = X,
             Current(X)', Joining(e, z)'
      PROVE  z = X
  <2>1. X \in Sets
    OBVIOUS
  <2>2. ~(e = c /\ JoinReply(c))
    BY <1>5, ReplyingOut
  <2>3. carried[e] = X
    BY <1>3, <1>5, <2>2
  <2>4. Current(X)
    BY <1>5, <2>1, <2>3, CurrentStep, CarriedOld
  <2>5. PICK r \in Rooms : roomClients'[r] = X
    BY <1>5 DEF Current
  <2>6. room'[X[1]] = r /\ room'[X[1]] = room'[e]
    BY <1>5, <2>5, OneRoomNext, SetAssumption DEF SameRoom
  <2>7. CASE Joining(e, z)
    BY <1>1, <1>5, <2>3, <2>4, <2>7
  <2>8. CASE e = c /\ JoinFetch(c) /\ z = roomClients'[room[c]]
    <3>1. room'[c] = room[c]
      BY <2>8, RoomKept DEF JoinFetch, Goto, TypeOK
    <3> QED  BY <2>5, <2>6, <2>8, <3>1
  \* The copy replaces the set that e took.
  <2>9. CASE RemoveStore(c) /\ z = <<c, handler[c]>> /\ e \in copy[c]
    <3>1. room[c] \in Rooms /\ room[e] = room[c]
      BY <2>9 DEF SameRoom
    <3>2. room'[e] = room[c]
      BY <3>1, RoomKept
    <3>3. roomClients'[room[c]] \in {NoSet, <<c, handler[c]>>}
      <4>1. PICK kept \in BOOLEAN :
               /\ roomClients' =
                     IF ~kept THEN roomClients
                     ELSE [roomClients EXCEPT ![room[c]] =
                              IF heap[ref[c]] = {} THEN NoSet ELSE <<c, handler[c]>>]
               /\ torn' = (torn \/ ~kept)
        BY <2>9 DEF RemoveStore, Kept
      <4>2. kept
        BY <1>0, <4>1
      <4>3. roomClients' = [roomClients EXCEPT ![room[c]] =
                              IF heap[ref[c]] = {} THEN NoSet ELSE <<c, handler[c]>>]
        BY <4>1, <4>2
      <4>4. roomClients \in [Rooms -> Sets \cup {NoSet}]
        BY DEF TypeOK
      <4> QED  BY <3>1, <4>3, <4>4
    <3>4. X # <<c, handler[c]>>
      BY <2>3, <2>9, CarriedOld
    <3> QED  BY <1>5, <2>5, <2>6, <3>2, <3>3, <3>4
  <2> QED  BY <1>0, <1>5, <2>7, <2>8, <2>9, JoiningStep
<1>6. ASSUME NEW d \in Clients, NEW e \in Clients, carried'[d] # NoSet, Knows(e, d)',
             ~Joining(d, carried[d])'
      PROVE  ~Joining(e, carried[d])' /\ ~Current(carried[d])'
  <2>1. PICK S \in Sets : carried'[d] = S
    BY <1>2, <1>6
  <2>2. ~Joining(d, S)'
    BY <1>6, <2>1 DEF Joining
  <2>3. ~Joining(e, S)' /\ ~Current(S)'
    BY <1>4, <1>6, <2>1, <2>2
  <2> QED  BY <2>1, <2>3 DEF Joining, Current
<1>7. ASSUME NEW e \in Clients, NEW z \in Sets, carried'[e] # NoSet,
             Current(carried[e])', Joining(e, z)'
      PROVE  z = carried'[e]
  <2>1. PICK X \in Sets : carried'[e] = X
    BY <1>2, <1>7
  <2>2. Current(X)'
    BY <1>7, <2>1 DEF Current
  <2> QED  BY <1>5, <1>7, <2>1, <2>2
<1> QED
  BY <1>6, <1>7 DEF Ordered

\* The one of two clients that is sent its list last was added before, if it is on
\* the other's: then it is on its own.
LEMMA NextNoGlare ==
    ASSUME TypeOK, Threads, Meet, Ordered, NoGlare, NEW c \in Clients, Step(c)
    PROVE  NoGlare'
<1>1. SUFFICES ASSUME ~torn', NEW a \in Clients, NEW b \in Clients,
                      a \in Listed(b)', b \in Listed(a)'
               PROVE  a \in Listed(a)' \/ b \in Listed(b)'
  BY DEF NoGlare
<1>2. ~torn
  BY <1>1, TornKept
\* The client c is sent its list, and e listed it before.
<1>3. ASSUME NEW e \in Clients, c \in Listed(e), carried[c] \in Sets, e \in heap[carried[c]]
      PROVE  c \in heap[carried[c]]
  <2>1. Knows(e, c) /\ Joining(e, carried[c]) /\ carried[c] # NoSet
    BY <1>3, SetAssumption DEF Knows, Joining
  <2>2. Joining(c, carried[c])
    BY <1>2, <2>1 DEF Ordered
  <2>3. pc[c] # "add"
    BY <1>3 DEF Meet, Added, Threads
  <2> QED  BY <2>2, <2>3 DEF Joining
<1>4. CASE listed'[a] = listed[a] /\ listed'[b] = listed[b]
  BY <1>1, <1>2, <1>4 DEF NoGlare, Listed
<1>5. ASSUME NEW e \in Clients, e # c, c \in Listed(e)', e \in Listed(c)',
             carried[c] \in Sets, listed'[c] = heap[carried[c]]
      PROVE  c \in Listed(c)'
  <2>1. listed'[e] = listed[e]
    BY <1>5, Frame
  <2> QED  BY <1>3, <1>5, <2>1 DEF Listed
<1>6. CASE a = b
  BY <1>1, <1>6
<1>7. CASE a # b /\ (a = c \/ b = c) /\ carried[c] \in Sets /\ listed'[c] = heap[carried[c]]
  BY <1>1, <1>5, <1>7
<1> QED
  BY <1>1, <1>4, <1>6, <1>7, ListedStep

-----------------------------------------------------------------------------
(***************************************************************************)
(* A departure is told to whom the client offered.  Unless an access went  *)
(* wrong, userRoomMap knows the room of a client from the end of onJoinRoom *)
(* to the removal in onDisconnect, so the handler that takes it out of the *)
(* call gets to its broadcast; and nobody comes back into a room.          *)
(***************************************************************************)
Recorded ==
    ~torn =>
        \A c \in Clients :
            /\ handler[c] # "aborted"
            /\ (/\ room[c] \in Rooms
                /\ Joined(c) \/ handler[c] = "leave" \/ pc[c] = "lookup")
               => userRoomMap[c] = room[c]

\* Once it has left, the set a client was to be sent is not its room's any more;
\* one that has disconnected will be sent nothing.
Retired ==
    /\ \A c \in Clients : handler[c] = "disconnect" => carried[c] = NoSet
    /\ ~torn =>
        \A c \in Clients :
            (handler[c] = "leave" /\ pc[c] \notin {"find", "copy", "store"} /\ carried[c] # NoSet)
            => ~Current(carried[c])

AllTold ==
    ~torn =>
        \A c, d \in Clients :
            (/\ handler[c] \in {"leave", "disconnect"} /\ ~Busy(c)
             /\ Knows(c, d)
             /\ d \in socketRoom[room[d]])
            => Told(d, c)

LEMMA NextRecorded ==
    ASSUME TypeOK, TypeOK', Threads, Recorded, NEW c \in Clients, Step(c)
    PROVE  Recorded'
<1>0. SUFFICES ASSUME ~torn' PROVE Recorded'
  BY DEF Recorded
<1>2. ~torn
  BY <1>0, TornKept
<1>a. ASSUME NEW d \in Clients PROVE handler'[d] # "aborted"
  <2>1. handler[d] # "aborted" /\ handler \in [Clients -> Handlers \cup {"none", "aborted"}]
    BY <1>2 DEF Recorded, TypeOK
  <2>2. ~JoinLogThrows(c)
    BY <1>0 DEF JoinLogThrows
  <2> QED
    BY <2>1, <2>2
    DEF Step, HandlerStart, HandlerStep, JoinStart, LeaveStart, DisconnectStart,
        Lookup, JoinReply, JoinEnter, JoinFetch, JoinAdd, JoinRecord,
        RemoveFind, RemoveCopy, RemoveStore, Throw, Forget, Tell, Encode, thread
<1>1. SUFFICES ASSUME NEW d \in Clients, room'[d] \in Rooms,
                      Joined(d)' \/ handler'[d] = "leave" \/ pc'[d] = "lookup"
               PROVE  userRoomMap'[d] = room'[d]
  BY <1>a DEF Recorded
<1>3. CASE d # c
  <2>1. /\ room'[d] = room[d] /\ userRoomMap'[d] = userRoomMap[d]
        /\ pc'[d] = pc[d] /\ handler'[d] = handler[d]
    BY <1>3, Frame
  <2> QED  BY <1>1, <1>2, <2>1 DEF Recorded, Joined, Busy
<1>4. CASE d = c
  <2>1. /\ handler \in [Clients -> Handlers \cup {"none", "aborted"}]
        /\ pc \in [Clients -> Steps]
        /\ room \in [Clients -> Rooms \cup {NoRoom}]
        /\ userRoomMap \in [Clients -> Rooms \cup {NoRoom}]
        /\ handler[c] = "none" => room[c] = NoRoom
    BY DEF TypeOK
  <2>2. /\ pc[c] \in {"reply", "enter", "fetch", "add", "record"} => handler[c] = "join"
        /\ pc[c] \in {"find", "copy", "store", "tell"}
              => handler[c] \in {"leave", "disconnect"}
        /\ pc[c] \in {"lookup", "forget"} => handler[c] = "disconnect"
    BY DEF Threads
  <2>15. handler[c] # "aborted"
    BY <1>2 DEF Recorded
  <2>3. (/\ room[c] \in Rooms
         /\ Joined(c) \/ handler[c] = "leave" \/ pc[c] = "lookup")
        => userRoomMap[c] = room[c]
    BY <1>2 DEF Recorded
  <2>4. ASSUME NEW r \in Rooms, JoinStart(c, r) PROVE userRoomMap'[d] = room'[d]
    BY <1>1, <1>4, <2>1, <2>4 DEF JoinStart, Goto, Joined, Busy
  <2>5. CASE JoinReply(c) \/ JoinEnter(c)
    BY <1>1, <1>4, <2>1, <2>2, <2>5 DEF JoinReply, JoinEnter, Goto, Joined, Busy
  <2>6. CASE JoinFetch(c) \/ JoinAdd(c)
    BY <1>1, <1>4, <2>1, <2>2, <2>6 DEF JoinFetch, JoinAdd, Goto, Joined, Busy
  <2>7. CASE JoinRecord(c)
    BY <1>0, <1>1, <1>4, <2>1, <2>2, <2>7 DEF JoinRecord, Kept
  <2>8. CASE LeaveStart(c)
    BY <1>1, <1>4, <2>1, <2>3, <2>8, <2>15 DEF LeaveStart, Goto, Joined, Busy, maps
  <2>9. CASE DisconnectStart(c)
    <3>1. Joined(c) \/ handler[c] \in {"leave", "none"}
      BY <2>1, <2>9, <2>15 DEF DisconnectStart, Goto, Joined, Busy, Handlers
    <3> QED  BY <1>1, <1>4, <2>1, <2>3, <2>9, <3>1 DEF DisconnectStart, maps
  <2>10. CASE Lookup(c)
    BY <1>1, <1>4, <2>1, <2>2, <2>10 DEF Lookup, Joined, Busy
  <2>11. CASE RemoveFind(c) \/ RemoveCopy(c) \/ RemoveStore(c)
    BY <1>1, <1>4, <2>1, <2>2, <2>3, <2>11
    DEF RemoveFind, RemoveCopy, RemoveStore, Goto, AfterRemoval, Joined, Busy, maps
  <2>12. CASE Throw(c) \/ JoinLogThrows(c)
    BY <1>0, <2>12 DEF Throw, JoinLogThrows
  <2>13. CASE Forget(c)
    BY <1>1, <1>4, <2>1, <2>2, <2>13 DEF Forget, Goto, Joined, Busy
  <2>14. CASE Tell(c)
    BY <1>1, <1>4, <2>1, <2>2, <2>3, <2>14 DEF Tell, Goto, Joined, Busy, maps
  <2>16. CASE Encode(c)
    BY <1>1, <1>4, <2>3, <2>16 DEF Encode, thread, maps, Joined, Busy
  <2> QED
    BY <2>16, <2>4, <2>5, <2>6, <2>7, <2>8, <2>9, <2>10, <2>11, <2>12, <2>13, <2>14
    DEF Step, HandlerStart, HandlerStep
<1> QED
  BY <1>3, <1>4

\* What onLeaveRoom leaves behind, when it is past the removal, is a room without
\* the set that its client was to be sent.
LEMMA NextRetired ==
    ASSUME TypeOK, TypeOK', Threads, SameRoom, SameRoom', Fresh, Retired,
           NEW c \in Clients, Step(c)
    PROVE  Retired'
<1>a. ASSUME NEW d \in Clients, handler'[d] = "disconnect" PROVE carried'[d] = NoSet
  <2>0. /\ carried \in [Clients -> Sets \cup {NoSet}]
        /\ handler \in [Clients -> Handlers \cup {"none", "aborted"}]
    BY DEF TypeOK
  <2>1. CASE handler[d] = "disconnect"
    <3>1. ~(d = c /\ JoinReply(c))
      BY <2>1 DEF JoinReply, Goto, Threads
    <3> QED  BY <2>1, <3>1, RefsStep DEF Retired
  <2>2. CASE handler[d] # "disconnect"
    <3>1. d = c
      BY <1>a, <2>2, Frame
    <3>2. DisconnectStart(c)
      BY <1>a, <2>0, <2>2, <3>1
      DEF Step, HandlerStart, HandlerStep, JoinStart, LeaveStart, Lookup, JoinReply,
          JoinLogThrows, JoinEnter, JoinFetch, JoinAdd, JoinRecord, RemoveFind,
          RemoveCopy, RemoveStore, Throw, Forget, Tell, Encode, thread
    <3> QED  BY <2>0, <3>1, <3>2 DEF DisconnectStart
  <2> QED  BY <2>1, <2>2
<1>1. SUFFICES ASSUME ~torn', NEW d \in Clients, handler'[d] = "leave",
                      pc'[d] \notin {"find", "copy", "store"}, carried'[d] # NoSet,
                      NEW r \in Rooms, roomClients'[r] = carried'[d]
               PROVE  FALSE
  BY <1>a DEF Retired, Current
<1>2. ~torn
  BY <1>1, TornKept
<1>3. carried \in [Clients -> Sets \cup {NoSet}] /\ carried' \in [Clients -> Sets \cup {NoSet}]
  BY DEF TypeOK
<1>4. carried'[d] = carried[d]
  <2>1. ~(d = c /\ JoinReply(c))
    BY <1>1 DEF JoinReply, Goto, Threads, TypeOK
  <2> QED  BY <1>1, <2>1, RefsStep
<1>5. roomClients[r] = carried[d]
  BY <1>1, <1>3, <1>4, RefsStep, CarriedOld
<1>6. CASE handler[d] = "leave" /\ pc[d] \notin {"find", "copy", "store"}
  BY <1>1, <1>2, <1>4, <1>5, <1>6 DEF Retired, Current
<1>7. CASE ~(handler[d] = "leave" /\ pc[d] \notin {"find", "copy", "store"})
  <2>1. d = c
    BY <1>1, <1>7, Frame
  <2>2. CASE RemoveFind(c)
    <3>1. room[c] \in Rooms /\ room[c] = r
      BY <1>1, <1>3, <1>4, <1>5, <2>1, <2>2, SetAssumption DEF SameRoom
    <3>2. PICK s \in Seen(c, roomClients[room[c]], NoSet, RoomMapWrites) :
             /\ pc' = [pc EXCEPT ![c] = IF s = NoSet THEN AfterRemoval(c) ELSE "copy"]
             /\ torn' = (torn \/ s # roomClients[room[c]])
      BY <2>2 DEF RemoveFind
    <3>3. s = roomClients[room[c]]
      BY <1>1, <3>2
    <3>4. s # NoSet
      BY <1>1, <1>4, <1>5, <3>1, <3>3
    <3>5. pc'[c] = "copy"
      BY <3>2, <3>4 DEF TypeOK
    <3> QED  BY <1>1, <2>1, <3>5
  <2>3. CASE RemoveStore(c)
    <3>1. room[c] \in Rooms /\ room[c] = r
      BY <1>1, <1>3, <1>4, <1>5, <2>1, <2>3, SetAssumption DEF SameRoom
    <3>2. PICK kept \in BOOLEAN :
             /\ roomClients' =
                   IF ~kept THEN roomClients
                   ELSE [roomClients EXCEPT ![room[c]] =
                            IF heap[ref[c]] = {} THEN NoSet ELSE <<c, handler[c]>>]
             /\ torn' = (torn \/ ~kept)
      BY <2>3 DEF RemoveStore, Kept
    <3>3. kept
      BY <1>1, <3>2
    <3>4. roomClients \in [Rooms -> Sets \cup {NoSet}]
      BY DEF TypeOK
    <3>5. roomClients'[r] \in {NoSet, <<c, handler[c]>>}
      BY <3>1, <3>2, <3>3, <3>4
    <3> QED  BY <1>1, <1>4, <2>3, <3>5, CarriedOld
  <2>4. ~Throw(c)
    BY <1>1 DEF Throw
  <2>5. CASE LeaveStart(c)
    BY <1>1, <2>1, <2>5 DEF LeaveStart, Goto, TypeOK
  <2>6. CASE Encode(c)
    BY <1>1, <1>7, <2>1, <2>6 DEF Encode, thread
  <2>7. CASE \/ \E q \in Rooms : JoinStart(c, q)
             \/ DisconnectStart(c) \/ JoinReply(c) \/ JoinLogThrows(c) \/ JoinEnter(c)
             \/ JoinFetch(c) \/ JoinAdd(c) \/ JoinRecord(c)
    BY <1>1, <2>1, <2>7
    DEF JoinStart, DisconnectStart, JoinReply, JoinLogThrows, JoinEnter, JoinFetch,
        JoinAdd, JoinRecord, Goto, Threads, TypeOK
  <2>8. CASE Lookup(c) \/ RemoveCopy(c) \/ Forget(c) \/ Tell(c)
    BY <1>1, <1>7, <2>1, <2>8
    DEF Lookup, RemoveCopy, Forget, Tell, Goto, Threads, TypeOK
  <2> QED
    BY <2>2, <2>3, <2>4, <2>5, <2>6, <2>7, <2>8 DEF Step, HandlerStart, HandlerStep
<1> QED
  BY <1>6, <1>7

LEMMA NextAllTold ==
    ASSUME TypeOK, TypeOK', Threads, Meet, SocketRooms, SocketRooms', SameRoom, Fresh,
           Recorded, Retired, AllTold, NEW c \in Clients, Step(c)
    PROVE  AllTold'
<1>1. SUFFICES ASSUME ~torn', NEW b \in Clients, NEW d \in Clients,
                      handler'[b] \in {"leave", "disconnect"}, pc'[b] = "ready",
                      Knows(b, d)', d \in socketRoom'[room'[d]]
               PROVE  Told(d, b)'
  BY DEF AllTold, Busy
<1>2. ~torn
  BY <1>1, TornKept
<1>0. carried \in [Clients -> Sets \cup {NoSet}]
  BY DEF TypeOK
\* What b knows, it knew: its packet's set is not the one c is being put into.
<1>3. Knows(b, d)
  <2>1. CASE d \in Listed(b)'
    <3>1. CASE listed'[b] = listed[b]
      BY <2>1, <3>1 DEF Knows, Listed
    <3>2. CASE b = c /\ carried[c] \in Sets /\ listed'[c] \subseteq heap[carried[c]]
      BY <2>1, <3>2, SetAssumption DEF Knows, Listed, Joining
    <3> QED  BY <3>1, <3>2, ListedStep
  <2>2. CASE carried'[b] # NoSet /\ Joining(d, carried[b])' /\ carried'[b] = carried[b]
    <3>1. carried[b] \in Sets
      BY <1>0, <2>2
    <3>2. PICK S \in Sets : carried[b] = S
      BY <3>1
    <3>3. CASE Joining(d, S)
      BY <2>2, <3>2, <3>3 DEF Knows
    <3>4. CASE ~Joining(d, S)
      <4>1. Joining(d, S)'
        BY <2>2, <3>2 DEF Joining
      <4>2. d = c /\ JoinFetch(c) /\ S = roomClients'[room[c]]
        BY <1>1, <3>2, <3>4, <4>1, JoiningStep, CarriedOld
      <4>3. room[c] \in Rooms /\ b # c
        BY <1>1, <4>2 DEF JoinFetch, Goto, TypeOK, Threads
      <4>4. Current(S)
        BY <3>2, <4>2, <4>3, CurrentStep, CarriedOld DEF Current
      <4>5. handler[b] \in {"leave", "disconnect"} /\ pc[b] = "ready"
        BY <1>1, <4>3, Frame
      <4> QED  BY <1>2, <2>2, <3>2, <4>4, <4>5 DEF Retired
    <3> QED  BY <3>3, <3>4
  <2>3. ~(b = c /\ JoinReply(c))
    BY <1>1 DEF JoinReply, Goto, TypeOK
  <2>4. carried'[b] # NoSet => carried'[b] = carried[b]
    BY <2>3, RefsStep
  <2> QED  BY <1>1, <2>1, <2>2, <2>4 DEF Knows, Joining
<1>5. /\ room[d] \in Rooms /\ room[b] = room[d]
      /\ handler[d] # "none" /\ (handler[d] = "join" => Inside(d))
  <2>1. CASE d \in Listed(b)
    BY <2>1 DEF SameRoom, Meet, Added, Inside
  <2>2. CASE carried[b] # NoSet /\ d \in heap[carried[b]]
    <3>1. carried[b] \in Sets
      BY <1>0, <2>2
    <3> QED  BY <2>2, <3>1 DEF SameRoom, Meet, Added, Inside
  <2>3. CASE carried[b] # NoSet /\ pc[d] = "add" /\ ref[d] = carried[b]
    BY <2>3 DEF SameRoom, Threads, Inside
  <2> QED  BY <1>3, <2>1, <2>2, <2>3 DEF Knows, Joining
<1>4. room'[d] = room[d]
  BY <1>5, RoomKept
<1>6. d \in socketRoom[room[d]]
  <2>1. Inside(d)'
    BY <1>1, <1>4, <1>5 DEF SocketRooms
  <2>2. Inside(d)
    <3>1. CASE d # c
      BY <2>1, <3>1, Frame DEF Inside
    <3>2. CASE d = c
      <4>1. handler[d] = "join"
        BY <1>5, <2>1, <3>2
        DEF Inside, Step, HandlerStart, HandlerStep, JoinStart, LeaveStart,
            DisconnectStart, Lookup, JoinReply, JoinLogThrows, JoinEnter, JoinFetch,
            JoinAdd, JoinRecord, RemoveFind, RemoveCopy, RemoveStore, Throw, Forget,
            Tell, Encode, thread, TypeOK
      <4> QED  BY <1>5, <4>1
    <3> QED  BY <3>1, <3>2
  <2> QED  BY <1>5, <2>2 DEF SocketRooms
\* What was told stays told.
<1>7. CASE Told(d, b)
  <2>1. PICK i \in DOMAIN inbox[d] :
           inbox[d][i] = [type |-> "userDisconnected", client |-> b]
    BY <1>7 DEF Told
  <2>2. i \in DOMAIN inbox'[d] /\ inbox'[d][i] = inbox[d][i]
    BY InboxStep
  <2> QED  BY <2>1, <2>2 DEF Told
<1>8. CASE ~(handler[b] \in {"leave", "disconnect"} /\ ~Busy(b))
  <2>1. b = c
    BY <1>1, <1>8, Frame DEF Busy
  <2>2. Tell(c) \/ Lookup(c)
    BY <1>1, <1>2, <1>8, <2>1
    DEF Step, HandlerStart, HandlerStep, JoinStart, LeaveStart, DisconnectStart,
        JoinReply, JoinLogThrows, JoinEnter, JoinFetch, JoinAdd, JoinRecord,
        RemoveFind, RemoveCopy, RemoveStore, Throw, Forget, Encode, thread,
        AfterRemoval, Goto, Busy, Threads, TypeOK
  \* onDisconnect finds the room.
  <2>3. CASE Lookup(c)
    <3>1. userRoomMap[c] = room[c]
      BY <1>2, <1>5, <2>1, <2>3 DEF Recorded, Lookup
    <3>2. PICK r : /\ pc' = [pc EXCEPT ![c] = IF r = NoRoom THEN "ready" ELSE "find"]
                   /\ torn' = (torn \/ r # userRoomMap[c])
      BY <2>3 DEF Lookup
    <3>3. userRoomMap[c] # NoRoom
      BY <1>5, <2>1, <3>1
    <3>4. r = userRoomMap[c]
      BY <1>1, <3>2
    <3>5. pc'[c] = "find"
      BY <3>2, <3>3, <3>4 DEF TypeOK
    <3> QED  BY <1>1, <2>1, <3>5
  <2>4. CASE Tell(c)
    <3>1. d \in socketRoom[room[c]]
      BY <1>5, <1>6, <2>1
    <3>2. inbox'[d] = Append(inbox[d], [type |-> "userDisconnected", client |-> c])
      BY <2>4, <3>1 DEF Tell
    <3>3. inbox[d] \in Seq(Event)
      BY DEF TypeOK
    <3>4. /\ Len(inbox[d]) + 1 \in DOMAIN inbox'[d]
          /\ inbox'[d][Len(inbox[d]) + 1] = [type |-> "userDisconnected", client |-> c]
      BY <3>2, <3>3
    <3> QED  BY <2>1, <3>4 DEF Told
  <2> QED  BY <2>2, <2>3, <2>4
<1> QED
  BY <1>2, <1>3, <1>6, <1>7, <1>8 DEF AllTold

-----------------------------------------------------------------------------

Contact ==
    /\ SocketRooms /\ SameRoom /\ Fresh
    /\ Ordered /\ NoGlare
    /\ Recorded /\ Retired /\ AllTold

LEMMA ContactInvariant == Spec => []Contact
<1>1. Init => Contact
  <2> SUFFICES ASSUME Init PROVE Contact
    OBVIOUS
  <2>1. SocketRooms
    BY DEF Init, SocketRooms, Inside
  <2>2. SameRoom
    BY DEF Init, SameRoom, Listed
  <2>3. Fresh
    BY DEF Init, Fresh, Sets, Handlers
  <2>4. Ordered /\ NoGlare
    BY DEF Init, Ordered, NoGlare, Listed
  <2>5. Recorded /\ Retired /\ AllTold
    BY DEF Init, Recorded, Retired, AllTold, Joined
  <2> QED  BY <2>1, <2>2, <2>3, <2>4, <2>5 DEF Contact
<1>2. TypeOK /\ TypeOK' /\ Threads /\ Meet /\ Contact /\ [Next]_vars => Contact'
  <2> SUFFICES ASSUME TypeOK, TypeOK', Threads, Meet, Contact, [Next]_vars PROVE Contact'
    OBVIOUS
  <2>1. CASE UNCHANGED vars
    BY <2>1 DEF vars, server, packet, maps, thread, Contact, SocketRooms, Inside,
                SameRoom, Fresh, Unused, Ordered, Knows, Joining, Current, NoGlare,
                Recorded, Retired, AllTold, Listed, Told, Joined, Busy
  <2>2. ASSUME NEW c \in Clients, Step(c) PROVE Contact'
    <3>1. SocketRooms' /\ SameRoom' /\ Fresh'
      BY <2>2, NextSocketRooms, NextSameRoom, NextFresh DEF Contact
    <3>2. Ordered' /\ NoGlare'
      BY <2>2, <3>1, NextOrdered, NextNoGlare DEF Contact
    <3>3. Recorded' /\ Retired' /\ AllTold'
      BY <2>2, <3>1, NextRecorded, NextRetired, NextAllTold DEF Contact
    <3> QED  BY <3>1, <3>2, <3>3 DEF Contact
  <2> QED  BY <2>1, <2>2 DEF Next, Step
<1> QED
  BY <1>1, <1>2, TypeCorrect, MeetInvariant, PTL DEF Spec

\* Two clients are sent each other's name only if one of them is sent its own as
\* well, however their handlers and the encoding of their lists interleave, as long
\* as no access goes wrong.
THEOREM GlareFree == Spec => []NoGlare
<1>1. Contact => NoGlare
  BY DEF Contact
<1> QED
  BY <1>1, ContactInvariant, PTL

\* A client is only told of clients of the room it asked for, although handlers
\* share sets by reference and replace them.
THEOREM ListedShareRoom == Spec => []ListedSameRoom
<1>1. Contact => ListedSameRoom
  BY DEF Contact, SameRoom, ListedSameRoom
<1> QED
  BY <1>1, ContactInvariant, PTL

\* Whom "joined" names can be reached by broadcasts to the room until it leaves:
\* it was listed after it had been added, and added after client.joinRoom.
THEOREM ListedAreReachable == Spec => []ListedReachable
<1>1. Contact /\ Meet => ListedReachable
  <2> SUFFICES ASSUME Contact, Meet, NEW c \in Clients, NEW d \in Clients,
                      d \in Listed(c), handler[d] = "join"
               PROVE  d \in socketRoom[room[d]]
    BY DEF ListedReachable
  <2>1. Inside(d) /\ room[d] \in Rooms
    BY DEF Contact, SameRoom, Meet, Added, Inside
  <2> QED  BY <2>1 DEF Contact, SocketRooms
<1> QED
  BY <1>1, ContactInvariant, MeetInvariant, PTL

\* A client that offered and is gone has been announced to those it offered to that
\* are still in the room, in every interleaving in which no access went wrong.
THEOREM CalleesAreTold == Spec => []CalleeTold
<1>1. Contact => CalleeTold
  BY DEF Contact, AllTold, Knows, CalleeTold
<1> QED
  BY <1>1, ContactInvariant, PTL

-----------------------------------------------------------------------------
(***************************************************************************)
(* One handler at a time.  Without overlap, and with no list encoded amid  *)
(* an addition, the roster follows the call step by step.                  *)
(***************************************************************************)
Single ==
    ~overlapped => \A c, d \in Clients : Busy(c) /\ Busy(d) => c = d

\* A client is sent one list: nothing waits for it once it has it.
Once ==
    \A c \in Clients :
        /\ (handler[c] = "none" \/ pc[c] = "reply") => carried[c] = NoSet /\ listed[c] = {}
        /\ carried[c] # NoSet => listed[c] = {}

\* d is on the list that c has been, or will be, sent.
Met(c, d) ==
    \/ d \in Listed(c)
    \/ carried[c] # NoSet /\ d \in heap[carried[c]]

Present(e, r) == room[e] = r /\ handler[e] = "join" /\ pc[e] \in {"record", "ready"}

Removing(e, r) == room[e] = r /\ pc[e] \in {"lookup", "find", "copy", "store"}

Serial ==
    Orderly =>
        /\ \A r \in Rooms : \A e \in Clients :
              /\ Present(e, r) => e \in Roster(r)
              /\ e \in Roster(r) => Present(e, r) \/ Removing(e, r)
        /\ \A c \in Clients :
              /\ pc[c] \in {"add", "copy", "store"} => ref[c] = roomClients[room[c]]
              /\ pc[c] = "store" => copy[c] = heap[ref[c]] \ {c}
              /\ pc[c] = "reply" => (alone[c] <=> socketRoom[room[c]] = {})
        /\ \A c, d \in Clients :
              (/\ c # d /\ room[c] = room[d]
               /\ handler[c] = "join" /\ pc[c] # "reply"
               /\ handler[d] = "join" /\ pc[d] # "reply")
              => Met(c, d) \/ Met(d, c)

\* If no handlers have overlapped up to now, the others are between two handlers
\* before and after the step.
LEMMA OthersReady ==
    ASSUME TypeOK, TypeOK', NEW c \in Clients, HandlerStart(c) \/ HandlerStep(c),
           Single, Track, ~overlapped'
    PROVE  /\ ~overlapped
           /\ \A d \in Clients \ {c} : pc[d] = "ready" /\ pc'[d] = "ready"
<1>0. Step(c)
  BY DEF Step
<1>1. ~overlapped
  BY DEF Track, TypeOK
<1>2. \A a, b \in Clients : pc'[a] # "ready" /\ pc'[b] # "ready" => a = b
  BY DEF Track, Overlap, Busy, TypeOK
<1>3. ASSUME NEW d \in Clients \ {c} PROVE pc[d] = "ready" /\ pc'[d] = "ready"
  <2>1. pc'[d] = pc[d]
    BY <1>0, <1>3, Frame
  <2>2. CASE HandlerStart(c)
    <3>1. pc'[c] # "ready"
      BY <2>2 DEF HandlerStart, JoinStart, LeaveStart, DisconnectStart, Goto, TypeOK
    <3> QED  BY <1>2, <2>1, <3>1
  <2>3. CASE HandlerStep(c)
    <3>1. pc[c] # "ready"
      BY <2>3
      DEF HandlerStep, Lookup, JoinReply, JoinLogThrows, JoinEnter, JoinFetch, JoinAdd,
          JoinRecord, RemoveFind, RemoveCopy, RemoveStore, Throw, Forget, Tell, Goto
    <3> QED  BY <1>1, <2>1, <3>1 DEF Single, Busy
  <2> QED  BY <2>2, <2>3 DEF Step
<1> QED
  BY <1>1, <1>3

\* Between two handlers a client overlaps nobody's access.
LEMMA NoTear ==
    ASSUME NEW c \in Clients, \A d \in Clients \ {c} : pc[d] = "ready"
    PROVE  /\ ~Overlaps(c, RoomMapWrites) /\ ~Overlaps(c, UserMapWrites)
           /\ \A s : ~AddsTo(c, s)
BY DEF Overlaps, AddsTo, RoomMapWrites, UserMapWrites

LEMMA NextSingle ==
    ASSUME TypeOK, TypeOK', NEW c \in Clients, Step(c), Single, Track
    PROVE  Single'
<1>1. SUFFICES ASSUME ~overlapped' PROVE Single'
  BY DEF Single
<1>2. CASE Encode(c)
  BY <1>1, <1>2 DEF Encode, thread, Track, Single, Busy, TypeOK
<1>3. CASE HandlerStart(c) \/ HandlerStep(c)
  BY <1>1, <1>3, OthersReady DEF Single, Busy
<1> QED
  BY <1>2, <1>3 DEF Step

LEMMA NextOnce ==
    ASSUME TypeOK, TypeOK', Threads, Once, NEW c \in Clients, Step(c)
    PROVE  Once'
<1>1. SUFFICES ASSUME NEW d \in Clients
               PROVE  /\ (handler'[d] = "none" \/ pc'[d] = "reply")
                            => carried'[d] = NoSet /\ listed'[d] = {}
                      /\ carried'[d] # NoSet => listed'[d] = {}
  BY DEF Once
<1>2. CASE d # c
  BY <1>2, Frame DEF Once
<1>3. CASE d = c
  <2>1. /\ handler \in [Clients -> Handlers \cup {"none", "aborted"}]
        /\ pc \in [Clients -> Steps]
        /\ carried \in [Clients -> Sets \cup {NoSet}]
        /\ listed \in [Clients -> SUBSET Clients]
        /\ handler[c] = "none" => pc[c] = "ready"
    BY DEF TypeOK
  <2>2. /\ (handler[c] = "none" \/ pc[c] = "reply") => carried[c] = NoSet /\ listed[c] = {}
        /\ carried[c] # NoSet => listed[c] = {}
    BY DEF Once
  <2>3. /\ pc[c] \in {"reply", "enter", "fetch", "add", "record"} => handler[c] = "join"
        /\ pc[c] \in {"find", "copy", "store", "tell"}
              => handler[c] \in {"leave", "disconnect"}
        /\ pc[c] \in {"lookup", "forget"} => handler[c] = "disconnect"
    BY DEF Threads
  <2>4. CASE HandlerStart(c)
    BY <1>3, <2>1, <2>2, <2>4
    DEF HandlerStart, JoinStart, LeaveStart, DisconnectStart, Goto, server, packet
  <2>5. CASE JoinReply(c)
    <3>1. pc'[c] = "enter" /\ handler'[c] = "join" /\ listed'[c] = {}
      BY <2>1, <2>2, <2>3, <2>5 DEF JoinReply, Goto
    <3> QED  BY <1>3, <3>1
  <2>6. CASE Encode(c)
    <3>1. pc'[c] # "reply" /\ handler'[c] # "none" /\ carried'[c] = NoSet
      BY <2>1, <2>2, <2>6 DEF Encode, thread
    <3> QED  BY <1>3, <3>1
  <2>7. CASE ~HandlerStart(c) /\ ~JoinReply(c) /\ ~Encode(c)
    <3>1. carried'[c] = carried[c] /\ listed'[c] = listed[c]
      BY <2>7
      DEF Step, HandlerStep, Lookup, JoinLogThrows, JoinEnter, JoinFetch, JoinAdd,
          JoinRecord, RemoveFind, RemoveCopy, RemoveStore, Throw, Forget, Tell,
          server, packet
    <3>2. pc'[c] # "reply" /\ handler'[c] # "none"
      BY <2>1, <2>3, <2>7
      DEF Step, HandlerStep, Lookup, JoinLogThrows, JoinEnter, JoinFetch, JoinAdd,
          JoinRecord, RemoveFind, RemoveCopy, RemoveStore, Throw, Forget, Tell, Goto,
          AfterRemoval
    <3> QED  BY <1>3, <2>2, <3>1, <3>2
  <2> QED  BY <2>4, <2>5, <2>6, <2>7
<1> QED  BY <1>2, <1>3

\* A set that a packet waits with only grows, and what it holds in the end is what
\* the list names.
LEMMA MetKept ==
    ASSUME TypeOK, Threads, Fresh, Once, NEW c \in Clients, Step(c), ~torn',
           NEW d \in Clients, NEW e \in Clients, Met(d, e), handler'[d] # "disconnect"
    PROVE  Met(d, e)'
<1>0. /\ carried \in [Clients -> Sets \cup {NoSet}]
      /\ heap \in [Sets -> SUBSET Clients]
      /\ ref \in [Clients -> Sets \cup {NoSet}]
      /\ handler \in [Clients -> Handlers \cup {"none", "aborted"}]
      /\ pc[c] = "add" => ref[c] \in Sets
  BY DEF TypeOK
<1>1. CASE e \in Listed(d)
  <2>1. listed'[d] = listed[d]
    BY <1>1, ListedStep, SetAssumption DEF Once, Listed
  <2> QED  BY <1>1, <2>1 DEF Met, Listed
<1>2. CASE carried[d] # NoSet /\ e \in heap[carried[d]]
  <2>1. carried[d] \in Sets
    BY <1>0, <1>2
  <2>2. CASE d = c /\ Encode(c)
    <3>1. PICK seen \in SUBSET heap[carried[c]] :
             /\ listed' = [listed EXCEPT ![c] = seen]
             /\ torn' = (torn \/ seen # heap[carried[c]])
      BY <2>2 DEF Encode
    <3>2. listed'[c] = heap[carried[c]]
      BY <3>1 DEF TypeOK
    <3> QED  BY <1>2, <2>2, <3>2 DEF Met, Listed
  <2>3. CASE ~(d = c /\ Encode(c))
    <3>1. carried'[d] = carried[d]
      <4>1. CASE d # c
        BY <4>1, Frame
      <4>2. CASE d = c /\ DisconnectStart(c)
        BY <1>0, <4>2 DEF DisconnectStart
      <4>3. CASE d = c /\ JoinReply(c)
        BY <1>2, <4>3 DEF JoinReply, Goto, Once
      <4>4. CASE d = c /\ ~DisconnectStart(c) /\ ~JoinReply(c)
        BY <2>3, <4>4
        DEF Step, HandlerStart, HandlerStep, JoinStart, LeaveStart, Lookup,
            JoinLogThrows, JoinEnter, JoinFetch, JoinAdd, JoinRecord, RemoveFind,
            RemoveCopy, RemoveStore, Throw, Forget, Tell, server, packet
      <4> QED  BY <4>1, <4>2, <4>3, <4>4
    <3>2. e \in heap'[carried[d]]
      <4>1. CASE heap' = heap
        BY <1>2, <4>1
      <4>2. CASE JoinAdd(c)
        BY <1>0, <1>2, <2>1, <4>2 DEF JoinAdd, Goto, Kept
      <4>3. CASE RemoveStore(c)
        BY <1>0, <1>2, <2>1, <4>3, CarriedOld DEF RemoveStore
      <4> QED
        BY <4>1, <4>2, <4>3
        DEF Step, HandlerStart, HandlerStep, JoinStart, LeaveStart, DisconnectStart,
            Lookup, JoinReply, JoinLogThrows, JoinEnter, JoinFetch, JoinRecord,
            RemoveFind, RemoveCopy, Throw, Forget, Tell, Encode, maps
    <3> QED  BY <1>2, <3>1, <3>2 DEF Met
  <2> QED  BY <2>2, <2>3
<1> QED  BY <1>1, <1>2 DEF Met

\* Without overlap, the addition adds the client to the roster of its room, the
\* removal takes it out, and no other step and no other room's roster changes.
LEMMA RosterStep ==
    ASSUME TypeOK, TypeOK', Threads, SameRoom, Fresh, Serial, Orderly,
           NEW c \in Clients, HandlerStart(c) \/ HandlerStep(c),
           \A d \in Clients \ {c} : pc[d] = "ready",
           NEW r \in Rooms
    PROVE  Roster(r)' = IF JoinAdd(c) /\ r = room[c] THEN Roster(r) \cup {c}
                        ELSE IF RemoveStore(c) /\ r = room[c] THEN Roster(r) \ {c}
                        ELSE Roster(r)
<1>1. /\ roomClients \in [Rooms -> Sets \cup {NoSet}]
      /\ heap \in [Sets -> SUBSET Clients]
      /\ ref \in [Clients -> Sets \cup {NoSet}]
      /\ pc[c] \in {"add", "copy", "store", "fetch"} => room[c] \in Rooms
      /\ pc[c] \in {"add", "copy", "store"} => ref[c] \in Sets
  BY DEF TypeOK
<1>2. ~Overlaps(c, RoomMapWrites) /\ \A s : ~AddsTo(c, s)
  BY NoTear
<1>3. CASE UNCHANGED <<roomClients, heap>>
  <2>1. ~JoinAdd(c)
    <3>1. ASSUME JoinAdd(c) PROVE FALSE
      <4>0. /\ pc[c] = "add" /\ ref[c] \in Sets
            /\ heap' = [heap EXCEPT ![ref[c]] = @ \cup {c}]
        BY <1>1, <1>2, <3>1 DEF JoinAdd, Goto, Kept
      <4>1. c \in heap[ref[c]] /\ pc[c] = "add" /\ ref[c] \in Sets
        BY <1>1, <1>3, <4>0
      <4>2. c \in Roster(room[c]) /\ room[c] \in Rooms
        BY <1>1, <4>1 DEF Serial, Roster
      <4> QED  BY <4>1, <4>2 DEF Serial, Present, Removing
    <3> QED  BY <3>1
  <2>2. RemoveStore(c) /\ r = room[c] => c \notin Roster(r)
    <3>1. SUFFICES ASSUME RemoveStore(c), r = room[c] PROVE c \notin Roster(r)
      OBVIOUS
    <3>2. /\ pc[c] = "store" /\ <<c, handler[c]>> \in Sets
          /\ copy[c] = heap[ref[c]] \ {c} /\ ref[c] = roomClients[room[c]]
      BY <3>1 DEF RemoveStore, Goto, Serial, Threads, Sets, Handlers
    <3>3. heap'[<<c, handler[c]>>] = copy[c]
      BY <1>1, <3>1, <3>2 DEF RemoveStore
    <3>4. roomClients' = [roomClients EXCEPT ![room[c]] =
                            IF heap[ref[c]] = {} THEN NoSet ELSE <<c, handler[c]>>]
      BY <1>2, <3>1 DEF RemoveStore, Kept
    <3>5. roomClients[r] = IF heap[ref[c]] = {} THEN NoSet ELSE <<c, handler[c]>>
      BY <1>1, <1>3, <3>1, <3>4
    <3> QED  BY <1>3, <3>1, <3>2, <3>3, <3>5 DEF Roster
  <2> QED  BY <1>3, <2>1, <2>2 DEF Roster
<1>4. CASE JoinFetch(c)
  <2>1. /\ pc[c] = "fetch" /\ room[c] \in Rooms /\ Unused(c, "join")
        /\ <<c, "join">> \in Sets /\ heap' = heap
    BY <1>1, <1>4 DEF JoinFetch, Goto, Threads, Unused, Sets, Handlers
  <2>2. heap[<<c, "join">>] = {}
    BY <2>1 DEF Fresh, Handlers
  <2>3. \/ roomClients' = roomClients
        \/ /\ roomClients[room[c]] = NoSet
           /\ roomClients' = [roomClients EXCEPT ![room[c]] = <<c, "join">>]
    BY <1>2, <1>4 DEF JoinFetch, Seen, Kept
  <2>4. ~JoinAdd(c) /\ ~RemoveStore(c)
    BY <2>1 DEF JoinAdd, RemoveStore, Goto
  <2> QED  BY <1>1, <2>1, <2>2, <2>3, <2>4, SetAssumption DEF Roster
<1>5. CASE JoinAdd(c)
  <2>1. /\ pc[c] = "add" /\ room[c] \in Rooms /\ ref[c] \in Sets
        /\ ref[c] = roomClients[room[c]] /\ roomClients' = roomClients
    BY <1>1, <1>5 DEF JoinAdd, Goto, Serial
  <2>2. heap' = [heap EXCEPT ![ref[c]] = @ \cup {c}]
    BY <1>2, <1>5 DEF JoinAdd, Kept
  <2>3. r # room[c] => roomClients[r] # ref[c]
    BY <2>1, SetAssumption DEF SameRoom
  <2>4. ~RemoveStore(c)
    BY <2>1 DEF RemoveStore, Goto
  <2> QED  BY <1>1, <1>5, <2>1, <2>2, <2>3, <2>4, SetAssumption DEF Roster
<1>6. CASE RemoveStore(c)
  <2>1. /\ pc[c] = "store" /\ room[c] \in Rooms /\ ref[c] \in Sets
        /\ ref[c] = roomClients[room[c]] /\ <<c, handler[c]>> \in Sets
        /\ copy[c] = heap[ref[c]] \ {c}
    BY <1>1, <1>6 DEF RemoveStore, Goto, Serial, Threads, Sets, Handlers
  <2>2. /\ heap' = [heap EXCEPT ![<<c, handler[c]>>] = copy[c]]
        /\ roomClients' = [roomClients EXCEPT ![room[c]] =
                             IF heap[ref[c]] = {} THEN NoSet ELSE <<c, handler[c]>>]
    BY <1>2, <1>6 DEF RemoveStore, Kept
  <2>3. r # room[c] => roomClients[r] # <<c, handler[c]>>
    BY <2>1, SetAssumption DEF SameRoom
  <2>4. ~JoinAdd(c)
    BY <2>1 DEF JoinAdd, Goto
  <2> QED  BY <1>1, <1>6, <2>1, <2>2, <2>3, <2>4, SetAssumption DEF Roster
<1> QED
  BY <1>3, <1>4, <1>5, <1>6
  DEF HandlerStart, HandlerStep, JoinStart, LeaveStart, DisconnectStart,
      Lookup, JoinReply, JoinLogThrows, JoinEnter, JoinRecord,
      RemoveFind, RemoveCopy, Throw, Forget, Tell, maps

\* What each handler has read or prepared is still true when nothing overlaps it.
LEMMA NextSerial ==
    ASSUME TypeOK, TypeOK', Threads, Threads', SocketRooms, SocketRooms', SameRoom,
           Fresh, Recorded, Single, Once, Serial, NEW c \in Clients, Step(c), Track
    PROVE  Serial'
<1>1. SUFFICES ASSUME ~overlapped', ~torn' PROVE Serial'
  BY DEF Serial, Orderly
<1>3. ~torn
  BY <1>1, TornKept
<1>13. CASE Encode(c)
  <2>1. UNCHANGED <<socketRoom, maps, thread>> /\ ~overlapped
    BY <1>1, <1>13 DEF Encode, Track, TypeOK
  <2>2. ASSUME NEW a \in Clients, NEW b \in Clients, Met(a, b), handler[a] = "join"
        PROVE  Met(a, b)'
    <3>1. handler'[a] # "disconnect"
      BY <2>1, <2>2 DEF thread
    <3> QED  BY <1>1, <2>2, <3>1, MetKept
  <2>3. \A r \in Rooms : Roster(r)' = Roster(r)
    BY <2>1 DEF Roster, maps
  <2> QED
    BY <1>3, <2>1, <2>2, <2>3 DEF Serial, Orderly, Present, Removing, thread, maps
<1>14. SUFFICES ASSUME HandlerStart(c) \/ HandlerStep(c) PROVE Serial'
  BY <1>13 DEF Step
<1>2. ~overlapped /\ \A d \in Clients \ {c} : pc[d] = "ready" /\ pc'[d] = "ready"
  BY <1>1, <1>14, OthersReady
<1>15. Orderly
  BY <1>2, <1>3 DEF Orderly
<1>4. ~Overlaps(c, RoomMapWrites) /\ ~Overlaps(c, UserMapWrites) /\ \A s : ~AddsTo(c, s)
  BY <1>2, NoTear
<1>5. \A d \in Clients \ {c} :
         handler'[d] = handler[d] /\ room'[d] = room[d]
  BY Frame
<1>6. /\ handler \in [Clients -> Handlers \cup {"none", "aborted"}]
      /\ pc \in [Clients -> Steps]
      /\ room \in [Clients -> Rooms \cup {NoRoom}]
      /\ handler[c] = "none" => pc[c] = "ready" /\ room[c] = NoRoom
      /\ pc[c] \notin {"ready", "lookup"} => room[c] \in Rooms
  BY DEF TypeOK
<1>7. /\ pc[c] \in {"reply", "enter", "fetch", "add", "record"} => handler[c] = "join"
      /\ pc[c] \in {"find", "copy", "store", "tell"} => handler[c] \in {"leave", "disconnect"}
      /\ pc[c] \in {"lookup", "forget"} => handler[c] = "disconnect"
  BY DEF Threads
<1>8. ~JoinLogThrows(c) /\ ~Throw(c)
  BY <1>4 DEF JoinLogThrows, Throw
<1>9. ASSUME NEW r \in Rooms, NEW e \in Clients
      PROVE  /\ Present(e, r)' => e \in Roster(r)'
             /\ e \in Roster(r)' => Present(e, r)' \/ Removing(e, r)'
  <2>1. /\ Present(e, r) => e \in Roster(r)
        /\ e \in Roster(r) => Present(e, r) \/ Removing(e, r)
    BY <1>15 DEF Serial
  <2>2. Roster(r)' = IF JoinAdd(c) /\ r = room[c] THEN Roster(r) \cup {c}
                     ELSE IF RemoveStore(c) /\ r = room[c] THEN Roster(r) \ {c}
                     ELSE Roster(r)
    BY <1>2, <1>14, <1>15, RosterStep
  <2>3. CASE e # c
    BY <1>2, <1>5, <2>1, <2>2, <2>3 DEF Present, Removing
  <2>4. CASE e = c
    <3>1. CASE JoinAdd(c)
      BY <1>6, <1>7, <2>1, <2>2, <2>4, <3>1 DEF JoinAdd, RemoveStore, Goto, Present, Removing
    <3>2. CASE RemoveStore(c)
      BY <1>6, <1>7, <2>1, <2>2, <2>4, <3>2
      DEF JoinAdd, RemoveStore, Goto, Present, Removing
    <3>3. CASE ~JoinAdd(c) /\ ~RemoveStore(c)
      <4>0. Roster(r)' = Roster(r)
        BY <2>2, <3>3
      <4>1. ASSUME NEW q \in Rooms, JoinStart(c, q)
            PROVE  /\ Present(e, r)' => e \in Roster(r)'
                   /\ e \in Roster(r)' => Present(e, r)' \/ Removing(e, r)'
        BY <1>6, <2>1, <2>4, <4>0, <4>1, RoomAssumption
        DEF JoinStart, Goto, Present, Removing
      <4>2. CASE JoinReply(c) \/ JoinEnter(c) \/ JoinFetch(c) \/ JoinRecord(c)
        BY <1>6, <1>7, <2>1, <2>4, <4>0, <4>2
        DEF JoinReply, JoinEnter, JoinFetch, JoinRecord, Goto, Present, Removing
      <4>3. CASE LeaveStart(c) \/ DisconnectStart(c)
        BY <1>6, <1>7, <2>1, <2>4, <4>0, <4>3
        DEF LeaveStart, DisconnectStart, Joined, Goto, Present, Removing
      <4>4. CASE Lookup(c)
        \* The room is found, so the removal goes on.
        <5>1. room[c] \in Rooms => userRoomMap[c] = room[c]
          BY <1>3, <4>4 DEF Recorded, Lookup
        <5>2. pc'[c] = IF userRoomMap[c] = NoRoom THEN "ready" ELSE "find"
          BY <1>4, <1>6, <4>4 DEF Lookup, Seen
        <5> QED
          BY <1>6, <1>7, <2>1, <2>4, <4>0, <4>4, <5>1, <5>2, RoomAssumption
          DEF Lookup, Present, Removing
      <4>5. CASE RemoveFind(c)
        <5>1. pc'[c] = IF roomClients[room[c]] = NoSet THEN AfterRemoval(c) ELSE "copy"
          BY <1>4, <1>6, <4>5 DEF RemoveFind, Seen
        <5>2. pc[c] = "find" /\ room[c] \in Rooms /\ room' = room /\ handler' = handler
          BY <1>6, <4>5 DEF RemoveFind
        <5>3. roomClients[room[c]] = NoSet => Roster(room[c]) = {}
          BY DEF Roster
        <5> QED
          BY <1>6, <1>7, <2>1, <2>4, <4>0, <5>1, <5>2, <5>3 DEF Present, Removing
      <4>6. CASE RemoveCopy(c) \/ Forget(c) \/ Tell(c)
        BY <1>6, <1>7, <2>1, <2>4, <4>0, <4>6
        DEF RemoveCopy, Forget, Tell, Goto, Present, Removing
      <4> QED
        BY <1>8, <1>14, <3>3, <4>1, <4>2, <4>3, <4>4, <4>5, <4>6
        DEF HandlerStart, HandlerStep
    <3> QED  BY <3>1, <3>2, <3>3
  <2> QED  BY <2>3, <2>4
<1>10. ASSUME NEW d \in Clients
       PROVE  /\ pc'[d] \in {"add", "copy", "store"} => ref'[d] = roomClients'[room'[d]]
              /\ pc'[d] = "store" => copy'[d] = heap'[ref'[d]] \ {d}
              /\ pc'[d] = "reply" => (alone'[d] <=> socketRoom'[room'[d]] = {})
  <2>1. CASE d # c
    BY <1>2, <2>1
  <2>2. CASE d = c
    <3>0. /\ pc[c] = "copy" => ref[c] = roomClients[room[c]]
          /\ roomClients \in [Rooms -> Sets \cup {NoSet}]
          /\ ref \in [Clients -> Sets \cup {NoSet}]
          /\ copy \in [Clients -> SUBSET Clients]
          /\ alone \in [Clients -> BOOLEAN]
      BY <1>15 DEF Serial, TypeOK
    <3>1. ASSUME NEW r \in Rooms, JoinStart(c, r)
          PROVE  pc'[c] = "reply" /\ (alone'[c] <=> socketRoom'[room'[c]] = {})
      BY <1>6, <3>0, <3>1 DEF JoinStart, Goto, server
    <3>2. CASE JoinFetch(c)
      <4>1. ref'[c] = roomClients'[room'[c]]
        BY <1>4, <1>6, <3>0, <3>2 DEF JoinFetch, Seen, Kept, Goto
      <4> QED  BY <1>6, <2>2, <3>2, <4>1 DEF JoinFetch, Goto
    <3>3. CASE RemoveFind(c)
      <4>1. ref'[c] = roomClients[room[c]] /\ roomClients' = roomClients /\ room' = room
        BY <1>4, <1>6, <3>0, <3>3 DEF RemoveFind, Seen, maps
      <4>2. pc'[c] \in {"copy", "tell", "forget"}
        BY <1>6, <3>3 DEF RemoveFind, AfterRemoval
      <4> QED  BY <2>2, <4>1, <4>2
    <3>4. CASE RemoveCopy(c)
      BY <1>6, <2>2, <3>0, <3>4 DEF RemoveCopy, Goto, maps
    <3>5. CASE ~(\/ \E r \in Rooms : JoinStart(c, r)
                 \/ JoinFetch(c) \/ RemoveFind(c) \/ RemoveCopy(c))
      <4>1. pc'[c] \notin {"add", "copy", "store", "reply"}
        BY <1>6, <1>8, <1>14, <3>5
        DEF HandlerStart, HandlerStep, LeaveStart, DisconnectStart,
            Lookup, JoinReply, JoinEnter, JoinAdd, JoinRecord,
            RemoveStore, Forget, Tell, Goto, AfterRemoval
      <4> QED  BY <2>2, <4>1
    <3> QED  BY <2>2, <3>1, <3>2, <3>3, <3>4, <3>5
  <2> QED  BY <2>1, <2>2
\* The set that the client takes holds everybody who is there.
<1>11. ASSUME JoinReply(c), NEW d \in Clients, d # c, room[d] = room[c],
              handler[d] = "join"
       PROVE  Met(c, d)'
  <2>1. /\ pc[c] = "reply" /\ pc[d] = "ready" /\ room[c] \in Rooms
        /\ alone[c] <=> socketRoom[room[c]] = {}
    BY <1>2, <1>6, <1>11, <1>15 DEF JoinReply, Goto, Serial
  <2>2. d \in Roster(room[c]) /\ d \in socketRoom[room[c]]
    BY <1>11, <1>15, <2>1 DEF Serial, Present, SocketRooms, Inside
  <2>3. ~alone[c]
    BY <2>1, <2>2
  <2>4. roomClients[room[c]] # NoSet /\ d \in heap[roomClients[room[c]]]
    BY <2>2 DEF Roster
  <2>5. carried' = [carried EXCEPT ![c] = roomClients[room[c]]] /\ heap' = heap
    BY <1>4, <1>11, <2>3 DEF JoinReply, Seen, maps
  <2>6. carried'[c] = roomClients[room[c]]
    BY <2>5 DEF TypeOK
  <2> QED  BY <2>4, <2>5, <2>6 DEF Met
<1>12. ASSUME NEW a \in Clients, NEW b \in Clients, a # b, room'[a] = room'[b],
              handler'[a] = "join", pc'[a] # "reply",
              handler'[b] = "join", pc'[b] # "reply"
       PROVE  Met(a, b)' \/ Met(b, a)'
  <2>1. ASSUME NEW d \in Clients, handler'[d] = "join", pc'[d] # "reply"
        PROVE  /\ handler[d] = "join" /\ room[d] = room'[d]
               /\ pc[d] = "reply" => d = c /\ JoinReply(c)
    <3>1. CASE d # c
      BY <1>2, <1>5, <2>1, <3>1
    <3>2. CASE d = c
      <4>1. \A r \in Rooms : ~JoinStart(c, r)
        BY <1>6, <2>1, <3>2 DEF JoinStart, Goto
      <4> QED
        BY <1>6, <1>8, <1>14, <2>1, <3>2, <4>1
        DEF HandlerStart, HandlerStep, LeaveStart, DisconnectStart,
            Lookup, JoinReply, JoinEnter, JoinFetch, JoinAdd, JoinRecord,
            RemoveFind, RemoveCopy, RemoveStore, Forget, Tell, Goto
    <3> QED  BY <3>1, <3>2
  <2>2. handler[a] = "join" /\ handler[b] = "join" /\ room[a] = room[b]
    BY <1>12, <2>1
  <2>3. CASE pc[a] = "reply" \/ pc[b] = "reply"
    <3>1. CASE a = c /\ JoinReply(c)
      BY <1>11, <1>12, <2>2, <3>1
    <3>2. CASE b = c /\ JoinReply(c)
      BY <1>11, <1>12, <2>2, <3>2
    <3> QED  BY <1>12, <2>1, <2>3, <3>1, <3>2
  <2>4. CASE pc[a] # "reply" /\ pc[b] # "reply"
    <3>1. Met(a, b) \/ Met(b, a)
      BY <1>12, <1>15, <2>2, <2>4 DEF Serial
    <3> QED  BY <1>1, <1>12, <3>1, MetKept
  <2> QED  BY <2>3, <2>4
<1> QED
  BY <1>9, <1>10, <1>12 DEF Serial

LEMMA SerialInvariant == Spec => [](Single /\ Once /\ Serial)
<1>1. Init => Single /\ Once /\ Serial
  <2> SUFFICES ASSUME Init PROVE Single /\ Once /\ Serial
    OBVIOUS
  <2>1. Single
    BY DEF Init, Single, Busy
  <2>2. Once
    BY DEF Init, Once
  <2>3. Serial
    BY DEF Init, Serial, Present, Roster
  <2> QED  BY <2>1, <2>2, <2>3
<1>2. TypeOK /\ TypeOK' /\ Threads /\ Threads' /\ Contact /\ Contact'
      /\ Single /\ Once /\ Serial /\ [Next]_vars => (Single /\ Once /\ Serial)'
  <2> SUFFICES ASSUME TypeOK, TypeOK', Threads, Threads', Contact, Contact',
                      Single, Once, Serial, [Next]_vars
               PROVE  (Single /\ Once /\ Serial)'
    OBVIOUS
  <2>1. CASE UNCHANGED vars
    BY <2>1 DEF vars, server, packet, maps, thread, Single, Busy, Once, Serial, Orderly,
                Met, Present, Removing, Roster, Listed
  <2>2. ASSUME NEW c \in Clients, Step(c), Track PROVE (Single /\ Once /\ Serial)'
    <3>1. Single'
      BY <2>2, NextSingle
    <3>2. Once'
      BY <2>2, NextOnce
    <3>3. Serial'
      BY <2>2, NextSerial DEF Contact
    <3> QED  BY <3>1, <3>2, <3>3
  <2> QED  BY <2>1, <2>2 DEF Next, Step
<1> QED
  BY <1>1, <1>2, TypeCorrect, MeetInvariant, ContactInvariant, PTL DEF Spec

\* One handler at a time, the three registries of a call agree: the RoomManager's
\* roster, the socket server's room and the clients in the call, each of them with its
\* room in userRoomMap.
THEOREM RosterExactIfSerial == Spec => []SerialRosterExact
<1>1. TypeOK /\ Contact /\ Serial => SerialRosterExact
  <2> SUFFICES ASSUME TypeOK, Contact, Serial, Orderly, Quiet, NEW r \in Rooms
               PROVE  /\ Roster(r) = InCall(r)
                      /\ socketRoom[r] = InCall(r)
                      /\ \A c \in InCall(r) : userRoomMap[c] = r
    BY DEF SerialRosterExact
  <2>1. \A c \in Clients : pc[c] = "ready"
    BY DEF Quiet, Busy
  <2>2. Roster(r) \subseteq Clients
    BY DEF Roster, TypeOK
  <2>3. Roster(r) = InCall(r)
    BY <2>1, <2>2 DEF Serial, Present, Removing, InCall, Joined, Busy
  <2>4. socketRoom[r] = InCall(r)
    BY <2>1 DEF Contact, SocketRooms, Inside, InCall, Joined, Busy
  <2>5. \A c \in InCall(r) : userRoomMap[c] = r
    BY DEF Contact, Recorded, Orderly, InCall
  <2> QED  BY <2>3, <2>4, <2>5
<1> QED
  BY <1>1, TypeCorrect, ContactInvariant, SerialInvariant, PTL

\* ... and the call is a full mesh: of every two clients one was asked to offer.
THEOREM MeshIfSerial == Spec => []SerialMesh
<1>1. Serial => SerialMesh
  BY DEF Serial, SerialMesh, Met, InCall, Joined, Busy
<1> QED
  BY <1>1, SerialInvariant, PTL
=============================================================================
