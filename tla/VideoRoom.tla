------------------------------ MODULE VideoRoom ------------------------------
(***************************************************************************)
(* The room membership of the group video call server: the handlers        *)
(* onJoinRoom, onLeaveRoom and onDisconnect of GroupVideoCallSocketHandler *)
(* and the RoomManager they share.                                         *)
(*                                                                         *)
(* None of the three handlers is synchronized.  The socket server runs the *)
(* handlers of one client one after the other and those of two clients in  *)
(* two threads, so each client has a program counter and the handlers are  *)
(* cut where they read or write state another client's handler touches.    *)
(*                                                                         *)
(* RoomManager keeps a HashSet per room in a HashMap.  An addition changes *)
(* the set in place, a removal replaces it by a filtered copy, so the      *)
(* identity of a set matters: sets live in "heap" and are named after the  *)
(* handler run that allocates them.  onJoinRoom passes the set itself to   *)
(* sendEvent, and the socket server encodes it when the client's poll      *)
(* takes the packet: "carried" is the set a packet waits with, "listed"    *)
(* what the client was sent.                                               *)
(*                                                                         *)
(* userRoomMap, the map of rooms and the sets have no synchronization.  An *)
(* access that overlaps a write of another thread may also miss an entry,  *)
(* be lost or throw ConcurrentModificationException; "torn" records that   *)
(* one of these outcomes happened.                                         *)
(***************************************************************************)
EXTENDS Naturals, Sequences

CONSTANTS
    Clients,    \* session identifiers; a reconnection gets a new one
    Rooms,      \* room names, "channel_<id>"
    NoRoom,     \* null, where userRoomMap has no entry
    NoSet       \* null, where the RoomManager has no entry

Handlers == {"join", "leave", "disconnect"}

Steps == {"ready", "reply", "enter", "fetch", "add", "record",
          "lookup", "find", "copy", "store", "forget", "tell"}

\* The HashSet objects: a client runs each handler at most once, and a run
\* allocates at most one set.
Sets == Clients \X Handlers

ASSUME RoomAssumption == NoRoom \notin Rooms
ASSUME SetAssumption == NoSet \notin Sets

VARIABLES
    \* The socket server
    socketRoom,     \* clients in each of the server's own rooms
    inbox,          \* events sent to each client, oldest first
    carried,        \* the set of a "joined" that has not been encoded
    listed,         \* the clients of the "joined" that has been
    \* GroupVideoCallSocketHandler and RoomManager
    userRoomMap,
    roomClients,
    heap,           \* contents of the HashSet objects
    \* The thread of each client
    handler,        \* the handler it runs, or the one it ran last; "aborted"
                    \* for an onJoinRoom that threw before it joined the room
    pc,             \* its next step, "ready" between two handlers
    room,           \* the room of the client's call
    alone,          \* connectedClients == 0, as read by onJoinRoom
    ref,            \* the set a RoomManager call works on
    copy,           \* updatedClients of removeClientFromRoom
    \* History
    torn,           \* an unsynchronized access went wrong
    overlapped      \* handlers of two clients have overlapped in time

packet == <<carried, listed>>
server == <<socketRoom, inbox, packet>>
maps == <<userRoomMap, roomClients, heap>>
thread == <<handler, pc, room, alone, ref, copy>>
vars == <<server, maps, thread, torn, overlapped>>

Event == [type : {"created", "joined"}]
         \cup [type : {"userDisconnected"}, client : Clients]

\* The type of every variable, and what a thread may rely on at a step: the
\* RoomManager works on a room that exists and on a set that is not null, and
\* userRoomMap knows a client under the room it joined or not at all.
TypeOK ==
    /\ socketRoom \in [Rooms -> SUBSET Clients]
    /\ inbox \in [Clients -> Seq(Event)]
    /\ carried \in [Clients -> Sets \cup {NoSet}]
    /\ listed \in [Clients -> SUBSET Clients]
    /\ userRoomMap \in [Clients -> Rooms \cup {NoRoom}]
    /\ roomClients \in [Rooms -> Sets \cup {NoSet}]
    /\ heap \in [Sets -> SUBSET Clients]
    /\ handler \in [Clients -> Handlers \cup {"none", "aborted"}]
    /\ pc \in [Clients -> Steps]
    /\ room \in [Clients -> Rooms \cup {NoRoom}]
    /\ alone \in [Clients -> BOOLEAN]
    /\ ref \in [Clients -> Sets \cup {NoSet}]
    /\ copy \in [Clients -> SUBSET Clients]
    /\ torn \in BOOLEAN
    /\ overlapped \in BOOLEAN
    /\ \A c \in Clients :
          /\ pc[c] \notin {"ready", "lookup"} => room[c] \in Rooms
          /\ pc[c] \in {"add", "copy", "store"} => ref[c] \in Sets
          /\ userRoomMap[c] \in {NoRoom, room[c]}
          /\ handler[c] \in {"join", "aborted", "leave"} => room[c] \in Rooms
          /\ handler[c] \in {"none", "aborted"} => pc[c] = "ready"
          /\ handler[c] = "none" => room[c] = NoRoom

Init ==
    /\ socketRoom = [r \in Rooms |-> {}]
    /\ inbox = [c \in Clients |-> <<>>]
    /\ carried = [c \in Clients |-> NoSet]
    /\ listed = [c \in Clients |-> {}]
    /\ userRoomMap = [c \in Clients |-> NoRoom]
    /\ roomClients = [r \in Rooms |-> NoSet]
    /\ heap = [s \in Sets |-> {}]
    /\ handler = [c \in Clients |-> "none"]
    /\ pc = [c \in Clients |-> "ready"]
    /\ room = [c \in Clients |-> NoRoom]
    /\ alone = [c \in Clients |-> FALSE]
    /\ ref = [c \in Clients |-> NoSet]
    /\ copy = [c \in Clients |-> {}]
    /\ torn = FALSE
    /\ overlapped = FALSE

-----------------------------------------------------------------------------
(* Threads, and accesses that overlap.                                     *)

Goto(c, from, to) ==
    /\ pc[c] = from
    /\ pc' = [pc EXCEPT ![c] = to]

Busy(c) == pc[c] # "ready"

Joined(c) == handler[c] = "join" /\ ~Busy(c)

\* Another client's thread is at one of the steps in W.
Overlaps(c, W) == \E d \in Clients \ {c} : pc[d] \in W

UserMapWrites == {"record", "forget"}
RoomMapWrites == {"fetch", "store"}

\* Another client's thread is adding to the set s in place.
AddsTo(c, s) == \E d \in Clients \ {c} : pc[d] = "add" /\ ref[d] = s

\* Any thread is: the set is walked by a thread that runs no handler.
Adding(s) == \E d \in Clients : pc[d] = "add" /\ ref[d] = s

\* What reading the entry v of a HashMap returns: v, or the "null" of a reader
\* that finds the table being rebuilt by a writer.
Seen(c, v, null, W) == {v} \cup (IF Overlaps(c, W) THEN {null} ELSE {})

\* Whether a write survives: it may be lost to one it overlaps.
Kept(overlap) == IF overlap THEN BOOLEAN ELSE {TRUE}

-----------------------------------------------------------------------------
(* onJoinRoom                                                              *)

\* RoomManager.getClientsInRoom
Roster(r) == IF roomClients[r] = NoSet THEN {} ELSE heap[roomClients[r]]

\* The handler starts: the room of the payload, and the number of its clients.
JoinStart(c, r) ==
    /\ handler[c] = "none"
    /\ Goto(c, "ready", "reply")
    /\ handler' = [handler EXCEPT ![c] = "join"]
    /\ room' = [room EXCEPT ![c] = r]
    /\ alone' = [alone EXCEPT ![c] = (socketRoom[r] = {})]
    /\ UNCHANGED <<server, maps, ref, copy, torn>>

Send(c, e) == inbox' = [inbox EXCEPT ![c] = Append(@, e)]

\* Mutant: "joined" carries the sets of every room.
JoinReplyAnyRoom(c) ==
    /\ Goto(c, "reply", "enter")
    /\ Send(c, [type |-> IF alone[c] THEN "created" ELSE "joined"])
    /\ carried' \in {[carried EXCEPT ![c] = roomClients[r]] : r \in Rooms}
    /\ alone' = [alone EXCEPT ![c] = FALSE]
    /\ UNCHANGED <<socketRoom, listed, maps, handler, room, ref, copy, torn>>

\* "created" to the first client of a room, to others "joined" with the room's
\* set, as getClientsInRoom returns it; the shared emptySet lists nobody.
JoinReply(c) ==
    /\ Goto(c, "reply", "enter")
    /\ Send(c, [type |-> IF alone[c] THEN "created" ELSE "joined"])
    /\ \/ alone[c] /\ UNCHANGED <<carried, torn>>
       \/ /\ ~alone[c]
          /\ \E s \in Seen(c, roomClients[room[c]], NoSet, RoomMapWrites) :
                /\ carried' = [carried EXCEPT ![c] = s]
                /\ torn' = (torn \/ s # roomClients[room[c]])
    /\ alone' = [alone EXCEPT ![c] = FALSE]
    /\ UNCHANGED <<socketRoom, listed, maps, handler, room, ref, copy>>

\* The log line before the event iterates the set: an addition in the meantime
\* makes it throw, and the handler ends before it sends or joins anything.
JoinLogThrows(c) ==
    /\ Goto(c, "reply", "ready")
    /\ ~alone[c]
    /\ roomClients[room[c]] # NoSet
    /\ AddsTo(c, roomClients[room[c]])
    /\ handler' = [handler EXCEPT ![c] = "aborted"]
    /\ torn' = TRUE
    /\ UNCHANGED <<server, maps, room, alone, ref, copy>>

\* Mutant: the list is put together from the room's set of now.
EncodeCurrent(c) ==
    /\ carried[c] # NoSet
    /\ listed' = [listed EXCEPT ![c] = Roster(room[c])]
    /\ carried' = [carried EXCEPT ![c] = NoSet]
    /\ UNCHANGED <<socketRoom, inbox, maps, thread, torn>>

\* The packet is encoded, on a thread of the transport: the list is what the
\* set holds by then.  Where a client is being added to the set, some clients
\* may be missed, and where that makes the encoder throw nothing is sent.
Encode(c) ==
    /\ carried[c] # NoSet
    /\ \E seen \in SUBSET heap[carried[c]] :
          /\ seen = heap[carried[c]] \/ Adding(carried[c])
          /\ listed' = [listed EXCEPT ![c] = seen]
          /\ torn' = (torn \/ seen # heap[carried[c]])
    /\ carried' = [carried EXCEPT ![c] = NoSet]
    /\ UNCHANGED <<socketRoom, inbox, maps, thread>>

\* Mutant: only the client that creates the room joins it on the server.
JoinEnterCreator(c) ==
    /\ Goto(c, "enter", "fetch")
    /\ socketRoom' = [socketRoom EXCEPT ![room[c]] = IF @ = {} THEN {c} ELSE @]
    /\ UNCHANGED <<inbox, packet, maps, handler, room, alone, ref, copy, torn>>

\* client.joinRoom
JoinEnter(c) ==
    /\ Goto(c, "enter", "fetch")
    /\ socketRoom' = [socketRoom EXCEPT ![room[c]] = @ \cup {c}]
    /\ UNCHANGED <<inbox, packet, maps, handler, room, alone, ref, copy, torn>>

\* addClientToRoom, first half: computeIfAbsent finds the room's set or puts a
\* new one.
JoinFetch(c) ==
    /\ Goto(c, "fetch", "add")
    /\ \E s \in Seen(c, roomClients[room[c]], NoSet, RoomMapWrites) :
          \/ /\ s # NoSet
             /\ ref' = [ref EXCEPT ![c] = s]
             /\ UNCHANGED <<roomClients, torn>>
          \/ /\ s = NoSet
             /\ ref' = [ref EXCEPT ![c] = <<c, "join">>]
             /\ \E kept \in Kept(Overlaps(c, RoomMapWrites)) :
                   /\ roomClients' = IF kept
                         THEN [roomClients EXCEPT ![room[c]] = <<c, "join">>]
                         ELSE roomClients
                   /\ torn' = (torn \/ ~kept \/ s # roomClients[room[c]])
    /\ UNCHANGED <<server, userRoomMap, heap, handler, room, alone, copy>>

\* addClientToRoom, second half: the addition, in place.
JoinAdd(c) ==
    /\ Goto(c, "add", "record")
    /\ \E kept \in Kept(AddsTo(c, ref[c])) :
          /\ heap' = IF kept THEN [heap EXCEPT ![ref[c]] = @ \cup {c}] ELSE heap
          /\ torn' = (torn \/ ~kept)
    /\ ref' = [ref EXCEPT ![c] = NoSet]
    /\ UNCHANGED <<server, userRoomMap, roomClients, handler, room, alone, copy>>

\* Mutant: the client is not recorded in userRoomMap.
JoinRecordNothing(c) ==
    /\ Goto(c, "record", "ready")
    /\ UNCHANGED <<server, maps, handler, room, alone, ref, copy, torn>>

\* userRoomMap.put
JoinRecord(c) ==
    /\ Goto(c, "record", "ready")
    /\ \E kept \in Kept(Overlaps(c, UserMapWrites)) :
          /\ userRoomMap' = IF kept THEN [userRoomMap EXCEPT ![c] = room[c]]
                                    ELSE userRoomMap
          /\ torn' = (torn \/ ~kept)
    /\ UNCHANGED <<server, roomClients, heap, handler, room, alone, ref, copy>>

-----------------------------------------------------------------------------
(* onLeaveRoom and onDisconnect, up to their call of removeClientFromRoom  *)

\* onLeaveRoom: client.leaveRoom.  The browser sends leaveRoom from the call's
\* page only, and disconnects right after it.
LeaveStart(c) ==
    /\ handler[c] \in {"join", "aborted"}
    /\ Goto(c, "ready", "find")
    /\ handler' = [handler EXCEPT ![c] = "leave"]
    /\ socketRoom' = [socketRoom EXCEPT ![room[c]] = @ \ {c}]
    /\ UNCHANGED <<inbox, packet, maps, room, alone, ref, copy, torn>>

\* The socket server takes a client that is gone out of its own rooms, with
\* what waits to be sent to it, then calls onDisconnect.
DisconnectStart(c) ==
    /\ handler[c] # "disconnect"
    /\ Goto(c, "ready", "lookup")
    /\ handler' = [handler EXCEPT ![c] = "disconnect"]
    /\ socketRoom' = [r \in Rooms |-> socketRoom[r] \ {c}]
    /\ carried' = [carried EXCEPT ![c] = NoSet]
    /\ UNCHANGED <<inbox, listed, maps, room, alone, ref, copy, torn>>

\* onDisconnect: userRoomMap.get.  Without a room the handler returns; the room
\* it finds is the one the client joined.
Lookup(c) ==
    /\ pc[c] = "lookup"
    /\ \E r \in Seen(c, userRoomMap[c], NoRoom, UserMapWrites) :
          /\ pc' = [pc EXCEPT ![c] = IF r = NoRoom THEN "ready" ELSE "find"]
          /\ torn' = (torn \/ r # userRoomMap[c])
    /\ UNCHANGED <<server, maps, handler, room, alone, ref, copy>>

-----------------------------------------------------------------------------
(* removeClientFromRoom                                                    *)

AfterRemoval(c) == IF handler[c] = "leave" THEN "tell" ELSE "forget"

\* Mutant: without the test for null.
RemoveFindUnchecked(c) ==
    /\ Goto(c, "find", "copy")
    /\ ref' = [ref EXCEPT ![c] = roomClients[room[c]]]
    /\ UNCHANGED <<server, maps, handler, room, alone, copy, torn>>

\* roomClients.get.  Without an entry there is nothing to remove.
RemoveFind(c) ==
    /\ pc[c] = "find"
    /\ \E s \in Seen(c, roomClients[room[c]], NoSet, RoomMapWrites) :
          /\ pc' = [pc EXCEPT ![c] = IF s = NoSet THEN AfterRemoval(c) ELSE "copy"]
          /\ ref' = [ref EXCEPT ![c] = s]
          /\ torn' = (torn \/ s # roomClients[room[c]])
    /\ UNCHANGED <<server, maps, handler, room, alone, copy>>

\* Mutant: the copy is not filtered.
RemoveCopyAll(c) ==
    /\ Goto(c, "copy", "store")
    /\ copy' = [copy EXCEPT ![c] = heap[ref[c]]]
    /\ UNCHANGED <<server, maps, handler, room, alone, ref, torn>>

\* The filtered copy, collected from the set found before.
RemoveCopy(c) ==
    /\ Goto(c, "copy", "store")
    /\ copy' = [copy EXCEPT ![c] = heap[ref[c]] \ {c}]
    /\ UNCHANGED <<server, maps, handler, room, alone, ref, torn>>

\* Mutant: the entry goes unless the set is empty.
RemoveStoreInverted(c) ==
    /\ Goto(c, "store", AfterRemoval(c))
    /\ roomClients' = [roomClients EXCEPT ![room[c]] =
                         IF heap[ref[c]] # {} THEN NoSet ELSE <<c, handler[c]>>]
    /\ heap' = [heap EXCEPT ![<<c, handler[c]>>] = copy[c]]
    /\ ref' = [ref EXCEPT ![c] = NoSet]
    /\ copy' = [copy EXCEPT ![c] = {}]
    /\ UNCHANGED <<server, userRoomMap, handler, room, alone, torn>>

\* The copy replaces the room's set, unless the set it was made from is empty:
\* then the entry goes.
RemoveStore(c) ==
    /\ Goto(c, "store", AfterRemoval(c))
    /\ \E kept \in Kept(Overlaps(c, RoomMapWrites)) :
          /\ roomClients' =
                IF ~kept THEN roomClients
                ELSE [roomClients EXCEPT ![room[c]] =
                         IF heap[ref[c]] = {} THEN NoSet ELSE <<c, handler[c]>>]
          /\ torn' = (torn \/ ~kept)
    /\ heap' = [heap EXCEPT ![<<c, handler[c]>>] = copy[c]]
    /\ ref' = [ref EXCEPT ![c] = NoSet]
    /\ copy' = [copy EXCEPT ![c] = {}]
    /\ UNCHANGED <<server, userRoomMap, handler, room, alone>>

\* computeIfAbsent and the stream of the copy throw when a writer changes what
\* they walk; the rest of the handler is skipped.
Throw(c) ==
    /\ \/ pc[c] = "fetch" /\ Overlaps(c, RoomMapWrites)
       \/ pc[c] = "copy" /\ AddsTo(c, ref[c])
    /\ pc' = [pc EXCEPT ![c] = "ready"]
    /\ ref' = [ref EXCEPT ![c] = NoSet]
    /\ torn' = TRUE
    /\ UNCHANGED <<server, maps, handler, room, alone, copy>>

-----------------------------------------------------------------------------
(* The rest of onLeaveRoom and onDisconnect                                *)

\* onDisconnect: userRoomMap.remove.  onLeaveRoom leaves the entry.
Forget(c) ==
    /\ Goto(c, "forget", "tell")
    /\ \E kept \in Kept(Overlaps(c, UserMapWrites)) :
          /\ userRoomMap' = IF kept THEN [userRoomMap EXCEPT ![c] = NoRoom]
                                    ELSE userRoomMap
          /\ torn' = (torn \/ ~kept)
    /\ UNCHANGED <<server, roomClients, heap, handler, room, alone, ref, copy>>

\* Mutant: onLeaveRoom does not send the event.
TellOnDisconnect(c) ==
    /\ Goto(c, "tell", "ready")
    /\ inbox' = [d \in Clients |->
                    IF d \in socketRoom[room[c]] /\ handler[c] = "disconnect"
                    THEN Append(inbox[d], [type |-> "userDisconnected", client |-> c])
                    ELSE inbox[d]]
    /\ UNCHANGED <<socketRoom, packet, maps, handler, room, alone, ref, copy, torn>>

\* "userDisconnected" to the clients of the server's room.
Tell(c) ==
    /\ Goto(c, "tell", "ready")
    /\ inbox' = [d \in Clients |->
                    IF d \in socketRoom[room[c]]
                    THEN Append(inbox[d], [type |-> "userDisconnected", client |-> c])
                    ELSE inbox[d]]
    /\ UNCHANGED <<socketRoom, packet, maps, handler, room, alone, ref, copy, torn>>

-----------------------------------------------------------------------------

\* The steps of a handler that has started.
HandlerStep(c) ==
    \/ JoinReply(c) \/ JoinLogThrows(c) \/ JoinEnter(c) \/ JoinFetch(c)
    \/ JoinAdd(c) \/ JoinRecord(c)
    \/ Lookup(c) \/ RemoveFind(c) \/ RemoveCopy(c) \/ RemoveStore(c) \/ Throw(c)
    \/ Forget(c) \/ Tell(c)

HandlerStart(c) ==
    \/ \E r \in Rooms : JoinStart(c, r)
    \/ LeaveStart(c)
    \/ DisconnectStart(c)

Overlap == \E c, d \in Clients : c # d /\ Busy(c) /\ Busy(d)

Track == overlapped' = (overlapped \/ Overlap')

Next == \E c \in Clients : (HandlerStart(c) \/ HandlerStep(c) \/ Encode(c)) /\ Track

Spec == Init /\ [][Next]_vars

\* A handler that has started runs on: nothing in it waits.
FairSpec == Spec /\ \A c \in Clients : WF_vars(HandlerStep(c) /\ Track)

-----------------------------------------------------------------------------
(* Properties                                                              *)

\* The clients a client's "joined" event named.  Its browser offers a
\* connection to each of them but itself.
Listed(c) == listed[c]

Told(c, d) ==
    \E i \in DOMAIN inbox[c] :
        inbox[c][i] = [type |-> "userDisconnected", client |-> d]

InCall(r) == {c \in Clients : Joined(c) /\ room[c] = r}

Quiet == \A c \in Clients : ~Busy(c)

\* Two clients are asked to offer to each other only where one of them is on its
\* own list as well, unless an access went wrong: onJoinRoom takes the set
\* before it adds the client to it, so a list can only name a client that in
\* turn is sent this one if it was encoded after its own client's addition.
NoGlare ==
    ~torn =>
        \A c, d \in Clients :
            (c \in Listed(d) /\ d \in Listed(c)) => (c \in Listed(c) \/ d \in Listed(d))

\* "joined" names clients of the client's own room only, although sets are
\* shared between threads and replaced.
ListedSameRoom == \A c \in Clients : \A d \in Listed(c) : room[d] = room[c]

\* A client that is listed to a newcomer is in the socket server's room for as
\* long as it stays in the call: onJoinRoom joins that room before it adds the
\* client to the roster, so what is sent to the room reaches it.
ListedReachable ==
    \A c, d \in Clients :
        (d \in Listed(c) /\ handler[d] = "join") => d \in socketRoom[room[d]]

\* When a client that offered connections is gone, those it offered to and
\* that are still in the room have been told, however handlers interleave.
CalleeTold ==
    \A c, d \in Clients :
        (/\ ~torn
         /\ handler[c] \in {"leave", "disconnect"} /\ ~Busy(c)
         /\ d \in Listed(c)
         /\ d \in socketRoom[room[d]])
        => Told(d, c)

\* No two handlers have overlapped, and no list was encoded amid an addition.
Orderly == ~overlapped /\ ~torn

\* Then the roster, the socket server's room and the clients in the call agree
\* between handlers, and userRoomMap has an entry for each of them.
SerialRosterExact ==
    (Orderly /\ Quiet) =>
        \A r \in Rooms :
            /\ Roster(r) = InCall(r)
            /\ socketRoom[r] = InCall(r)
            /\ \A c \in InCall(r) : userRoomMap[c] = r

\* ... and of every two clients in a call whose lists have been encoded one was
\* asked to offer to the other: the call is a full mesh.
SerialMesh ==
    Orderly =>
        \A r \in Rooms : \A c, d \in InCall(r) :
            (c # d /\ carried[c] = NoSet /\ carried[d] = NoSet)
            => (c \in Listed(d) \/ d \in Listed(c))

\* A client that has disconnected does not stay in the roster of its room,
\* unless handlers overlapped.
DepartedCleared ==
    \A c \in Clients :
        (handler[c] = "disconnect") ~> (overlapped \/ \A r \in Rooms : c \notin Roster(r))

-----------------------------------------------------------------------------
(* What the code or its comments say of any schedule.                      *)

\* Every two clients in a call were put in contact (the README's mesh).
Mesh ==
    ~torn =>
        \A r \in Rooms : \A c, d \in InCall(r) :
            (c # d /\ carried[c] = NoSet /\ carried[d] = NoSet)
            => (c \in Listed(d) \/ d \in Listed(c))
=============================================================================
