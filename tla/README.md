# TeamSparks in TLA+

TeamSparks is a workspace chat with group video calls: a Spring Boot server
(`src/teamSpark/src/main/java/org/example/teamspark`, `J/` below), browser
scripts (`src/teamSpark/src/main/resources/static/js`, `S/` below), MySQL
(`src/docker/init.sql`), MongoDB for message histories and Redis pub/sub
between server instances. This directory holds TLA+ models of the parts whose
correctness depends on order, overlap or partial failure, the TLC runs that
check them and proofs of what holds for every number of clients.

## Inventory

### A. Video call signalling server (`J/webRtc`)

* State: `userRoomMap` (session -> room) in `GroupVideoCallSocketHandler`;
  `roomClients` (room -> set of clients, the *roster*) in `RoomManager`; and the
  rooms of the netty-socketio server itself. Three registries of one fact.
* Operations: `joinRoom`, `leaveRoom`, disconnection (not synchronized);
  relaying `offer`, `answer`, `candidate` (synchronized, stateless).
* Interaction: the browser's Socket.IO events in, `created`, `joined`,
  `userDisconnected` and the relayed events out.
* Hard: the handlers of different clients run in different threads over plain
  `HashMap`s and `HashSet`s; `onJoinRoom` reads the room before it enters it, and
  sends a set that is encoded later; `removeClientFromRoom` reads, copies and puts back.
* Correct when: every two clients in a call are put in contact exactly once,
  the roster is the set of clients in the call, and departures are announced.

### B. Browser side of a call (`S/videoCall/groupWebRtc.js`)

* State: `localStream`, `rtcPeerConnectionsMap`, `remoteDescriptionPromisesMap`,
  the implicit global `rtcPeerConnection`, one `RTCPeerConnection` per peer.
* Operations: handlers of the events above, each with `await`s or promise
  callbacks that run after later events.
* Hard: an offer that arrives before the camera permission is given; two offers
  that overlap and share the global; an answer after a departure.
* Correct when: every offer sent to a client in the call ends in two connections
  that belong together.

### C. Chat messages (`J/controller/textMessage`, `J/service/MessageHistoryServiceV2`, `J/redis`, `J/service/MessageNotificationService`)

* State: one history document per channel (MongoDB), messages in flight in the
  inbound executor, in Redis and in the listener's executor, STOMP subscriptions.
* Operations: save to the history and publish; on each instance, notify the
  members and deliver to the subscribers; read a history.
* Hard: save and publish are two stores; Redis delivers at most once; messages
  are handled by pools, so they overtake one another; notifying comes first and
  can throw.
* Correct when: what is delivered has been stored, what is stored is delivered,
  once, to everyone and in one order.

### D. Browser chat page (`S/textMessaging`, `S/userNotifyAndStatusSocketJS.js`)

* State: the channel shown (the attribute `data-channel-id`, and jQuery's cached
  copy of it), the container, the active entry of the side bar, badges, toasts,
  `sessionStorage.channelRedirect` and `.messageData`.
* Operations: click on a channel (fetch history, fetch channel, render), live
  message, notification, toast, create channel, add member, start call, and the
  ways back to the page.
* Hard: two clicks in flight; live messages between a history read and its
  rendering; failed fetches that stop a rendering half-way; cached `data()`
  against updated `attr()`; what one page leaves to the next.
* Correct when: page, highlight and redirect are of one channel, its messages are
  in the container, the others are counted, and a call leads back to where it began.

### E. Workspaces, channels, members, roles (`J/service/*Service.java`, MySQL)

* State: tables `workspace`, `workspace_member`, `channel`, `channel_member`,
  `role`, `member_role`, with and without cascading foreign keys.
* Operations: create, update, delete and list each; add and remove members.
* Hard: checks and writes of two requests; rows of another workspace; the
  creator removed; two stores when a channel is created; cascades and refusals.
* Correct when: every channel and workspace keeps a creator, a channel's members
  are members of its workspace, a membership exists once.

### F. Accounts and authentication (`J/service/UserServiceImpl.java`, `J/security`, `J/util/Jwt*`)

* State: table `user`. Operations: sign up, sign in, avatar, token checks.
* Hard: check-then-insert on the e-mail; a detached row saved back.

### G. Message search (the search bar, `J/service/SearchMessageService.java`, `J/repository/MessageHistoryRepositoryImpl.java`, `S/searchPageRender.js`)

* State: the bar's tags, with a text and jQuery data each; `sessionStorage`
  (`searchBody`, `searchCondition`, `channels`); the page of the results.
* Operations: add a condition, pick a value, submit, reload, show the results. The
  bar exists in three copies: the chat page's, the results page's and
  `searchBarDropDown.js`, which `videoCall.html` loads.
* Hard: text and data part ways; the channels known to a page grow old while
  others change memberships; one message that cannot be rendered stops the rest;
  boundaries of dates.
* Correct when it shows the messages that satisfy the conditions, from channels the
  user may read.

### Left out

The Elasticsearch service, the first history service, the e-mail service and
the data migration are not called; upload helpers, forms, DTOs and the rendering
of pages have no behaviour to check; labels and events are tables without
operations. `PROJECT.json` lists them; see also "Not modelled".

## Modules

| Module | Models | State |
| --- | --- | --- |
| `VideoRoom` | A: `GroupVideoCallSocketHandler`, `RoomManager` | built |
| `VideoRoomProofs` | theorems about it | built |
| `ChannelFeed` | what the chat promises: a log and what each page is shown of it | built |
| `ChatPipeline` | C: controller, history, Redis, notifications, instances | built, implements `ChannelFeed` |
| `ChatPipelineProofs` | theorems about it, the refinement among them | built |
| `Membership` | E: the services over MySQL and the history document | built |
| `MembershipProofs` | theorems about it: foreign keys, creators, documents, updates | built |
| `MeshCall` | A's relays and B: offers, answers, candidates and their promises | built |
| `MeshCallProofs` | theorems about it: which ends belong together, what a departure leaves | built |
| `ChannelView` | D: one page, clicks that overlap, messages, notifications, calls | built |
| `ChannelViewProofs` | theorems about it: what is shown, counted and announced | built |
| `MessageSearch` | G: the bar, the query, the page of the results | built |
| `MessageSearchProofs` | theorems about it: what is found, and that all of it is | built |

Each module `M` has an `MCM` that instantiates it and one configuration per
question. Where a module stands in for another, it does so by its promise: the
pipeline's servers implement `ChannelFeed`, and `ChannelView` has as its environment
a log and messages sent at most once per copy, which is what `ChannelFeed` says;
`MeshCall` takes from `VideoRoom` what it keeps (`ListedReachable`: who is listed and
stays receives the offer; `CalleeTold`: who was offered to hears of the departure) and
what it does not (`Mesh`: the list may be any subset of those that ever came;
`NoGlare`, which excuses a client listed to itself: two may list each other, hence
offers that cross; a client on the list may be gone, and its departure missed).
`MessageSearch` ends where `ChannelView` goes on: a result that is opened is
`PickMessage`, which leaves `messageData` for the chat page.

The order follows what depends on overlap most: the call server (no
synchronization at all), the chat across instances, then the tables and the
pages.

### VideoRoom

Each client has a thread: netty-socketio runs the handlers of one client one
after the other (`pc`, `handler`, `room`), those of two clients in parallel.
A handler is cut at each access to something another thread can touch.

| Action | Code |
| --- | --- |
| `JoinStart`, `JoinReply`, `JoinLogThrows`, `JoinEnter`, `JoinFetch`, `JoinAdd`, `JoinRecord` | `onJoinRoom` 52-75, `addClientToRoom` in two halves |
| `Encode` | the transport takes the packet of "joined" (line 65) and encodes the set it was given |
| `LeaveStart`, `DisconnectStart`, `Lookup`, `Forget`, `Tell` | `onLeaveRoom`, `onDisconnect` |
| `RemoveFind`, `RemoveCopy`, `RemoveStore` | `removeClientFromRoom`: find the set, copy it filtered, put the copy |
| `Throw` | an exception of an overlapping `HashMap` or `HashSet` access |

`roomClients` maps a room to the *name* of a set in `heap`, because a join
changes the set in place while a removal replaces it: who holds which object
matters. The plain `HashMap`s and `HashSet`s are accessed without
synchronization; what such a race can produce (an entry not seen, a write lost,
an exception) is a choice at the access, and `torn` remembers that one was made.
Properties that are about the order of whole accesses assume `~torn`, the others
hold with it. `overlapped` remembers that handlers of two clients overlapped.
`inbox` is what each browser was sent.

"joined" is sent the `RoomManager`'s own set. Until the client's poll takes the packet
it waits with that set (`carried`); `Encode`, at any later time, makes it the list of
what the set holds by then (`listed`), all of it or, amid an addition, a part. So a
client may find itself on its list, and two that join together each other. The
browser offers to everybody on the list but itself. An addition amid the log line
before it (63) ends `onJoinRoom` (`JoinLogThrows`, the handler is then "aborted").

### ChatPipeline and ChannelFeed

One channel, any number of messages, instances and sockets. `stage` and `at`
follow a message through `handleTextMessage` (`AddMessage`, `Publish`, or
`AddMessageThrows`); `received` and `notified` hold the runs of `onMessage` on
each instance (`Notify` or `NotifyThrows`, then `SendToChannel`); `outbound` is
Spring's outbound pool, a set because its threads overtake one another; `feed`
is what a browser was sent. `Crash` ends an instance with all that is in its
memory, `Restart` brings it back empty; `Close` ends a socket, which no page
reopens. `Publish` reaches any subset of the instances that are up, for Redis
pub/sub keeps nothing.

One channel is enough: channels share the topic and the pools only, and the pools
are taken to reorder anything already. The history document exists:
`createChannel` saves it before the channel commits (`ChannelHasHistory` in
`Membership`).

What is queued and written are *frames*: `Copies[s]` is one copy for a channel's
socket and one per membership of the user for the other, for the query of
the members (`getUserIdsByChannelId`) has no DISTINCT and a user can have two
memberships in a channel (`AddWorkspaceMember`, `AddChannelMember`).

`ChannelFeed` says what a page may rely on: a message is posted to the log once,
and shown after it is posted, to a socket once per copy. It promises no order.

### Membership

The tables as sets of identifiers and of pairs; `memberRow` keeps the row of an
identifier, for they are never reused. A request is two steps: `Check...` reads
what the service reads before it writes (the owner, the members of the workspace,
the rows to remove), and the action named after the service's method writes and
commits; in between anything may happen. `OwnerRequests(w)` lists what the
workspace's owner may ask. `createChannel` has a third step: `StoreChannel` has
inserted the channel's row and saved the document, `CommitChannel` is the commit.
`Abort` is a rollback: by a foreign key, by a row that is gone (Hibernate counts
the rows it deletes), or by a crash. The reads of a transaction are a snapshot,
MySQL's default isolation, which no configuration file changes. Keys of users are
numbers (`UserId`): an update is sent any numbers (`Ids`), and whom they name (`Named`)
is read off the keys of users, though the page has those of memberships.

`ChangeMembers` carries the schema: what `ON DELETE CASCADE` takes along
(`channel_member`) and what a foreign key refuses (`member_role`).

### MeshCall

Any number of pages in one call, each of which handles one event or one promise
callback at a time. To a peer a page makes at most two connections, one that offers
(`offerSig`) and one that answers (`answerSig`); its map has room for one, so
`table` keeps the role of the last that was made. Both are made where offers cross:
the answer and the candidates that come then find the wrong one or none that waits.

| Action | Code in `groupWebRtc.js` |
| --- | --- |
| `Join`, `OnJoined`, `AllowCamera`, `DenyCamera` | `connectToSocketServer`; `created` and `joined`, with the list, up to `getUserMedia` and its promise |
| `SendOffer` | one turn of the loop of `joined` |
| `OnOffer`, `RemoteSet`, `AnswerMade`, `AnswerRefused`, `LocalSet` | the handler of `offer` and the callbacks of its promises |
| `OnAnswer` (`Awaits`, `Accept`) | `answer`, which a connection that does not wait for one rejects |
| `SendCandidate`, `OnCandidate` | `onIceCandidate`, `candidate` |
| `OnLeft`, `Leave` | `userDisconnected`, `disconnectAndRedirect` |
| `AddStream` (helper) | `onAddStream`: a video is opened when a remote description announces a track |

`task` is how far the promise chain of an offer is, `asked` the connection it asked
for an answer: the global `rtcPeerConnection` at that time (`current`), not
necessarily its own. The relays of the server are synchronized and keep nothing, so
a relay and the two sockets it joins are one queue per receiver (`inbox`), in
whatever order the senders' steps come. One candidate stands for all of a connection.
A Socket.IO reconnection is another client with another identifier. The history
variables name what excuses a failure: `deaf` (the offer came before the camera),
`overlapped` (a second offer while one was answered), `late` (a departure heard while
the offer was being set).

### ChannelView

One tab. A click is a *run* of the entry's handler with a stage (`reading` the
history, `read` or `failed`), its channel and what it read; each answer is an
action (`HistoryRead`, `HistoryFails`, `ChannelRead`, `ChannelFails`,
`PartnerMissing`, `NothingRead`), all but the first two of which end the handler
(`Finish`). `handlers` counts the handlers of an entry, as `CreateChannel` adds one
to every entry each time. `shown` is the attribute `data-channel-id`, `cached` what `.data()` keeps of
its first reading. `redirect` and `target` are `sessionStorage`'s
`channelRedirect` and `messageData`; `Load` reads them, `Finish` and `ChannelRead`
write them. `OnMessage` and `OnNotification` come on two sockets, each message at most
once on the first and once per membership (`Copies`) on the second, in any order;
`Leave`, `StartCall`, `EndCall` and `PickMessage` are the ways from and to other pages.

A history is rendered in the order of `created_at` (`Stamp`), which is set before a
message is stored and so is not the order of the history, up to the first message
whose sender the page does not know: `Rendered` is the set of those before it.
`content` counts how often each message is in the container; in which order they
appear concerns no property. A private chat in `alone` has lost its other member
(`PartnerLeaves`): its title throws when the chat is clicked, after the channel's id
was set and before the container is emptied (`PartnerMissing`), and its entry throws
while a page is loaded (`LoadThrows`, a page that is "broken" from then on).

History variables: `here` and `told` (messages and notifications sent to the page
since it was loaded), `seen` (was on screen), `raced` (counted while a run held a
history without it), `failed` (channels of which a fetch failed), `origin` (the
channel in which the call was started).

Left out: the list of a channel's members, date dividers, workspaces, and toasts
before the side bar is there. `StartCall` has a channel on screen, `CreateChannel` an
open socket and fetches that succeed; a message is found by its document id only if it was a result of a search,
as the code has it.

### MessageSearch

The bar's tags (`tags`), what they say (`text`) and what jQuery keeps for them
(`data`): the query is made of the data, the page of the results shows the text.
`ClickCondition` is `removeHash`, which writes the bar's HTML anew; `Pick` is a
click in one of the lists; `Submit` leaves `query` and `condition` in
`sessionStorage`, from which `ChannelsRead`, `ChannelsFail`, `MessagesRead` and
`MessagesFail` render the results. `Matches` is the criteria of
`findMessagesWithSearchCondition` and `Meets` what the displayed conditions say;
the properties relate the two. `Known` are the channels the page finds in
`sessionStorage`; memberships change meanwhile. Times are numbers, a day its
midnight; the time zones by which page and server may differ on it are left out.

## Runs

| Run | Instance | Shows |
| --- | --- | --- |
| `video_room` | 2 clients, 2 rooms, all departures, torn accesses; or 3 clients, 1 room, 1 that disconnects; lists encoded at any time | `TypeOK`, `NoGlare`, `ListedReachable`, `CalleeTold`, `ListedSameRoom`; one handler at a time, `SerialRosterExact`, `SerialMesh`, `DepartedCleared` |
| `video_room_mesh` | 2 clients, 1 room | `Mesh` violated |
| `chat_pipeline` | 2 messages, 2 instances, 1 + 1 sockets, 2 memberships of the user, 1 socket or delivery lost | `TypeOK`, `HistoryCausal`, `Accounted`, `NotifiedFirst`, `ImplementsFeed`, `AudienceReached` |
| `membership` | 2 users, 2 workspaces, 3 memberships, 1 channel or 1 role | `TypeOK`, `OneCreator`, `ChannelCreatorAtHome`, `ChannelHasHistory`, `UpdateExact` |
| `membership_creator` | 2 users, 1 workspace, 2 memberships, 1 channel | `CreatorKept` violated |
| `mesh_call` | 3 clients, 2 offers, crossing ones too, 2 that leave or refuse the camera | `TypeOK`, `WrongOnlyIfOverlapped`, `EndsAgree`, `DepartedForgotten`, `VideoOfDeparted`, `OfferAnswered` |
| `mesh_call_matched` | the same without losses | `AnswerMatches` violated |
| `channel_view` | 2 private chats, 2 messages in one, the second stored by an unknown sender and created first; 2 runs at a time; 2 notifications, or 1 failed fetch or partner gone | `TypeOK`, `NothingAnnouncedTwice`, `PageAgrees`, `ContentOfShown`, `NothingVanishes`, `TwiceOnlyIfLive` |
| `channel_view_live` | 2 channels with a message each, one a private chat; no notification | `ResultFound` |
| `channel_view_returns` | the same, a message of the user's own, no failure | `ReturnsToOriginal` violated |
| `message_search` | 2 channels, 2 members, 2 messages, 1 keyword, 1 day, 2 conditions at a time | `TypeOK`, `ResultsMatch`, `NothingMissed` |
| `message_search_conditions` | the same | `MultipleConditions` violated |

Deadlock is not checked: every model may stop, when everybody has left, every
message has been sent, no request is made and no identifier is unused, or no user
does anything. The bounds are CONSTRAINTs named in the MC modules
(`Bounds`, `InOrder`, `OneLoss`, `FewEvents`, `FewTags`, `ChannelsOrRoles`); what they
cut off are users' actions, crashes and failures, to which no fairness is assumed on
its own, and behaviours that differ from others in names only.

### Why the bounds are enough

* The hazards of `VideoRoom` are between a reader and a writer, or two writers:
  two clients show each, in two rooms for whether sets of rooms mix. Three are there
  for what a third observes (a newcomer between two others, a room that is not empty
  after a departure). The theorems cover any number.
* Two messages and two instances make every pair of steps of different messages,
  and a sender and a receiver on different servers. One of the two sockets can be
  lost while the other is to be served. Two memberships tell copies from messages.
  The theorems cover any number.
* Three membership rows allow a creator, a second membership of one user and
  a membership elsewhere; one channel has all the ways to lose its creator.
  Both users may have a request open, so checks go stale in every way two can.
  Channels and roles meet only in the members they refer to: a behaviour of the
  instance has one or the other.
* In `MeshCall` the shared global needs two offers to one client, hence three
  clients; two offers that cross are between two, and a third looks on. Two losses let both ends of an offer
  go, or one refuse its camera.
* `ChannelView`'s races are between two runs, of one channel or of two, and between
  a run and a message; pages are loaded any number of times. `m2`, whose sender is
  unknown, stops a rendering, and hides the message stored before it. Two notifications
  are two copies of one message or one of each; a notification and a failure each meet
  every order of the rest, not each other.
* Where clients, rooms, messages, instances, copies or identifiers are interchangeable, a
  run takes one of each set of behaviours that differ in their names only: by SYMMETRY
  for safety, and where liveness, which rules symmetry out, is checked as well, by numbers
  and an order (`Bounds` of `MCVideoRoom` and `MCMeshCall`, `InOrder` of
  `MCChatPipeline`).
* `MessageSearch`'s two messages differ in channel, sender, time and words, and the
  day is the time of the second: every criterion tells them apart. Two tags are what
  it takes for one to spoil the other. It was also run with `Strangers = {"m1"}`.

### Fairness

* `VideoRoom`: a handler that has started runs on (`WF` on its next step). Nothing
  in it waits for another client; no client is obliged to start one.
* `ChatPipeline`: `onMessage` and the outbound pool run on (`WF` on `Dispatch` and
  `Write`). Their database queries end, with a result or an exception. Nothing is
  assumed of browsers, crashes, restarts or of handling a message before it is
  published.

* `MeshCall`: a page that stays handles its events and the browser resolves its
  promises (`WF` on `Page(c)`; the steps of a page run out unless an event comes), and a
  client that joined and stays is sent "created" or "joined" (`WF` on `OnJoined`: the
  relays of the server wait for nobody). Nobody has to join, allow the camera or leave.
* `ChannelView`: a fetch ends with an answer or a failure (`WF` on `Answered(r)`).
  No click, message or notification has to come.

## What is proved

TLAPS checks these for every value of the constants: any number of clients, rooms,
messages, instances, rows, requests, handlers. Every invariant and action property
that a passing run checks is a theorem, and so is the refinement. Few of the
properties are inductive by themselves; the invariant that is has named parts, each
kept by a lemma of its own, and TLC checked the parts on the instances of the runs
before they were proved.

The proofs are laid out alike. A *frame lemma* per variable says by which actions it
can change and how (`LogStep`, `OfferSigStep`, `RefsStep`, `MembersStep`); a lemma per part
of the invariant uses those and looks into an action only where it disturbs the part.

The assumptions are these, each named in the module that declares the constant.

| Module | Assumption | Why the code justifies it |
| --- | --- | --- |
| `VideoRoom` | `NoRoom` and `NoSet` are no room and no set | they stand for `null` |
| `ChatPipeline` | the two kinds of sockets are disjoint; one copy for a channel's socket, at least one for a user's; a socket without a server is at none | two endpoints; one `convertAndSend` for the channel, one per row of the query for members |
| `Membership` | `None` is no workspace and no row; no two users have one key | it stands for a row not yet inserted; primary keys |
| `MeshCall` | `Nobody` is no client | it stands for `null` |
| `ChannelView` | a message has one channel and a time; private chats are channels; strangers' messages are not the user's own; `None` is no channel or message; handlers under way are finitely many (`RunsAssumption`) | a click on an entry without handlers starts none: `Cardinality` says so of finite sets only |
| `MessageSearch` | each message has a channel, a sender, a time and words; days are numbers; `None` is no value of a condition | the fields of a stored message; `None` stands for `null` |

`VideoRoomProofs`:

* `TypeCorrect`: `TypeOK`, whose last conjuncts say that the `RoomManager` never
  works on a null set and `userRoomMap` never names a room the client did not
  join. It is inductive as it stands.
* `GlareFree`, `ListedShareRoom`, `ListedAreReachable`, `CalleesAreTold`, by `Contact`,
  on top of `Meet` (whoever is in a set, a copy or a list has been *added*) and
  `Threads` (program counters belong to handlers). Two clients are sent each other's
  names only if one is sent its own: as long as no access goes wrong, a room's sets
  follow each other and a client is added to the set it took or to a later one, so if
  d may be on e's list and is not in the set d took itself, e never will be
  (`Ordered`). It rests on the set a handler would allocate being nobody's before
  (`Fresh`). The rooms of the socket server are exact whatever overlaps (`SocketRooms`);
  a set is named by the handler that allocated it and all that ever is in it is of that
  client's room (`SameRoom`), although sets are shared by reference and replaced;
  `userRoomMap` knows the room from the end of a join to the departure (`Recorded`), so a
  departure gets to its broadcast (`AllTold`), and what a client that has left is still
  to be sent is not the room's set any more (`Retired`).
* `RosterExactIfSerial`, `MeshIfSerial`: `Single` (without overlap one handler runs),
  `Once` (a client is sent one list) and `Serial`, which follows the roster through each
  step of a handler: who is in it while a join has replied but not added, or a removal
  has copied but not stored. A list may be encoded at any time even then; what its
  set holds meanwhile only grows (`MetKept`).

`ChatPipelineProofs`:

* `TypeCorrect`: also that nothing is held at an instance that is down.
* `CausalHistory`, by `Stored`: whatever is in transit or was sent is in the history.
* `NothingDropped` and `NotificationFirst`, by `Once` (a message is at one stage per
  instance, and a frame to be sent to a socket at most once) and `NotifiedBefore` (where
  `onMessage` has notified, the members' sockets have been sent it).
  `AudienceFrame` is the argument shared by the steps that concern neither.
* `FeedImplemented`: `Spec => ImplementsFeed`, from the same invariant `IInv`:
  a step that adds to the history is `Post`, a `Write` is `Show` of its frame, all
  others stutter. `Once` keeps frames apart, not messages: those of one message for a
  user are queued together and written in any order.

`MembershipProofs`:

* `TypeCorrect`: no row refers to one that is gone, which is what the cascades and
  refusals of the schema (`ChangeMembers`) are for. `Requests` is needed: what a
  request found when it checked must still fit when it writes. It does because rows
  are never overwritten and identifiers never reused, and a workspace is not removed
  while a channel is being created in it.
* `CreatorsAreUnique`, `CreatorsAreAtHome`, `ChannelsHaveHistory`, by the same `IInv`:
  a creator's mark is set in the transaction that creates, never later, and a
  channel's document is there before the channel (`RequestFits` of `commitChannel`).
  That a creator is *kept* is false (`CreatorKept` below).
* `UpdateIsExact`, an action property: what the update adds and removes, both taken from
  the members it read, leaves the users whose keys it was sent, but for the rows that
  came or went since. Nothing is assumed of what happened in between.

`MeshCallProofs`:

* `TypeCorrect`, `WrongAnswersFromOverlap` and `TwoEndsAgree`, by `Base`. Its parts
  say who may have a connection to whom (`Lists`, `Absent`), that an offer
  is made and taken once (`Offers`), that a promise chain works on its own connection
  and, without overlap, on the global too (`Chains`), and that an answer under way is
  of the connection it should be of, if its sender had no overlap (`Answers`). So the
  global `rtcPeerConnection` is the one cause of wrong answers: the code is right
  where offers to one page are one at a time, even if the page offers as well: the
  connection that offers and the one that answers are never taken for each other.
* `DepartedAreForgotten`, `VideosOfDeparted`, by `Departures`: an offer or answer of a
  client that left and had listed the receiver is followed in the queue by the word
  that it left, so that what it leads to is undone, but for the one
  window `late` names.

`ChannelViewProofs`:

* Lemmas about `Rendered`: what is rendered is stored (`RenderedStored`), and a message
  that is in a beginning of a history and rendered of the whole is rendered of the
  beginning (`RenderedPrefix`): the more is stored, the more can stop the rendering
  early, so a message that is not rendered of a history never is again
  (`UnrenderedStays`).
* `TypeCorrect`, `ShownIsNotAnnounced`, `PageAgreesAlways`, `ContentIsOfShown`,
  `MessagesDoNotVanish`, `TwiceOnlyWhatCame`, by `IInv`: handlers hold a beginning of
  the history of their channel (`ReadsPrefix`, `OwnHistory`), one without a history is
  of a channel of which a fetch failed (`FailuresKnown`), a chat that lost its partner
  stays so (`AloneStep`), and a message that came after a handler had read was shown,
  raced or cannot be rendered (`LateAreKnown`). The last makes `NothingVanishes`
  inductive: when the handler ends it takes the badge away, and what the badge counted
  must be excused by then. That a message is never on screen three times rests on what
  `ChannelFeed` promises: it is stored once, and sent to a socket once. All hold for any
  number of handlers of any number of clicks.

`MessageSearchProofs`:

* `TypeCorrect`, `ResultsAreMatches`, `NothingIsMissed`: what is sent and what is
  displayed differ in the member only (`Agree`), from the submission on (`Sent`),
  over reloads (`Shown`); so matching the one is meeting the other
  (`MeetsMatches`, `MatchesMeets`).

Checked by TLC alone: `DepartedCleared`, `AudienceReached`, `OfferAnswered` and
`ResultFound`, which are liveness under fairness and need ENABLED, out of the provers'
reach; and the violations below, which are counterexamples. None of the modules
declares a RECURSIVE operator, and no theorem needs induction over data.

Left for the proofs: the conditions under which the properties below would hold,
as far as they are not stated yet (`MeshIfSerial` is that for `Mesh`,
`WrongAnswersFromOverlap` for `AnswerMatches`, `ResultsAreMatches` for
`MultipleConditions`).

## What the code does not keep

Each has a run that must end in a violation, and an entry under "findings".

* `Mesh`: two clients that join together may both get "created", or a list
  without the other, and neither offers.
* `CreatorKept`: an update, a removal or a repeated addition takes the creator's row
  or its mark, of a workspace or a channel; every later check for the creator
  fails with a null pointer.
* `AnswerMatches`: of two offers that overlap, the second replaces the global, and the
  first client is sent the answer of a connection to the second.
* `ReturnsToOriginal`: jQuery keeps the channel of the first `.data()` of a page; a
  call started in another channel is the first one's, and leads back there.
* `MultipleConditions`: the channel of a search is not part of the query, and a member
  is lost when another condition is clicked.

The models do more that a reader may not expect, without a run of its own:

* `removeClientFromRoom` puts back a copy of a set that has changed: a client that is
  gone comes back, one that came is lost (`SerialRosterExact` is silent as soon as two
  handlers have overlapped).
* Two clients that list each other offer both, and the second connection takes the
  place of the first in the map: an offer may stay without an answer; so does one that
  comes before the receiver's camera (`OfferAnswered` excuses both).
* A click on a private chat whose partner is gone leaves the messages of the channel
  before under the new one; after that no page of the user can be loaded.
* A message stored late with an early `created_at` and an unknown sender hides messages
  that were shown before.
* "joined" may name the client it is sent to, as its set is encoded after the client was
  added to it; the page skips its own name.
* The members of a workspace are sent to the page with the keys of their memberships; an
  update that sends these back is read as keys of users (`Named`), so others stay.
* A newcomer has its list before it is in the room, and misses the departure of a
  client on the list (`CalleeTold` is the half that holds).
* A user added twice is found by no query that expects one row; removing a channel
  member removes it from all channels.
* A message that arrives between the read of a history and its rendering is neither
  shown nor counted, or shown twice (`NothingVanishes` says
  the first needs that race, `TwiceOnlyIfLive` that only what came live is shown twice).

## Abstractions

* Names, avatars, dates, message contents and HTTP statuses are left out; a
  user's password and token with them.
* The sign-in of a request is not modelled: a request is made by a user.
* `updateChannel` and `updateWorkspaceRole` change names only. A new role is sent
  without an identifier.
* The service of one call is one server process; the load balancer in front of
  several is not modelled for calls (`RoomManager` is per process).

## Not modelled

* Accounts: one row is inserted or one column changed per request, and the table's
  unique key decides between two sign-ups; no order of requests matters. (A sign-in
  with an unknown e-mail dereferences a null user; it changes nothing.)
* The controllers keep no state; the services they call are the actions.
* The vendored scripts, jQuery UI and tam-emoji, are 23,000 of the 26,000 lines of
  JavaScript in the repository; they are somebody else's programs, and what the
  pages rely on is modelled where it is used.
* Of the chat page: layout, the list of members, workspaces, presence.
* Uploads, e-mail, and the superseded services. `PROJECT.json` lists every component
  with the reason, and the hazards with the properties about them.
