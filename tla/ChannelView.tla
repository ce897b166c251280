---------------------------- MODULE ChannelView ----------------------------
(***************************************************************************)
(* The chat page of one browser tab: textMessagingPageRender.js, which     *)
(* renders the channel the user clicks, textMessageSocketJS.js, which      *)
(* takes the messages of the channels, and userNotifyAndStatusSocketJS.js, *)
(* which takes the notifications; and what the pages of the tab leave each *)
(* other in sessionStorage.                                                *)
(*                                                                         *)
(* The servers are what ChannelFeed promises: a channel has one history,   *)
(* to which a message is added once, and a socket is sent messages of it,  *)
(* each at most once, or once per membership of the user, in any order.    *)
(*                                                                         *)
(* The page runs one handler at a time up to its next await.  A click on a *)
(* channel is a run of its handler: it waits for the history, then for the *)
(* channel, and renders.  Several runs may be under way.                   *)
(***************************************************************************)
EXTENDS Sequences, Naturals, Functions, FiniteSets

CONSTANTS
    Channels,
    Private,    \* those that are private chats
    Messages,
    ChannelOf,  \* the channel of each message
    Own,        \* messages the user of the tab sends
    Strangers,  \* messages of which workspaceMembers does not hold the sender
    Stamp,      \* created_at of each message: when its instance read it
    Copies,     \* notifications the user is sent of a message: one per membership
    Runs,       \* handlers of clicks that can be under way at a time
    None

ASSUME ChannelAssumption == ChannelOf \in [Messages -> Channels]
ASSUME PrivateAssumption == Private \subseteq Channels
ASSUME StampAssumption == Stamp \in [Messages -> Nat]
ASSUME SenderAssumption == Own \subseteq Messages /\ Strangers \subseteq Messages \ Own
ASSUME NoneAssumption == None \notin Channels \cup Messages
ASSUME RunsAssumption == IsFiniteSet(Runs)

VARIABLES
    \* The servers
    log,        \* history of each channel
    mine,       \* channels the user is a member of
    alone,      \* private chats that have no other member
    \* sessionStorage
    redirect,   \* channelRedirect
    target,     \* messageData: a channel, and a message or none that exists
    \* The page
    page,       \* "chat", "broken" while it was loaded, "call", or "away" on another
    connected,  \* the socket is open: the channels of the sidebar are subscribed
    handlers,   \* click handlers of each entry of the sidebar; no entry, none
    cached,     \* what .data("channel-id") of the content was when first read
    shown,      \* its attribute data-channel-id
    content,    \* how often each message is in the container
    active,     \* the highlighted entry
    badge,      \* messages counted on the badge of each entry
    toasts,     \* notifications on a toast
    runs,       \* handlers of clicks
    \* History
    origin,     \* the channel on screen when the call was started
    here,       \* messages the page was sent since it was loaded
    told,       \* notifications it was sent since then
    seen,       \* messages that were on screen since then
    raced,      \* counted while a run held a history without them
    failed      \* channels of which a fetch failed since then

server == <<log, mine, alone>>
storage == <<redirect, target>>
frame == <<page, connected, handlers, cached>>
display == <<shown, content, active, badge, toasts>>
history == <<origin, here, told, seen, raced, failed>>
vars == <<server, storage, frame, display, runs, history>>

Sidebar == {c \in Channels : handlers[c] > 0}

Target == [chan : Channels, message : Messages \cup {None}] \cup {None}

Idle == [stage |-> "idle", chan |-> None, read |-> <<>>]

IdleRuns == {r \in Runs : runs[r] = Idle}

Blank == [m \in Messages |-> 0]

\* The type of every variable; and that what the page shows or is about to show
\* has an entry in the sidebar, and a page that is left shows nothing.
TypeOK ==
    /\ log \in [Channels -> Seq(Messages)]
    /\ mine \subseteq Channels
    /\ alone \subseteq Private
    /\ redirect \in Channels \cup {None}
    /\ target \in Target
    /\ page \in {"chat", "broken", "call", "away"}
    /\ connected \in BOOLEAN
    /\ handlers \in [Channels -> Nat]
    /\ {cached, shown, active} \subseteq Sidebar \cup {None}
    /\ content \in [Messages -> Nat]
    /\ badge \in [Channels -> SUBSET Messages]
    /\ \A c \in Channels \ Sidebar : badge[c] = {}
    /\ toasts \subseteq Messages \X Copies
    /\ \A r \in Runs :
          runs[r] = Idle \/ /\ runs[r].stage \in {"reading", "read", "failed"}
                            /\ runs[r].chan \in Sidebar
                            /\ runs[r].read \in Seq(Messages)
    /\ origin \in Channels \cup {None}
    /\ {here, seen, raced} \subseteq SUBSET Messages
    /\ told \subseteq Messages \X Copies
    /\ failed \subseteq Channels
    /\ page # "chat" => Sidebar = {} /\ content = Blank
    /\ page \in {"call", "away"} => toasts = {}

Init ==
    /\ log = [c \in Channels |-> <<>>]
    /\ mine \in SUBSET Channels
    /\ alone = {}
    /\ redirect = None
    /\ target = None
    /\ page = "away"
    /\ connected = FALSE
    /\ handlers = [c \in Channels |-> 0]
    /\ cached = None
    /\ shown = None
    /\ content = Blank
    /\ active = None
    /\ badge = [c \in Channels |-> {}]
    /\ toasts = {}
    /\ runs = [r \in Runs |-> Idle]
    /\ origin = None
    /\ here = {}
    /\ told = {}
    /\ seen = {}
    /\ raced = {}
    /\ failed = {}

-----------------------------------------------------------------------------
(* The servers                                                             *)

Stored(m) == m \in Range(log[ChannelOf[m]])

\* Somebody adds the user to a channel: the page does not hear of it.
AddedTo(c) ==
    /\ c \notin mine
    /\ mine' = mine \cup {c}
    /\ UNCHANGED <<log, alone, storage, frame, display, runs, history>>

\* The other member of a private chat is removed, or was never added
\* (createPrivateForm: of two requests the second may fail).
PartnerLeaves(c) ==
    /\ c \in Private \ alone
    /\ alone' = alone \cup {c}
    /\ UNCHANGED <<log, mine, storage, frame, display, runs, history>>

\* A message is sent and stored.  The user sends to the channel on screen
\* (sendMessageIfNotEmpty).
Post(m) ==
    LET c == ChannelOf[m] IN
    /\ ~Stored(m)
    /\ m \in Own => connected /\ shown = c
    /\ log' = [log EXCEPT ![c] = Append(@, m)]
    /\ UNCHANGED <<mine, alone, storage, frame, display, runs, history>>

-----------------------------------------------------------------------------
(* Coming to the page and leaving it                                       *)

\* R are runs of the handlers of c that have just begun.
Started(R, c) ==
    [r \in Runs |-> IF r \in R THEN [stage |-> "reading", chan |-> c, read |-> <<>>]
                               ELSE runs[r]]

\* Mutant: the channel to come back to is preferred to messageData.
LoadIgnoresTarget ==
    /\ page = "away"
    /\ mine \cap alone = {}
    /\ page' = "chat"
    /\ handlers' = [c \in Channels |-> IF c \in mine THEN 1 ELSE 0]
    /\ LET open == IF redirect # None THEN {redirect} \cap mine ELSE mine
       IN \/ open = {} /\ UNCHANGED runs
          \/ \E c \in open, r \in Runs : runs' = Started({r}, c)
    /\ UNCHANGED <<server, storage, connected, cached, display, history>>

\* $(document).ready, from the answer about the channels on: the sidebar, its
\* handlers, and a click on the channel of messageData, else of channelRedirect,
\* else on the first one.
Load ==
    /\ page = "away"
    /\ mine \cap alone = {}
    /\ page' = "chat"
    /\ handlers' = [c \in Channels |-> IF c \in mine THEN 1 ELSE 0]
    /\ LET open == IF target # None THEN {target.chan} \cap mine
                   ELSE IF redirect # None THEN {redirect} \cap mine
                   ELSE mine
       IN \/ open = {} /\ UNCHANGED runs
          \/ \E c \in open, r \in Runs : runs' = Started({r}, c)
    /\ UNCHANGED <<server, storage, connected, cached, display, history>>

\* A private chat has no partner to name it after: filling the sidebar throws, before
\* an entry has a handler and the socket is opened.
LoadThrows ==
    /\ page = "away"
    /\ mine \cap alone # {}
    /\ page' = "broken"
    /\ UNCHANGED <<server, storage, connected, handlers, cached, display, runs, history>>

\* The callback of stompClient.connect: the channels are subscribed.
Connected ==
    /\ page = "chat"
    /\ ~connected
    /\ connected' = TRUE
    /\ UNCHANGED <<server, storage, page, handlers, cached, display, runs, history>>

\* Mutant: the runs under way go on.
UnloadKeepsRuns ==
    /\ connected' = FALSE
    /\ handlers' = [c \in Channels |-> 0]
    /\ cached' = None
    /\ shown' = None
    /\ content' = Blank
    /\ active' = None
    /\ badge' = [c \in Channels |-> {}]
    /\ toasts' = {}
    /\ here' = {}
    /\ told' = {}
    /\ seen' = {}
    /\ raced' = {}
    /\ failed' = {}
    /\ UNCHANGED runs

\* The page goes with all it holds.
Unload ==
    /\ connected' = FALSE
    /\ handlers' = [c \in Channels |-> 0]
    /\ cached' = None
    /\ shown' = None
    /\ content' = Blank
    /\ active' = None
    /\ badge' = [c \in Channels |-> {}]
    /\ toasts' = {}
    /\ runs' = [r \in Runs |-> Idle]
    /\ here' = {}
    /\ told' = {}
    /\ seen' = {}
    /\ raced' = {}
    /\ failed' = {}

Leave ==
    /\ page \in {"chat", "broken"}
    /\ page' = "away"
    /\ Unload
    /\ UNCHANGED <<server, storage, origin>>

\* On another page: a result of a search is opened, or a toast, whose message has
\* no documentId.
PickMessage(m) ==
    /\ page = "away"
    /\ Stored(m)
    /\ ChannelOf[m] \in mine
    /\ \E id \in {m, None} :
          /\ id = None => m \notin Own
          /\ target' = [chan |-> ChannelOf[m], message |-> id]
    /\ UNCHANGED <<server, redirect, frame, display, runs, history>>

-----------------------------------------------------------------------------
(* The button of the call, and the form to add a member                    *)

\* .data("channel-id"): jQuery keeps what it has read from the attribute once.
Data == IF cached # None THEN cached ELSE shown

\* videoCallButton, with a channel on screen.
StartCall ==
    /\ page = "chat"
    /\ shown # None
    /\ redirect' = Data
    /\ origin' = shown
    /\ page' = "call"
    /\ Unload
    /\ UNCHANGED <<server, target>>

\* disconnectAndRedirect: back to the workspace.
EndCall ==
    /\ page = "call"
    /\ page' = "away"
    /\ origin' = None
    /\ UNCHANGED <<server, storage, connected, handlers, cached, display, runs,
                   here, told, seen, raced, failed>>

\* handleAddChannelMember, as far as it reads the channel.
AddMember ==
    /\ page = "chat"
    /\ cached' = Data
    /\ UNCHANGED <<server, storage, page, connected, handlers, display, runs, history>>

-----------------------------------------------------------------------------
(* Showing a channel                                                       *)

\* Mutant: the entry is highlighted at once.
ClickHighlights(c) ==
    /\ page = "chat"
    /\ c \in Sidebar
    /\ \E R \in SUBSET IdleRuns :
          /\ Cardinality(R) = handlers[c]
          /\ runs' = Started(R, c)
    /\ active' = c
    /\ UNCHANGED <<server, storage, frame, shown, content, badge, toasts, history>>

\* A click starts every handler the entry has.
Click(c) ==
    /\ page = "chat"
    /\ c \in Sidebar
    /\ \E R \in SUBSET IdleRuns :
          /\ Cardinality(R) = handlers[c]
          /\ runs' = Started(R, c)
    /\ UNCHANGED <<server, storage, frame, display, history>>

\* handleCreateChannel and fetchAndRenderChannelById, with the channel created and
\* read: its entry is added, toggleSideBarChannel gives every entry one more
\* handler, and the new one is clicked and subscribed.  If it cannot be read, or has
\* no partner, there is no entry: that is AddedTo.
CreateChannel(c) ==
    /\ connected
    /\ c \notin mine \cup alone
    /\ log[c] = <<>>
    /\ mine' = mine \cup {c}
    /\ handlers' = [d \in Channels |->
                       IF d \in Sidebar \cup {c} THEN handlers[d] + 1 ELSE 0]
    /\ \E r \in IdleRuns : runs' = Started({r}, c)
    /\ UNCHANGED <<log, alone, storage, page, connected, cached, display, history>>

\* fetchMessageHistoryData: the history as it is now, or null.
HistoryRead(r) ==
    /\ runs[r].stage = "reading"
    /\ runs' = [runs EXCEPT ![r].stage = "read", ![r].read = log[runs[r].chan]]
    /\ UNCHANGED <<server, storage, frame, display, history>>

HistoryFails(r) ==
    /\ runs[r].stage = "reading"
    /\ runs' = [runs EXCEPT ![r].stage = "failed"]
    /\ failed' = failed \cup {runs[r].chan}
    /\ UNCHANGED <<server, storage, frame, display, origin, here, told, seen, raced>>

\* The order of created_at, which is not that of the history: a message is stamped
\* before it is stored.  Sorting is stable.
Earlier(s, i, j) ==
    Stamp[s[i]] < Stamp[s[j]] \/ (Stamp[s[i]] = Stamp[s[j]] /\ i < j)

\* Of a history, the messages before the first one without a sender: there rendering
\* throws.  A history holds no message twice.
Rendered(s) ==
    {s[i] : i \in {i \in DOMAIN s :
                     \A j \in DOMAIN s : s[j] \in Strangers => Earlier(s, i, j)}}

\* Mutant: the toasts stay.
FinishKeepsToasts(r) ==
    LET c == runs[r].chan IN
    /\ badge' = [badge EXCEPT ![c] = {}]
    /\ active' = c
    /\ redirect' = c
    /\ runs' = [runs EXCEPT ![r] = Idle]
    /\ UNCHANGED <<server, frame, toasts>>

\* Mutant: all badges go.
FinishClearsBadges(r) ==
    LET c == runs[r].chan IN
    /\ badge' = [d \in Channels |-> {}]
    /\ active' = c
    /\ redirect' = c
    /\ toasts' = {t \in toasts : ChannelOf[t[1]] # c}
    /\ runs' = [runs EXCEPT ![r] = Idle]
    /\ UNCHANGED <<server, frame>>

\* What the handler does in any case, at last: the badge goes, the entry is
\* highlighted, the channel is remembered and its toasts go.
Finish(r) ==
    LET c == runs[r].chan IN
    /\ badge' = [badge EXCEPT ![c] = {}]
    /\ active' = c
    /\ redirect' = c
    /\ toasts' = {t \in toasts : ChannelOf[t[1]] # c}
    /\ runs' = [runs EXCEPT ![r] = Idle]
    /\ UNCHANGED <<server, frame>>

\* Mutant: the container is not emptied.
ChannelReadAppends(r) ==
    LET s == runs[r].read IN
    /\ runs[r].stage = "read"
    /\ runs[r].chan \notin alone
    /\ shown' = runs[r].chan
    /\ content' = [m \in Messages |-> content[m] + (IF m \in Rendered(s) THEN 1 ELSE 0)]
    /\ target' = IF target # None /\ Rendered(s) = Range(s) /\ target.message \in Range(s)
                 THEN None ELSE target
    /\ seen' = seen \cup Rendered(s)
    /\ Finish(r)
    /\ UNCHANGED <<origin, here, told, raced, failed>>

\* fetchChannelById has answered: renderChannelContent.  A channel without messages
\* has null for them, and rendering throws when the container is empty; else, if all
\* of it is rendered, messageData is used up if its message is there.
ChannelRead(r) ==
    LET s == runs[r].read IN
    /\ runs[r].stage = "read"
    /\ runs[r].chan \notin alone
    /\ shown' = runs[r].chan
    /\ content' = [m \in Messages |-> IF m \in Rendered(s) THEN 1 ELSE 0]
    /\ target' = IF target # None /\ Rendered(s) = Range(s) /\ target.message \in Range(s)
                 THEN None ELSE target
    /\ seen' = seen \cup Rendered(s)
    /\ Finish(r)
    /\ UNCHANGED <<origin, here, told, raced, failed>>

\* The channel of a private chat without a partner: its title throws, when the page
\* has taken the channel and the container still holds what it held.
PartnerMissing(r) ==
    /\ runs[r].stage = "read"
    /\ runs[r].chan \in alone
    /\ shown' = runs[r].chan
    /\ Finish(r)
    /\ UNCHANGED <<target, content, history>>

\* The channel could not be fetched: its title throws; or the fetch itself throws.
ChannelFails(r) ==
    /\ runs[r].stage = "read"
    /\ shown' \in {shown, runs[r].chan}
    /\ failed' = failed \cup {runs[r].chan}
    /\ Finish(r)
    /\ UNCHANGED <<target, content, origin, here, told, seen, raced>>

\* Without a history rendering throws at once.
NothingRead(r) ==
    /\ runs[r].stage = "failed"
    /\ Finish(r)
    /\ UNCHANGED <<target, shown, content, history>>

-----------------------------------------------------------------------------
(* Messages and notifications                                              *)

\* subscribeChannel's callback: a message of the channel on screen is appended,
\* unless its sender is unknown; one of another channel is counted.
OnMessage(m) ==
    LET c == ChannelOf[m] IN
    /\ connected
    /\ c \in Sidebar
    /\ Stored(m) /\ m \notin here
    /\ here' = here \cup {m}
    /\ \/ /\ shown = c
          /\ m \notin Strangers
          /\ content' = [content EXCEPT ![m] = @ + 1]
          /\ seen' = seen \cup {m}
          /\ UNCHANGED <<badge, raced>>
       \/ /\ shown = c
          /\ m \in Strangers
          /\ UNCHANGED <<content, seen, badge, raced>>
       \/ /\ shown # c
          /\ badge' = [badge EXCEPT ![c] = @ \cup {m}]
          /\ raced' = IF \E r \in Runs : /\ runs[r].stage = "read" /\ runs[r].chan = c
                                         /\ m \notin Range(runs[r].read)
                      THEN raced \cup {m} ELSE raced
          /\ UNCHANGED <<content, seen>>
    /\ UNCHANGED <<server, storage, frame, shown, active, toasts, runs,
                   origin, told, failed>>

\* renderNotification: a toast, unless the message is the user's own, or of the
\* channel on screen, or its sender is unknown.
OnNotification(m, copy) ==
    /\ page \in {"chat", "broken"}
    /\ ChannelOf[m] \in mine
    /\ Stored(m) /\ <<m, copy>> \notin told
    /\ told' = told \cup {<<m, copy>>}
    /\ toasts' = IF m \in Own \cup Strangers \/ shown = ChannelOf[m]
                 THEN toasts ELSE toasts \cup {<<m, copy>>}
    /\ UNCHANGED <<server, storage, frame, shown, content, active, badge, runs,
                   origin, here, seen, raced, failed>>

\* A click on a toast: its message has no documentId, and messageData holds none.
\* The channel is clicked if it has an entry.
ClickToast(t) ==
    LET c == ChannelOf[t[1]] IN
    /\ t \in toasts
    /\ target' = [chan |-> c, message |-> None]
    /\ \E R \in SUBSET IdleRuns :
          /\ Cardinality(R) = handlers[c]
          /\ runs' = Started(R, c)
    /\ UNCHANGED <<server, redirect, frame, display, history>>

CloseToast(t) ==
    /\ t \in toasts
    /\ toasts' = toasts \ {t}
    /\ UNCHANGED <<server, storage, frame, shown, content, active, badge, runs, history>>

-----------------------------------------------------------------------------

\* The answers a run waits for.
Answered(r) ==
    \/ HistoryRead(r) \/ HistoryFails(r)
    \/ ChannelRead(r) \/ PartnerMissing(r) \/ ChannelFails(r)
    \/ NothingRead(r)

Next ==
    \/ Load \/ LoadThrows \/ Connected \/ Leave \/ StartCall \/ EndCall \/ AddMember
    \/ \E c \in Channels : AddedTo(c) \/ PartnerLeaves(c) \/ Click(c) \/ CreateChannel(c)
    \/ \E m \in Messages :
          \/ Post(m) \/ PickMessage(m) \/ OnMessage(m)
          \/ \E copy \in Copies : OnNotification(m, copy)
    \/ \E t \in toasts : ClickToast(t) \/ CloseToast(t)
    \/ \E r \in Runs : Answered(r)

Spec == Init /\ [][Next]_vars

\* The browser ends every fetch of a page that stays, one way or the other.
FairSpec == Spec /\ \A r \in Runs : WF_vars(Answered(r))

-----------------------------------------------------------------------------
(* Properties                                                              *)

\* What is on screen is not announced: the shown channel has no badge and no toast,
\* in whatever order messages, notifications and answers come.
NothingAnnouncedTwice ==
    shown # None => badge[shown] = {} /\ \A t \in toasts : ChannelOf[t[1]] # shown

\* The page, the highlighted entry and the channel to come back to are the same,
\* however runs overlap, as long as no fetch fails.
PageAgrees ==
    (shown # None /\ failed = {}) => active = shown /\ redirect = shown

OnScreen == {m \in Messages : content[m] > 0}

\* The container holds messages of the shown channel only, to which the user's
\* messages go, as long as no fetch fails, unless that channel is a private chat
\* whose partner is gone: then it may hold those of the channel before.
ContentOfShown ==
    (failed = {} /\ shown \notin alone) => \A m \in OnScreen : ChannelOf[m] = shown

\* A message that came is on screen or was, or is counted, unless it raced with a
\* run, or a fetch of its channel failed, or the partner of its channel is gone, or
\* rendering stops before it.
NothingVanishes ==
    \A m \in here :
        LET c == ChannelOf[m] IN
        \/ m \in seen \cup badge[c] \cup raced
        \/ c \in failed \cup alone
        \/ m \notin Rendered(log[c])

\* A message is on screen twice only if it came from the socket since the page was
\* loaded (in the history that was read, and live as well), and never three times,
\* however runs overlap and fetches fail.
TwiceOnlyIfLive ==
    \A m \in OnScreen : content[m] = 1 \/ (content[m] = 2 /\ m \in here)

\* "Redirect to the original channel": after a call the user comes back to the
\* channel where it was started.
ReturnsToOriginal == page = "call" => redirect = origin

\* A result of a search is found in the end, whatever is clicked meanwhile, if the
\* page can be loaded and stays, its channel can be fetched and has a partner if it
\* is a private chat, and all of it is rendered.
ResultFound ==
    LET c == target.chan
        Wanted == page = "chat" /\ target # None /\ target.message # None
    IN Wanted ~> (~Wanted \/ c \in failed \cup alone \/ Rendered(log[c]) # Range(log[c]))
=============================================================================
