------------------------- MODULE ChannelViewProofs -------------------------
(***************************************************************************)
(* Proofs about ChannelView, for every set of channels, messages, and      *)
(* (finite) set of handlers: what the page shows, announces and remembers  *)
(* agrees, in whatever order the answers, the messages, the notifications  *)
(* and the clicks come.                                                    *)
(***************************************************************************)
EXTENDS ChannelView, FiniteSetTheorems, TLAPS

USE ChannelAssumption, SenderAssumption, NoneAssumption

-----------------------------------------------------------------------------
(* What is rendered of a history                                           *)

LEMMA RenderedStored ==
    ASSUME NEW s \in Seq(Messages)
    PROVE  Rendered(s) \subseteq Range(s) /\ Rendered(s) \subseteq Messages
BY DEF Rendered, Range

\* A message of the beginning s of a history t that is rendered of t is rendered of s.
LEMMA RenderedPrefix ==
    ASSUME NEW s \in Seq(Messages), NEW t \in Seq(Messages), Len(s) <= Len(t),
           \A i \in DOMAIN s : s[i] = t[i],
           NEW m \in Range(s), m \in Rendered(t)
    PROVE  m \in Rendered(s)
<1>1. PICK k \in DOMAIN s : s[k] = m
    BY DEF Range
<1>2. PICK i \in DOMAIN t :
          t[i] = m /\ \A j \in DOMAIN t : t[j] \in Strangers => Earlier(t, i, j)
    BY DEF Rendered
<1>3. PICK h \in DOMAIN s : s[h] = m /\ h <= i
    <2>1. CASE k <= i
        BY <1>1, <2>1
    <2>2. CASE ~(k <= i)
        <3>1. i \in DOMAIN s /\ s[i] = m
            BY <1>1, <1>2, <2>2
        <3>. QED
            BY <3>1
    <2>. QED
        BY <2>1, <2>2
<1>4. ASSUME NEW j \in DOMAIN s, s[j] \in Strangers
      PROVE  Earlier(s, h, j)
    <2>1. j \in DOMAIN t /\ s[j] = t[j]
        BY <1>4
    <2>2. Earlier(t, i, j)
        BY <1>2, <1>4, <2>1
    <2>3. h \in Nat /\ i \in Nat /\ j \in Nat /\ s[h] = t[i]
        BY <1>2, <1>3, <2>1
    <2>. QED
        BY <1>3, <2>1, <2>2, <2>3 DEF Earlier
<1>. QED
    BY <1>3, <1>4 DEF Rendered

\* A message without a sender is not rendered.
LEMMA StrangersNotRendered ==
    ASSUME NEW s \in Seq(Messages), NEW m \in Strangers
    PROVE  m \notin Rendered(s)
<1>. SUFFICES ASSUME NEW i \in DOMAIN s, s[i] = m, Earlier(s, i, i)
              PROVE  FALSE
    BY DEF Rendered
<1>1. Stamp[m] \in Nat /\ i \in Nat
    BY StampAssumption
<1>. QED
    BY <1>1 DEF Earlier

-----------------------------------------------------------------------------
(* The inductive invariant                                                 *)

\* A handler under way is a record of what it has read.
Under == [stage : {"reading", "read", "failed"}, chan : Channels, read : Seq(Messages)]

RunsFit == runs \in [Runs -> {Idle} \cup Under]

\* The socket is the page's.
Online == connected => page = "chat"

\* A history holds the messages of its channel.
OwnHistory == \A c \in Channels : \A i \in DOMAIN log[c] : ChannelOf[log[c][i]] = c

\* What came from the socket is in the history.
HereStored == \A m \in here : Stored(m)

\* What a handler has read is the beginning of the history of its channel.
ReadsPrefix ==
    \A r \in Runs : runs[r] # Idle =>
        /\ Len(runs[r].read) <= Len(log[runs[r].chan])
        /\ \A i \in DOMAIN runs[r].read : runs[r].read[i] = log[runs[r].chan][i]

\* A handler without a history is one whose fetch failed.
FailuresKnown == \A r \in Runs : runs[r].stage = "failed" => runs[r].chan \in failed

\* A message that came after a handler had read the history of its channel was
\* shown, or raced, or cannot be rendered.
LateAreKnown ==
    \A r \in Runs, m \in here :
        (/\ runs[r].stage = "read"
         /\ runs[r].chan = ChannelOf[m]
         /\ m \notin Range(runs[r].read))
        => m \in seen \cup raced \cup Strangers

IInv ==
    /\ TypeOK /\ RunsFit /\ Online
    /\ OwnHistory /\ HereStored /\ ReadsPrefix /\ FailuresKnown /\ LateAreKnown
    /\ NothingAnnouncedTwice /\ PageAgrees /\ ContentOfShown /\ NothingVanishes
    /\ TwiceOnlyIfLive

LEMMA InitInvariant == Init => IInv
<1>. SUFFICES ASSUME Init PROVE IInv
    OBVIOUS
<1>1. Sidebar = {} /\ \A r \in Runs : runs[r] = Idle
    BY DEF Init, Sidebar
<1>2. TypeOK
    <2>1. /\ log \in [Channels -> Seq(Messages)]
          /\ handlers \in [Channels -> Nat]
          /\ badge \in [Channels -> SUBSET Messages]
          /\ content \in [Messages -> Nat]
        BY DEF Init, Blank
    <2>2. /\ mine \subseteq Channels /\ alone \subseteq Private
          /\ told \subseteq Messages \X Copies
          /\ redirect \in Channels \cup {None}
          /\ target \in Target
          /\ page \in {"chat", "broken", "call", "away"}
          /\ connected \in BOOLEAN
          /\ toasts \subseteq Messages \X Copies
          /\ origin \in Channels \cup {None}
          /\ {here, seen, raced} \subseteq SUBSET Messages
          /\ failed \subseteq Channels
        BY DEF Init, Target
    <2>3. /\ {cached, shown, active} \subseteq Sidebar \cup {None}
          /\ \A c \in Channels \ Sidebar : badge[c] = {}
          /\ page # "chat" => Sidebar = {} /\ content = Blank
          /\ page \in {"call", "away"} => toasts = {}
        BY <1>1 DEF Init
    <2>. QED
        BY <1>1, <2>1, <2>2, <2>3 DEF TypeOK
<1>3. RunsFit /\ Online
    BY <1>1 DEF Init, RunsFit, Online
<1>4. OwnHistory /\ HereStored
    BY DEF Init, OwnHistory, HereStored
<1>5. ReadsPrefix /\ FailuresKnown /\ LateAreKnown
    BY <1>1 DEF Init, ReadsPrefix, FailuresKnown, LateAreKnown, Idle
<1>6. NothingAnnouncedTwice /\ PageAgrees /\ ContentOfShown /\ NothingVanishes
    BY DEF Init, NothingAnnouncedTwice, PageAgrees, ContentOfShown, NothingVanishes,
           OnScreen, Blank
<1>7. TwiceOnlyIfLive
    BY DEF Init, TwiceOnlyIfLive, OnScreen, Blank
<1>. QED
    BY <1>2, <1>3, <1>4, <1>5, <1>6, <1>7 DEF IInv

-----------------------------------------------------------------------------
(* What a step may do to each part of the state                            *)

\* All that the page holds is gone.
Gone ==
    /\ handlers' = [c \in Channels |-> 0]
    /\ cached' = None
    /\ shown' = None
    /\ active' = None
    /\ content' = Blank
    /\ badge' = [c \in Channels |-> {}]
    /\ toasts' = {}
    /\ runs' = [r \in Runs |-> Idle]
    /\ connected' = FALSE
    /\ here' = {}
    /\ told' = {}
    /\ seen' = {}
    /\ raced' = {}
    /\ failed' = {}

\* What is done to toasts.
Notified == \E m \in Messages, copy \in Copies : OnNotification(m, copy)
ToastClicked == \E t \in toasts : ClickToast(t)
ToastClosed == \E t \in toasts : CloseToast(t)

LEMMA NextIs ==
    Next <=> \/ Load \/ LoadThrows \/ Connected \/ Leave \/ StartCall \/ EndCall \/ AddMember
             \/ \E c \in Channels :
                   AddedTo(c) \/ PartnerLeaves(c) \/ Click(c) \/ CreateChannel(c)
             \/ \E m \in Messages : Post(m) \/ PickMessage(m) \/ OnMessage(m)
             \/ Notified \/ ToastClicked \/ ToastClosed
             \/ \E r \in Runs : Answered(r)
BY DEF Next, Notified, ToastClicked, ToastClosed

LEMMA UnloadIsGone == (Unload <=> Gone)
BY DEF Unload, Gone

\* The histories change by messages that are sent.
LEMMA LogStep ==
    ASSUME [Next]_vars
    PROVE  log' = log \/ \E m \in Messages : Post(m)
<1>. SUFFICES ASSUME ~\E m \in Messages : Post(m) PROVE log' = log
    OBVIOUS
<1>1. CASE UNCHANGED vars
    BY <1>1 DEF vars, server
<1>2. CASE Load \/ LoadThrows \/ Connected \/ Leave \/ StartCall \/ EndCall \/ AddMember
    BY <1>2 DEF Load, LoadThrows, Connected, Leave, StartCall, EndCall, AddMember, server
<1>3. CASE \E c \in Channels : AddedTo(c) \/ PartnerLeaves(c) \/ Click(c) \/ CreateChannel(c)
    BY <1>3 DEF AddedTo, PartnerLeaves, Click, CreateChannel, server
<1>4. CASE \/ \E m \in Messages : PickMessage(m) \/ OnMessage(m)
           \/ Notified \/ ToastClicked \/ ToastClosed
    BY <1>4 DEF PickMessage, OnMessage, Notified, OnNotification, ToastClicked,
                ClickToast, ToastClosed, CloseToast, server
<1>5. CASE \E r \in Runs : Answered(r)
    BY <1>5 DEF Answered, HistoryRead, HistoryFails, ChannelRead, PartnerMissing, ChannelFails,
                NothingRead, Finish, server
<1>. QED
    BY <1>1, <1>2, <1>3, <1>4, <1>5, NextIs

\* The messages that came change by messages that come, and go with the page.
LEMMA HereStep ==
    ASSUME [Next]_vars
    PROVE  here' = here \/ Gone \/ \E m \in Messages : OnMessage(m)
<1>. SUFFICES ASSUME ~\E m \in Messages : OnMessage(m) PROVE here' = here \/ Gone
    OBVIOUS
<1>1. CASE UNCHANGED vars
    BY <1>1 DEF vars, history
<1>2. CASE Load \/ LoadThrows \/ Connected \/ EndCall \/ AddMember
    BY <1>2 DEF Load, LoadThrows, Connected, EndCall, AddMember, display, history
<1>3. CASE Leave \/ StartCall
    BY <1>3, UnloadIsGone DEF Leave, StartCall
<1>4. CASE \E c \in Channels : AddedTo(c) \/ PartnerLeaves(c) \/ Click(c) \/ CreateChannel(c)
    BY <1>4 DEF AddedTo, PartnerLeaves, Click, CreateChannel, history
<1>5. CASE \/ \E m \in Messages : Post(m) \/ PickMessage(m)
           \/ Notified \/ ToastClicked \/ ToastClosed
    BY <1>5 DEF Post, PickMessage, Notified, OnNotification, ToastClicked, ClickToast,
                ToastClosed, CloseToast, history
<1>6. CASE \E r \in Runs : Answered(r)
    BY <1>6 DEF Answered, HistoryRead, HistoryFails, ChannelRead, PartnerMissing, ChannelFails,
                NothingRead, history
<1>. QED
    BY <1>1, <1>2, <1>3, <1>4, <1>5, <1>6, NextIs

\* Handlers of clicks begin.
Begins == \E c \in Channels : \E R \in SUBSET Runs : runs' = Started(R, c)

\* The handlers change when some begin, when they are answered, and go with the page.
LEMMA RunsStep ==
    ASSUME mine \subseteq Channels, toasts \subseteq Messages \X Copies, [Next]_vars
    PROVE  runs' = runs \/ Gone \/ Begins \/ \E r \in Runs : Answered(r)
<1>. SUFFICES ASSUME ~\E r \in Runs : Answered(r) PROVE runs' = runs \/ Gone \/ Begins
    OBVIOUS
<1>1. CASE UNCHANGED vars
    BY <1>1 DEF vars
<1>2. CASE LoadThrows \/ Connected \/ EndCall \/ AddMember
    BY <1>2 DEF LoadThrows, Connected, EndCall, AddMember
<1>3. CASE Leave \/ StartCall
    BY <1>3, UnloadIsGone DEF Leave, StartCall
<1>4. CASE Load
    <2>1. runs' = runs \/ \E c \in mine, r \in Runs : runs' = Started({r}, c)
        BY <1>4 DEF Load
    <2>. QED
        BY <2>1 DEF Begins
<1>5. CASE \E c \in Channels : AddedTo(c) \/ PartnerLeaves(c) \/ Click(c) \/ CreateChannel(c)
    BY <1>5 DEF AddedTo, PartnerLeaves, Click, CreateChannel, IdleRuns, Begins
<1>6. CASE ToastClicked
    <2>1. PICK t \in toasts : ClickToast(t)
        BY <1>6 DEF ToastClicked
    <2>2. ChannelOf[t[1]] \in Channels
        OBVIOUS
    <2>. QED
        BY <2>1, <2>2 DEF ClickToast, IdleRuns, Begins
<1>7. CASE \/ \E m \in Messages : Post(m) \/ PickMessage(m) \/ OnMessage(m)
           \/ Notified \/ ToastClosed
    BY <1>7 DEF Post, PickMessage, OnMessage, Notified, OnNotification, ToastClosed,
                CloseToast
<1>. QED
    BY <1>1, <1>2, <1>3, <1>4, <1>5, <1>6, <1>7, NextIs

-----------------------------------------------------------------------------
(* The handlers of clicks                                                  *)

\* Those that begin have read nothing, the others go on.
LEMMA BeginEffect ==
    ASSUME NEW c \in Channels, NEW R \in SUBSET Runs, runs' = Started(R, c), RunsFit
    PROVE  /\ \A r \in R : runs'[r] = [stage |-> "reading", chan |-> c, read |-> <<>>]
           /\ \A r \in Runs \ R : runs'[r] = runs[r]
           /\ RunsFit'
<1>1. /\ \A r \in R : runs'[r] = [stage |-> "reading", chan |-> c, read |-> <<>>]
      /\ \A r \in Runs \ R : runs'[r] = runs[r]
      /\ runs' = [r \in Runs |-> runs'[r]]
    BY DEF Started
<1>2. [stage |-> "reading", chan |-> c, read |-> <<>>] \in Under
    BY DEF Under
<1>3. \A r \in Runs : runs'[r] \in {Idle} \cup Under
    BY <1>1, <1>2 DEF RunsFit
<1>. QED
    BY <1>1, <1>3 DEF RunsFit

\* A history that is read.
LEMMA ReadEffect ==
    ASSUME NEW r \in Runs, HistoryRead(r), RunsFit, TypeOK
    PROVE  /\ runs[r] \in Under
           /\ runs'[r] = [stage |-> "read", chan |-> runs[r].chan,
                          read |-> log[runs[r].chan]]
           /\ \A q \in Runs \ {r} : runs'[q] = runs[q]
           /\ RunsFit'
<1>1. runs[r] \in Under
    BY DEF HistoryRead, RunsFit, Idle
<1>2. runs' = [runs EXCEPT ![r].stage = "read", ![r].read = log[runs[r].chan]]
    BY DEF HistoryRead
<1>3. runs = [q \in Runs |-> runs[q]]
    BY DEF RunsFit
<1>4. /\ runs'[r] = [runs[r] EXCEPT !.stage = "read", !.read = log[runs[r].chan]]
      /\ \A q \in Runs \ {r} : runs'[q] = runs[q]
      /\ runs' = [q \in Runs |-> runs'[q]]
    BY <1>2, <1>3
<1>5. runs'[r] = [stage |-> "read", chan |-> runs[r].chan, read |-> log[runs[r].chan]]
    BY <1>1, <1>4 DEF Under
<1>6. log[runs[r].chan] \in Seq(Messages)
    BY <1>1 DEF Under, TypeOK
<1>7. runs'[r] \in Under
    BY <1>1, <1>5, <1>6 DEF Under
<1>8. \A q \in Runs : runs'[q] \in {Idle} \cup Under
    BY <1>4, <1>7 DEF RunsFit
<1>. QED
    BY <1>1, <1>4, <1>5, <1>8 DEF RunsFit

\* A history that cannot be read.
LEMMA FailEffect ==
    ASSUME NEW r \in Runs, HistoryFails(r), RunsFit
    PROVE  /\ runs[r] \in Under
           /\ runs'[r] = [stage |-> "failed", chan |-> runs[r].chan, read |-> runs[r].read]
           /\ \A q \in Runs \ {r} : runs'[q] = runs[q]
           /\ RunsFit'
<1>1. runs[r] \in Under
    BY DEF HistoryFails, RunsFit, Idle
<1>2. runs' = [runs EXCEPT ![r].stage = "failed"]
    BY DEF HistoryFails
<1>3. runs = [q \in Runs |-> runs[q]]
    BY DEF RunsFit
<1>4. /\ runs'[r] = [runs[r] EXCEPT !.stage = "failed"]
      /\ \A q \in Runs \ {r} : runs'[q] = runs[q]
      /\ runs' = [q \in Runs |-> runs'[q]]
    BY <1>2, <1>3
<1>5. runs'[r] = [stage |-> "failed", chan |-> runs[r].chan, read |-> runs[r].read]
    BY <1>1, <1>4 DEF Under
<1>7. runs'[r] \in Under
    BY <1>1, <1>5 DEF Under
<1>8. \A q \in Runs : runs'[q] \in {Idle} \cup Under
    BY <1>4, <1>7 DEF RunsFit
<1>. QED
    BY <1>1, <1>4, <1>5, <1>8 DEF RunsFit

\* The handler that has come to its end.
Ends(r) == ChannelRead(r) \/ PartnerMissing(r) \/ ChannelFails(r) \/ NothingRead(r)

LEMMA EndEffect ==
    ASSUME NEW r \in Runs, Ends(r), RunsFit
    PROVE  /\ runs[r] \in Under
           /\ Finish(r)
           /\ runs'[r] = Idle
           /\ \A q \in Runs \ {r} : runs'[q] = runs[q]
           /\ RunsFit'
<1>1. runs[r] \in Under
    BY DEF Ends, ChannelRead, PartnerMissing, ChannelFails, NothingRead, RunsFit, Idle
<1>2. Finish(r)
    BY DEF Ends, ChannelRead, PartnerMissing, ChannelFails, NothingRead
<1>3. runs' = [runs EXCEPT ![r] = Idle]
    BY <1>2 DEF Finish
<1>4. runs = [q \in Runs |-> runs[q]]
    BY DEF RunsFit
<1>5. /\ runs'[r] = Idle
      /\ \A q \in Runs \ {r} : runs'[q] = runs[q]
      /\ runs' = [q \in Runs |-> runs'[q]]
    BY <1>3, <1>4
<1>6. \A q \in Runs : runs'[q] \in {Idle} \cup Under
    BY <1>5 DEF RunsFit
<1>. QED
    BY <1>1, <1>2, <1>5, <1>6 DEF RunsFit

\* What may become of one handler.
LEMMA RunStep ==
    ASSUME TypeOK, RunsFit, [Next]_vars, NEW r \in Runs
    PROVE  \/ runs'[r] = runs[r]
           \/ runs'[r] = Idle
           \/ \E c \in Channels : runs'[r] = [stage |-> "reading", chan |-> c, read |-> <<>>]
           \/ HistoryRead(r)
           \/ HistoryFails(r)
<1>1. mine \subseteq Channels /\ toasts \subseteq Messages \X Copies
    BY DEF TypeOK
<1>2. CASE runs' = runs \/ Gone
    BY <1>2 DEF Gone
<1>3. CASE Begins
    BY <1>3, BeginEffect DEF Begins
<1>4. CASE \E q \in Runs : Answered(q)
    <2>1. PICK q \in Runs : Answered(q)
        BY <1>4
    <2>2. CASE HistoryRead(q)
        BY <2>2, ReadEffect
    <2>3. CASE HistoryFails(q)
        BY <2>3, FailEffect
    <2>4. CASE Ends(q)
        BY <2>4, EndEffect
    <2>. QED
        BY <2>1, <2>2, <2>3, <2>4 DEF Answered, Ends
<1>. QED
    BY <1>1, <1>2, <1>3, <1>4, RunsStep

LEMMA RunsFitInvariant ==
    ASSUME TypeOK, RunsFit, [Next]_vars
    PROVE  RunsFit'
<1>1. mine \subseteq Channels /\ toasts \subseteq Messages \X Copies
    BY DEF TypeOK
<1>2. CASE runs' = runs \/ Gone
    BY <1>2 DEF Gone, RunsFit
<1>3. CASE Begins
    BY <1>3, BeginEffect DEF Begins
<1>4. CASE \E q \in Runs : Answered(q)
    <2>1. PICK q \in Runs : Answered(q)
        BY <1>4
    <2>2. CASE HistoryRead(q)
        BY <2>2, ReadEffect
    <2>3. CASE HistoryFails(q)
        BY <2>3, FailEffect
    <2>4. CASE Ends(q)
        BY <2>4, EndEffect
    <2>. QED
        BY <2>1, <2>2, <2>3, <2>4 DEF Answered, Ends
<1>. QED
    BY <1>1, <1>2, <1>3, <1>4, RunsStep

-----------------------------------------------------------------------------
(* Types                                                                   *)

\* What every handler of the page is about to show has an entry.
Listed == \A r \in Runs : runs[r] = Idle \/ runs[r].chan \in Sidebar

LEMMA HandlersTyped ==
    ASSUME RunsFit
    PROVE  (\A r \in Runs :
               runs[r] = Idle \/ /\ runs[r].stage \in {"reading", "read", "failed"}
                                 /\ runs[r].chan \in Sidebar
                                 /\ runs[r].read \in Seq(Messages))
           <=> Listed
BY DEF RunsFit, Under, Listed

LEMMA TypeStutter ==
    ASSUME TypeOK, UNCHANGED vars
    PROVE  TypeOK'
BY DEF TypeOK, vars, server, storage, frame, display, history, Sidebar

LEMMA TypeServers ==
    ASSUME TypeOK, \/ \E c \in Channels : AddedTo(c) \/ PartnerLeaves(c)
                   \/ \E m \in Messages : Post(m)
    PROVE  TypeOK'
<1>1. /\ log' \in [Channels -> Seq(Messages)]
      /\ mine' \subseteq Channels
      /\ alone' \subseteq Private
    <2>1. log \in [Channels -> Seq(Messages)] /\ mine \subseteq Channels /\ alone \subseteq Private
        BY DEF TypeOK
    <2>2. CASE \E c \in Channels : AddedTo(c) \/ PartnerLeaves(c)
        BY <2>1, <2>2 DEF AddedTo, PartnerLeaves
    <2>3. ASSUME NEW m \in Messages, Post(m)
          PROVE  log' \in [Channels -> Seq(Messages)] /\ UNCHANGED <<mine, alone>>
        <3>1. log' = [log EXCEPT ![ChannelOf[m]] = Append(@, m)] /\ UNCHANGED <<mine, alone>>
            BY <2>3 DEF Post
        <3>2. Append(log[ChannelOf[m]], m) \in Seq(Messages)
            BY <2>1
        <3>. QED
            BY <2>1, <3>1, <3>2
    <2>. QED
        BY <2>1, <2>2, <2>3
<1>2. UNCHANGED <<storage, frame, display, runs, history>>
    BY DEF AddedTo, PartnerLeaves, Post
<1>. QED
    BY <1>1, <1>2 DEF TypeOK, storage, frame, display, history, Sidebar

LEMMA TypePick ==
    ASSUME TypeOK, NEW m \in Messages, PickMessage(m)
    PROVE  TypeOK'
<1>1. target' \in Target
    BY DEF PickMessage, Target
<1>2. UNCHANGED <<server, redirect, frame, display, runs, history>>
    BY DEF PickMessage
<1>. QED
    BY <1>1, <1>2 DEF TypeOK, server, frame, display, history, Sidebar

LEMMA TypeFrame ==
    ASSUME TypeOK, Connected \/ EndCall \/ AddMember
    PROVE  TypeOK'
<1>1. /\ connected' \in BOOLEAN
      /\ page' \in {"chat", "broken", "call", "away"}
      /\ page = "chat" <=> page' = "chat"
      /\ page' \in {"call", "away"} => page \in {"call", "away"}
      /\ cached' \in Sidebar \cup {None}
      /\ origin' \in Channels \cup {None}
    <2>1. /\ connected \in BOOLEAN
          /\ page \in {"chat", "broken", "call", "away"}
          /\ cached \in Sidebar \cup {None} /\ shown \in Sidebar \cup {None}
          /\ origin \in Channels \cup {None}
        BY DEF TypeOK
    <2>2. CASE Connected
        BY <2>1, <2>2 DEF Connected, history
    <2>3. CASE EndCall
        BY <2>1, <2>3 DEF EndCall
    <2>4. CASE AddMember
        BY <2>1, <2>4 DEF AddMember, Data, history
    <2>. QED
        BY <2>2, <2>3, <2>4
<1>2. UNCHANGED <<server, storage, handlers, display, runs, here, told, seen, raced, failed>>
    BY DEF Connected, EndCall, AddMember, history
<1>. QED
    BY <1>1, <1>2 DEF TypeOK, server, storage, display, Sidebar

LEMMA TypeGone ==
    ASSUME TypeOK, Leave \/ StartCall
    PROVE  TypeOK'
<1>1. /\ Gone
      /\ UNCHANGED <<server, target>>
      /\ page' \in {"away", "call"}
    BY UnloadIsGone DEF Leave, StartCall, storage
<1>2. redirect' \in Channels \cup {None} /\ origin' \in Channels \cup {None}
    <2>1. /\ cached \in Channels \cup {None} /\ shown \in Channels \cup {None}
          /\ redirect \in Channels \cup {None} /\ origin \in Channels \cup {None}
        BY DEF TypeOK, Sidebar
    <2>2. CASE Leave
        BY <2>1, <2>2 DEF Leave, storage
    <2>3. CASE StartCall
        BY <2>1, <2>3 DEF StartCall, Data
    <2>. QED
        BY <2>2, <2>3
<1>3. handlers' \in [Channels -> Nat] /\ badge' \in [Channels -> SUBSET Messages]
    BY <1>1 DEF Gone
<1>4. Sidebar' = {} /\ \A c \in Channels : badge'[c] = {}
    BY <1>1 DEF Gone, Sidebar
<1>5. \A r \in Runs : runs'[r] = Idle
    BY <1>1 DEF Gone
<1>6. /\ {cached', shown', active'} \subseteq Sidebar' \cup {None}
      /\ connected' \in BOOLEAN
      /\ content' \in [Messages -> Nat] /\ content' = Blank
      /\ toasts' = {} /\ here' = {} /\ told' = {}
      /\ seen' = {} /\ raced' = {} /\ failed' = {}
    <2>1. cached' = None /\ shown' = None /\ active' = None
        BY <1>1 DEF Gone
    <2>2. connected' = FALSE /\ content' = Blank
        BY <1>1 DEF Gone
    <2>3. toasts' = {} /\ here' = {} /\ told' = {} /\ seen' = {} /\ raced' = {} /\ failed' = {}
        BY <1>1 DEF Gone
    <2>4. {cached', shown', active'} \subseteq Sidebar' \cup {None}
        BY <2>1
    <2>5. Blank \in [Messages -> Nat]
        BY DEF Blank
    <2>6. content' \in [Messages -> Nat]
        BY <2>2, <2>5
    <2>. QED
        BY <2>2, <2>3, <2>4, <2>6
<1>7. /\ log' \in [Channels -> Seq(Messages)]
      /\ mine' \subseteq Channels
      /\ alone' \subseteq Private
      /\ target' \in Target
    BY <1>1 DEF TypeOK, server
<1>. QED
    BY <1>1, <1>2, <1>3, <1>4, <1>5, <1>6, <1>7 DEF TypeOK

LEMMA TypeLoadThrows ==
    ASSUME TypeOK, LoadThrows
    PROVE  TypeOK'
<1>1. /\ UNCHANGED <<server, storage, connected, handlers, cached, display, runs, history>>
      /\ page = "away" /\ page' = "broken"
    BY DEF LoadThrows
<1>2. Sidebar' = Sidebar
    BY <1>1 DEF Sidebar
<1>. QED
    BY <1>1, <1>2 DEF TypeOK, server, storage, display, history

LEMMA TypeLoad ==
    ASSUME TypeOK, RunsFit, Load, RunsFit'
    PROVE  TypeOK'
<1>1. Sidebar' = mine /\ Sidebar = {} /\ handlers' \in [Channels -> Nat]
    BY DEF TypeOK, Load, Sidebar
<1>2. UNCHANGED <<server, storage, connected, cached, display, history>>
    BY DEF Load
<1>3. Listed
    BY HandlersTyped DEF TypeOK
<1>4. \A r \in Runs : runs[r] = Idle
    BY <1>1, <1>3 DEF Listed
<1>5. runs' = runs \/ \E c \in mine, r \in Runs : runs' = Started({r}, c)
    BY DEF Load
<1>6. Listed'
    <2>1. CASE runs' = runs
        BY <2>1, <1>4 DEF Listed
    <2>2. ASSUME NEW c \in mine, NEW r \in Runs, runs' = Started({r}, c)
          PROVE  Listed'
        <3>1. c \in Channels
            BY DEF TypeOK
        <3>2. /\ \A q \in {r} : runs'[q] = [stage |-> "reading", chan |-> c, read |-> <<>>]
              /\ \A q \in Runs \ {r} : runs'[q] = runs[q]
            <4>1. {r} \in SUBSET Runs
                OBVIOUS
            <4>. QED
                BY <2>2, <3>1, <4>1, BeginEffect
        <3>3. runs'[r].chan = c
            BY <3>2
        <3>4. \A q \in Runs \ {r} : runs'[q] = runs[q]
            BY <3>2
        <3>. QED
            BY <3>3, <3>4, <1>1, <1>4 DEF Listed
    <2>. QED
        BY <1>5, <2>1, <2>2
<1>7. page' = "chat"
    BY DEF Load
<1>8. (\A r \in Runs :
          runs[r] = Idle \/ /\ runs[r].stage \in {"reading", "read", "failed"}
                            /\ runs[r].chan \in Sidebar
                            /\ runs[r].read \in Seq(Messages))'
    BY <1>6 DEF RunsFit, Under, Listed
<1>. QED
    BY <1>1, <1>2, <1>7, <1>8 DEF TypeOK, server, storage, display, history

\* The handlers fit when they do, and each is of an entry.
LEMMA TypeHandlers ==
    ASSUME RunsFit', Listed'
    PROVE  (\A r \in Runs :
               runs[r] = Idle \/ /\ runs[r].stage \in {"reading", "read", "failed"}
                                 /\ runs[r].chan \in Sidebar
                                 /\ runs[r].read \in Seq(Messages))'
BY DEF RunsFit, Under, Listed

\* Handlers of an entry begin.
LEMMA BeginListed ==
    ASSUME NEW c \in Channels, NEW R \in SUBSET Runs, runs' = Started(R, c), RunsFit,
           Listed, Sidebar \subseteq Sidebar', c \in Sidebar' \/ R = {}
    PROVE  Listed'
<1>1. /\ \A r \in R : runs'[r] = [stage |-> "reading", chan |-> c, read |-> <<>>]
      /\ \A r \in Runs \ R : runs'[r] = runs[r]
    BY BeginEffect
<1>2. \A r \in R : runs'[r].chan \in Sidebar'
    BY <1>1
<1>. QED
    BY <1>1, <1>2 DEF Listed

LEMMA TypeClick ==
    ASSUME TypeOK, RunsFit, NEW c \in Channels, Click(c), RunsFit'
    PROVE  TypeOK'
<1>1. Listed
    BY HandlersTyped DEF TypeOK
<1>2. UNCHANGED <<server, storage, frame, display, history>>
    BY DEF Click
<1>3. Sidebar' = Sidebar /\ c \in Sidebar
    BY <1>2 DEF Sidebar, frame, Click
<1>4. \E R \in SUBSET Runs : runs' = Started(R, c)
    BY DEF Click, IdleRuns
<1>5. Listed'
    BY <1>1, <1>3, <1>4, BeginListed
<1>. QED
    BY <1>2, <1>3, <1>5, TypeHandlers
    DEF TypeOK, server, storage, frame, display, history

LEMMA TypeClickToast ==
    ASSUME TypeOK, RunsFit, NEW t \in toasts, ClickToast(t), RunsFit'
    PROVE  TypeOK'
<1>. DEFINE c == ChannelOf[t[1]]
<1>0. t[1] \in Messages
    BY DEF TypeOK
<1>1. Listed
    BY HandlersTyped DEF TypeOK
<1>2. UNCHANGED <<server, redirect, frame, display, history>>
    BY DEF ClickToast
<1>3. Sidebar' = Sidebar
    BY <1>2 DEF Sidebar, frame
<1>4. PICK R \in SUBSET IdleRuns : Cardinality(R) = handlers[c] /\ runs' = Started(R, c)
    BY DEF ClickToast
<1>5. R \in SUBSET Runs /\ IsFiniteSet(R)
    BY RunsAssumption, FS_Subset DEF IdleRuns
<1>6. c \in Sidebar \/ R = {}
    <2>1. handlers[c] \in Nat
        BY DEF TypeOK
    <2>2. CASE handlers[c] = 0
        BY <2>2, <1>4, <1>5, FS_EmptySet
    <2>3. CASE handlers[c] > 0
        BY <1>0, <2>3 DEF Sidebar
    <2>. QED
        BY <2>1, <2>2, <2>3
<1>7. c \in Channels
    BY <1>0
<1>8. Listed'
    <2>. HIDE DEF c
    <2>. QED
        BY <1>1, <1>3, <1>4, <1>5, <1>6, <1>7, BeginListed
<1>9. target' \in Target
    BY <1>0 DEF ClickToast, Target
<1>. QED
    BY <1>2, <1>3, <1>8, <1>9, TypeHandlers
    DEF TypeOK, server, frame, display, history

LEMMA TypeCreate ==
    ASSUME TypeOK, RunsFit, Online, NEW c \in Channels, CreateChannel(c), RunsFit'
    PROVE  TypeOK'
<1>1. Listed
    BY HandlersTyped DEF TypeOK
<1>2. UNCHANGED <<log, alone, storage, page, connected, cached, display, history>>
    BY DEF CreateChannel
<1>3. page = "chat"
    BY DEF CreateChannel, Online
<1>4. /\ handlers' \in [Channels -> Nat]
      /\ Sidebar' = Sidebar \cup {c}
      /\ mine' \subseteq Channels
    <2>1. handlers \in [Channels -> Nat] /\ mine \subseteq Channels
        BY DEF TypeOK
    <2>2. handlers' = [d \in Channels |->
                          IF d \in Sidebar \cup {c} THEN handlers[d] + 1 ELSE 0]
          /\ mine' = mine \cup {c}
        BY DEF CreateChannel
    <2>3. Sidebar' = {d \in Channels : handlers'[d] > 0}
        BY DEF Sidebar
    <2>4. \A d \in Channels : handlers'[d] > 0 <=> d \in Sidebar \cup {c}
        BY <2>1, <2>2
    <2>5. Sidebar \subseteq Channels
        BY DEF Sidebar
    <2>6. \A d \in Channels : handlers'[d] \in Nat
        BY <2>1, <2>2
    <2>. QED
        BY <2>1, <2>2, <2>3, <2>4, <2>5, <2>6
<1>5. \E R \in SUBSET Runs : runs' = Started(R, c)
    BY DEF CreateChannel, IdleRuns
<1>6. Listed'
    BY <1>1, <1>4, <1>5, BeginListed
<1>. QED
    BY <1>2, <1>3, <1>4, <1>6, TypeHandlers
    DEF TypeOK, storage, display, history

LEMMA TypeHistory ==
    ASSUME TypeOK, RunsFit, NEW r \in Runs, HistoryRead(r) \/ HistoryFails(r), RunsFit'
    PROVE  TypeOK'
<1>1. Listed
    BY HandlersTyped DEF TypeOK
<1>2. /\ UNCHANGED <<server, storage, frame, display, origin, here, told, seen, raced>>
      /\ failed' = failed \/ failed' = failed \cup {runs[r].chan}
    BY DEF HistoryRead, HistoryFails, history
<1>3. /\ runs[r] \in Under
      /\ runs'[r].chan = runs[r].chan
      /\ \A q \in Runs \ {r} : runs'[q] = runs[q]
    <2>1. CASE HistoryRead(r)
        <3>1. /\ runs[r] \in Under
              /\ runs'[r] = [stage |-> "read", chan |-> runs[r].chan,
                             read |-> log[runs[r].chan]]
              /\ \A q \in Runs \ {r} : runs'[q] = runs[q]
            BY <2>1, ReadEffect
        <3>. QED
            BY <3>1
    <2>2. CASE HistoryFails(r)
        <3>1. /\ runs[r] \in Under
              /\ runs'[r] = [stage |-> "failed", chan |-> runs[r].chan, read |-> runs[r].read]
              /\ \A q \in Runs \ {r} : runs'[q] = runs[q]
            BY <2>2, FailEffect
        <3>. QED
            BY <3>1
    <2>. QED
        BY <2>1, <2>2
<1>4. Sidebar' = Sidebar
    BY <1>2 DEF Sidebar, frame
<1>5. Listed'
    BY <1>1, <1>3, <1>4 DEF Listed, Under, Idle
<1>6. failed' \subseteq Channels
    BY <1>2, <1>3 DEF TypeOK, Under
<1>. QED
    BY <1>2, <1>4, <1>5, <1>6, TypeHandlers
    DEF TypeOK, server, storage, frame, display

LEMMA TypeEnds ==
    ASSUME TypeOK, RunsFit, NEW r \in Runs, Ends(r), RunsFit'
    PROVE  TypeOK'
<1>. DEFINE c == runs[r].chan
<1>1. Listed
    BY HandlersTyped DEF TypeOK
<1>2. /\ runs[r] \in Under
      /\ Finish(r)
      /\ runs'[r] = Idle
      /\ \A q \in Runs \ {r} : runs'[q] = runs[q]
    BY EndEffect
<1>3. c \in Channels /\ c \in Sidebar /\ runs[r].read \in Seq(Messages)
    BY <1>1, <1>2 DEF Under, Listed, Idle
<1>4. /\ UNCHANGED <<server, frame>>
      /\ badge' = [badge EXCEPT ![c] = {}]
      /\ active' = c
      /\ redirect' = c
      /\ toasts' \subseteq toasts
    BY <1>2 DEF Finish
<1>5. Sidebar' = Sidebar
    BY <1>4 DEF Sidebar, frame
<1>6. Listed'
    BY <1>1, <1>2, <1>5 DEF Listed
<1>7. /\ shown' \in Sidebar \cup {None}
      /\ content' \in [Messages -> Nat]
      /\ target' \in Target
      /\ seen' \subseteq Messages
      /\ failed' \subseteq Channels
      /\ UNCHANGED <<origin, here, told, raced>>
    <2>1. /\ shown \in Sidebar \cup {None}
          /\ content \in [Messages -> Nat]
          /\ target \in Target
          /\ seen \subseteq Messages
          /\ failed \subseteq Channels
        BY DEF TypeOK
    <2>2. CASE ChannelRead(r)
        <3>1. Rendered(runs[r].read) \subseteq Messages
            BY <1>3, RenderedStored
        <3>2. /\ shown' = c
              /\ content' = [m \in Messages |-> IF m \in Rendered(runs[r].read) THEN 1 ELSE 0]
              /\ target' = None \/ target' = target
              /\ seen' = seen \cup Rendered(runs[r].read)
              /\ UNCHANGED <<origin, here, told, raced, failed>>
            BY <2>2 DEF ChannelRead
        <3>3. None \in Target
            BY DEF Target
        <3>4. content' \in [Messages -> Nat]
            BY <3>2
        <3>. QED
            BY <2>1, <3>1, <3>2, <3>3, <3>4, <1>3
    <2>3. CASE ChannelFails(r)
        BY <2>1, <2>3, <1>3 DEF ChannelFails
    <2>4. CASE NothingRead(r)
        BY <2>1, <2>4 DEF NothingRead, history
    <2>5. CASE PartnerMissing(r)
        BY <2>1, <2>5, <1>3 DEF PartnerMissing, history
    <2>. QED
        BY <2>2, <2>3, <2>4, <2>5 DEF Ends
<1>8. /\ badge' \in [Channels -> SUBSET Messages]
      /\ \A d \in Channels \ Sidebar : badge'[d] = {}
    <2>1. /\ badge \in [Channels -> SUBSET Messages]
          /\ \A d \in Channels \ Sidebar : badge[d] = {}
        BY DEF TypeOK
    <2>. QED
        BY <1>3, <1>4, <2>1
<1>9. page = "chat"
    BY <1>3 DEF TypeOK
<1>10. redirect' \in Channels \cup {None} /\ active' \in Sidebar' \cup {None}
    BY <1>3, <1>4, <1>5
<1>. HIDE DEF c
<1>. QED
    BY <1>4, <1>5, <1>6, <1>7, <1>8, <1>9, <1>10, TypeHandlers
    DEF TypeOK, server, frame

LEMMA TypeMessage ==
    ASSUME TypeOK, NEW m \in Messages, OnMessage(m)
    PROVE  TypeOK'
<1>. DEFINE c == ChannelOf[m]
<1>1. /\ UNCHANGED <<server, storage, frame, shown, active, toasts, runs, origin, told, failed>>
      /\ here' = here \cup {m}
    BY DEF OnMessage
<1>2. Sidebar' = Sidebar
    BY <1>1 DEF Sidebar, frame
<1>3. c \in Sidebar /\ c \in Channels /\ page = "chat"
    BY DEF OnMessage, Sidebar, TypeOK
<1>4. /\ content' \in [Messages -> Nat]
      /\ seen' \subseteq Messages
      /\ raced' \subseteq Messages
    <2>1. content' = content \/ content' = [content EXCEPT ![m] = @ + 1]
        BY DEF OnMessage
    <2>2. seen' = seen \/ seen' = seen \cup {m}
        BY DEF OnMessage
    <2>3. raced' = raced \/ raced' = raced \cup {m}
        BY DEF OnMessage
    <2>4. content \in [Messages -> Nat] /\ seen \subseteq Messages /\ raced \subseteq Messages
        BY DEF TypeOK
    <2>. QED
        BY <2>1, <2>2, <2>3, <2>4
<1>5. /\ badge' \in [Channels -> SUBSET Messages]
      /\ \A d \in Channels \ Sidebar : badge'[d] = {}
    <2>1. badge' = badge \/ badge' = [badge EXCEPT ![c] = @ \cup {m}]
        BY DEF OnMessage
    <2>2. /\ badge \in [Channels -> SUBSET Messages]
          /\ \A d \in Channels \ Sidebar : badge[d] = {}
        BY DEF TypeOK
    <2>. QED
        BY <1>3, <2>1, <2>2
<1>. HIDE DEF c
<1>. QED
    BY <1>1, <1>2, <1>3, <1>4, <1>5 DEF TypeOK, server, storage, frame

LEMMA TypeNotices ==
    ASSUME TypeOK, Notified \/ ToastClosed
    PROVE  TypeOK'
<1>1. /\ UNCHANGED <<server, storage, frame, shown, content, active, badge, runs,
                     origin, here, seen, raced, failed>>
    BY DEF Notified, OnNotification, ToastClosed, CloseToast, history
<1>2. Sidebar' = Sidebar
    BY <1>1 DEF Sidebar, frame
<1>3. /\ toasts' \subseteq Messages \X Copies
      /\ told' \subseteq Messages \X Copies
      /\ page \in {"call", "away"} => toasts' = {}
    <2>1. /\ toasts \subseteq Messages \X Copies
          /\ told \subseteq Messages \X Copies
          /\ page \in {"call", "away"} => toasts = {}
        BY DEF TypeOK
    <2>2. CASE Notified
        <3>1. PICK m \in Messages, copy \in Copies : OnNotification(m, copy)
            BY <2>2 DEF Notified
        <3>2. /\ page \notin {"call", "away"}
              /\ told' = told \cup {<<m, copy>>}
              /\ toasts' = toasts \/ toasts' = toasts \cup {<<m, copy>>}
            BY <3>1 DEF OnNotification
        <3>. QED
            BY <2>1, <3>2
    <2>3. CASE ToastClosed
        BY <2>1, <2>3 DEF ToastClosed, CloseToast, history
    <2>. QED
        BY <2>2, <2>3
<1>. QED
    BY <1>1, <1>2, <1>3 DEF TypeOK, server, storage, frame

LEMMA TypeInvariant ==
    ASSUME TypeOK, RunsFit, Online, [Next]_vars
    PROVE  TypeOK'
<1>0. RunsFit'
    BY RunsFitInvariant
<1>1. CASE UNCHANGED vars
    BY <1>1, TypeStutter
<1>2. CASE Load \/ LoadThrows
    BY <1>0, <1>2, TypeLoad, TypeLoadThrows
<1>3. CASE Connected \/ EndCall \/ AddMember
    BY <1>3, TypeFrame
<1>4. CASE Leave \/ StartCall
    BY <1>4, TypeGone
<1>5. ASSUME NEW c \in Channels,
             AddedTo(c) \/ PartnerLeaves(c) \/ Click(c) \/ CreateChannel(c)
      PROVE  TypeOK'
    BY <1>0, <1>5, TypeServers, TypeClick, TypeCreate
<1>6. ASSUME NEW m \in Messages, Post(m) \/ PickMessage(m)
      PROVE  TypeOK'
    BY <1>6, TypeServers, TypePick
<1>7. ASSUME NEW m \in Messages, OnMessage(m)
      PROVE  TypeOK'
    BY <1>7, TypeMessage
<1>8. CASE Notified \/ ToastClosed
    BY <1>8, TypeNotices
<1>10. CASE ToastClicked
    BY <1>0, <1>10, TypeClickToast DEF ToastClicked
<1>9. ASSUME NEW r \in Runs, Answered(r)
      PROVE  TypeOK'
    <2>1. HistoryRead(r) \/ HistoryFails(r) \/ Ends(r)
        BY <1>9 DEF Answered, Ends
    <2>. QED
        BY <1>0, <2>1, TypeHistory, TypeEnds
<1>. QED
    BY <1>1, <1>2, <1>3, <1>4, <1>5, <1>6, <1>7, <1>8, <1>9, <1>10, NextIs

-----------------------------------------------------------------------------
(* Histories, and what the handlers have read of them                      *)

LEMMA OnlineInvariant ==
    ASSUME Online, [Next]_vars
    PROVE  Online'
<1>1. CASE UNCHANGED vars
    BY <1>1 DEF Online, vars, frame
<1>2. CASE Load \/ LoadThrows \/ Connected \/ EndCall \/ AddMember
    BY <1>2 DEF Load, LoadThrows, Connected, EndCall, AddMember, Online
<1>3. CASE Leave \/ StartCall
    BY <1>3 DEF Leave, StartCall, Unload, Online
<1>4. CASE \E c \in Channels : AddedTo(c) \/ PartnerLeaves(c) \/ Click(c) \/ CreateChannel(c)
    BY <1>4 DEF AddedTo, PartnerLeaves, Click, CreateChannel, Online, frame
<1>5. CASE \/ \E m \in Messages : Post(m) \/ PickMessage(m) \/ OnMessage(m)
           \/ Notified \/ ToastClicked \/ ToastClosed
    BY <1>5 DEF Post, PickMessage, OnMessage, Notified, OnNotification, ToastClicked,
                ClickToast, ToastClosed, CloseToast, Online, frame
<1>6. CASE \E r \in Runs : Answered(r)
    BY <1>6 DEF Answered, HistoryRead, HistoryFails, ChannelRead, PartnerMissing, ChannelFails,
                NothingRead, Finish, Online, frame
<1>. QED
    BY <1>1, <1>2, <1>3, <1>4, <1>5, <1>6, NextIs

\* A message that is sent is the last one of its channel.
LEMMA PostEffect ==
    ASSUME TypeOK, NEW m \in Messages, Post(m)
    PROVE  /\ log'[ChannelOf[m]] = Append(log[ChannelOf[m]], m)
           /\ \A c \in Channels \ {ChannelOf[m]} : log'[c] = log[c]
<1>1. log \in [Channels -> Seq(Messages)] /\ ChannelOf[m] \in Channels
    BY DEF TypeOK
<1>2. log' = [log EXCEPT ![ChannelOf[m]] = Append(@, m)]
    BY DEF Post
<1>. QED
    BY <1>1, <1>2

\* What is in a history stays there, at its place.
LEMMA LogGrows ==
    ASSUME TypeOK, [Next]_vars, NEW c \in Channels
    PROVE  /\ log[c] \in Seq(Messages) /\ log'[c] \in Seq(Messages)
           /\ Len(log[c]) <= Len(log'[c])
           /\ \A i \in 1 .. Len(log[c]) : log'[c][i] = log[c][i]
<1>1. log[c] \in Seq(Messages)
    BY DEF TypeOK
<1>2. CASE log' = log
    BY <1>1, <1>2
<1>3. ASSUME NEW m \in Messages, Post(m)
      PROVE  /\ log'[c] \in Seq(Messages)
             /\ Len(log[c]) <= Len(log'[c])
             /\ \A i \in 1 .. Len(log[c]) : log'[c][i] = log[c][i]
    <2>1. log'[c] = log[c] \/ log'[c] = Append(log[c], m)
        BY <1>3, PostEffect
    <2>2. CASE log'[c] = Append(log[c], m)
        BY <1>1, <2>2
    <2>. QED
        BY <1>1, <2>1, <2>2
<1>. QED
    BY <1>1, <1>2, <1>3, LogStep

LEMMA OwnHistoryInvariant ==
    ASSUME TypeOK, OwnHistory, [Next]_vars
    PROVE  OwnHistory'
<1>1. CASE log' = log
    BY <1>1 DEF OwnHistory
<1>2. ASSUME NEW m \in Messages, Post(m), NEW c \in Channels, NEW i \in DOMAIN log'[c]
      PROVE  ChannelOf[log'[c][i]] = c
    <2>1. log[c] \in Seq(Messages)
        BY DEF TypeOK
    <2>2. CASE c # ChannelOf[m]
        BY <1>2, <2>2, PostEffect DEF OwnHistory
    <2>3. CASE c = ChannelOf[m]
        <3>1. log'[c] = Append(log[c], m)
            BY <1>2, <2>3, PostEffect
        <3>2. (i \in DOMAIN log[c] /\ log'[c][i] = log[c][i]) \/ log'[c][i] = m
            BY <1>2, <2>1, <3>1
        <3>. QED
            BY <2>3, <3>2 DEF OwnHistory
    <2>. QED
        BY <2>2, <2>3
<1>. QED
    BY <1>1, <1>2, LogStep DEF OwnHistory

LEMMA StoredStays ==
    ASSUME TypeOK, [Next]_vars, NEW m \in Messages, Stored(m)
    PROVE  Stored(m)'
<1>. DEFINE c == ChannelOf[m]
<1>1. c \in Channels
    OBVIOUS
<1>2. /\ log[c] \in Seq(Messages) /\ log'[c] \in Seq(Messages)
      /\ Len(log[c]) <= Len(log'[c])
      /\ \A i \in 1 .. Len(log[c]) : log'[c][i] = log[c][i]
    BY <1>1, LogGrows
<1>3. PICK i \in 1 .. Len(log[c]) : log[c][i] = m
    BY <1>2 DEF Stored, Range
<1>4. i \in DOMAIN log'[c] /\ log'[c][i] = m
    BY <1>2, <1>3
<1>. QED
    BY <1>4 DEF Stored, Range

LEMMA HereStoredInvariant ==
    ASSUME TypeOK, HereStored, [Next]_vars
    PROVE  HereStored'
<1>1. here \subseteq Messages
    BY DEF TypeOK
<1>2. CASE here' = here
    BY <1>1, <1>2, StoredStays DEF HereStored
<1>3. CASE Gone
    BY <1>3 DEF Gone, HereStored
<1>4. ASSUME NEW m \in Messages, OnMessage(m)
      PROVE  HereStored'
    <2>1. Stored(m) /\ here' = here \cup {m}
        BY <1>4 DEF OnMessage
    <2>. QED
        BY <1>1, <2>1, StoredStays DEF HereStored
<1>. QED
    BY <1>2, <1>3, <1>4, HereStep

LEMMA ReadsPrefixInvariant ==
    ASSUME TypeOK, RunsFit, ReadsPrefix, [Next]_vars
    PROVE  ReadsPrefix'
<1>. DEFINE Prefix(s, t) == Len(s) <= Len(t) /\ \A i \in DOMAIN s : s[i] = t[i]
<1>1. ASSUME NEW r \in Runs, runs'[r] # Idle
      PROVE  Prefix(runs'[r].read, log'[runs'[r].chan])
    <2>1. CASE runs'[r] = runs[r]
        <3>1. runs[r] \in Under
            BY <1>1, <2>1 DEF RunsFit
        <3>2. runs[r].chan \in Channels /\ runs[r].read \in Seq(Messages)
            BY <3>1 DEF Under
        <3>3. Prefix(runs[r].read, log[runs[r].chan])
            BY <1>1, <2>1 DEF ReadsPrefix
        <3>4. ASSUME NEW c \in Channels, NEW s \in Seq(Messages), Prefix(s, log[c])
              PROVE  Prefix(s, log'[c])
            <4>1. /\ Len(log[c]) <= Len(log'[c])
                  /\ \A i \in 1 .. Len(log[c]) : log'[c][i] = log[c][i]
                  /\ log[c] \in Seq(Messages) /\ log'[c] \in Seq(Messages)
                BY LogGrows
            <4>2. Len(s) <= Len(log'[c])
                BY <3>4, <4>1
            <4>3. ASSUME NEW i \in DOMAIN s
                  PROVE  s[i] = log'[c][i]
                <5>1. i \in 1 .. Len(log[c]) /\ s[i] = log[c][i]
                    BY <3>4, <4>1
                <5>. QED
                    BY <4>1, <5>1
            <4>. QED
                BY <4>2, <4>3
        <3>. HIDE DEF Prefix
        <3>5. Prefix(runs[r].read, log'[runs[r].chan])
            BY <3>2, <3>3, <3>4
        <3>. QED
            BY <2>1, <3>5
    <2>2. ASSUME NEW c \in Channels,
                 runs'[r] = [stage |-> "reading", chan |-> c, read |-> <<>>]
          PROVE  Prefix(runs'[r].read, log'[runs'[r].chan])
        <3>1. runs'[r].read = <<>> /\ runs'[r].chan = c /\ log'[c] \in Seq(Messages)
            BY <2>2, LogGrows
        <3>. QED
            BY <3>1
    <2>3. CASE HistoryRead(r)
        <3>1. runs[r].chan \in Channels
            BY <2>3, ReadEffect DEF Under
        <3>2. /\ runs'[r] = [stage |-> "read", chan |-> runs[r].chan,
                             read |-> log[runs[r].chan]]
              /\ log' = log
            BY <2>3, ReadEffect DEF HistoryRead, server
        <3>3. log[runs[r].chan] \in Seq(Messages)
            BY <3>1 DEF TypeOK
        <3>. QED
            BY <3>2, <3>3
    <2>4. CASE HistoryFails(r)
        <3>1. runs[r] \in Under
            BY <2>4, FailEffect
        <3>2. runs[r] # Idle /\ log' = log
            BY <3>1, <2>4 DEF Idle, Under, HistoryFails, server
        <3>3. runs'[r] = [stage |-> "failed", chan |-> runs[r].chan, read |-> runs[r].read]
            BY <2>4, FailEffect
        <3>4. Prefix(runs[r].read, log[runs[r].chan])
            BY <3>2 DEF ReadsPrefix
        <3>. QED
            BY <3>2, <3>3, <3>4
    <2>. QED
        BY <1>1, <2>1, <2>2, <2>3, <2>4, RunStep
<1>. QED
    BY <1>1 DEF ReadsPrefix

\* Fetches that failed are forgotten with the page only.
LEMMA FailedStep ==
    ASSUME [Next]_vars
    PROVE  failed \subseteq failed' \/ Gone
<1>1. CASE UNCHANGED vars
    BY <1>1 DEF vars, history
<1>2. CASE Load \/ LoadThrows \/ Connected \/ EndCall \/ AddMember
    BY <1>2 DEF Load, LoadThrows, Connected, EndCall, AddMember, history
<1>3. CASE Leave \/ StartCall
    BY <1>3, UnloadIsGone DEF Leave, StartCall
<1>4. CASE \E c \in Channels : AddedTo(c) \/ PartnerLeaves(c) \/ Click(c) \/ CreateChannel(c)
    BY <1>4 DEF AddedTo, PartnerLeaves, Click, CreateChannel, history
<1>5. CASE \/ \E m \in Messages : Post(m) \/ PickMessage(m) \/ OnMessage(m)
           \/ Notified \/ ToastClicked \/ ToastClosed
    BY <1>5 DEF Post, PickMessage, OnMessage, Notified, OnNotification, ToastClicked,
                ClickToast, ToastClosed, CloseToast, history
<1>6. CASE \E r \in Runs : Answered(r)
    BY <1>6 DEF Answered, HistoryRead, HistoryFails, ChannelRead, PartnerMissing, ChannelFails,
                NothingRead, history
<1>. QED
    BY <1>1, <1>2, <1>3, <1>4, <1>5, <1>6, NextIs

\* A private chat that has lost its partner does not find another.
LEMMA AloneStep ==
    ASSUME [Next]_vars
    PROVE  alone \subseteq alone'
<1>1. CASE UNCHANGED vars
    BY <1>1 DEF vars, server
<1>2. CASE Load \/ LoadThrows \/ Connected \/ Leave \/ StartCall \/ EndCall \/ AddMember
    BY <1>2 DEF Load, LoadThrows, Connected, Leave, StartCall, EndCall, AddMember, server
<1>3. CASE \E c \in Channels : AddedTo(c) \/ PartnerLeaves(c) \/ Click(c) \/ CreateChannel(c)
    BY <1>3 DEF AddedTo, PartnerLeaves, Click, CreateChannel, server
<1>4. CASE \/ \E m \in Messages : Post(m) \/ PickMessage(m) \/ OnMessage(m)
           \/ Notified \/ ToastClicked \/ ToastClosed
    BY <1>4 DEF Post, PickMessage, OnMessage, Notified, OnNotification, ToastClicked,
                ClickToast, ToastClosed, CloseToast, server
<1>5. CASE \E r \in Runs : Answered(r)
    BY <1>5 DEF Answered, HistoryRead, HistoryFails, ChannelRead, PartnerMissing,
                ChannelFails, NothingRead, Finish, server
<1>. QED
    BY <1>1, <1>2, <1>3, <1>4, <1>5, NextIs

LEMMA FailuresKnownInvariant ==
    ASSUME TypeOK, RunsFit, FailuresKnown, [Next]_vars
    PROVE  FailuresKnown'
<1>1. CASE Gone
    BY <1>1 DEF Gone, FailuresKnown, Idle
<1>2. ASSUME failed \subseteq failed', NEW r \in Runs, runs'[r].stage = "failed"
      PROVE  runs'[r].chan \in failed'
    <2>1. CASE runs'[r] = runs[r]
        BY <1>2, <2>1 DEF FailuresKnown
    <2>2. CASE runs'[r] = Idle
        BY <1>2, <2>2 DEF Idle
    <2>3. CASE \E c \in Channels : runs'[r] = [stage |-> "reading", chan |-> c, read |-> <<>>]
        BY <1>2, <2>3
    <2>4. CASE HistoryRead(r)
        <3>1. runs'[r] = [stage |-> "read", chan |-> runs[r].chan,
                          read |-> log[runs[r].chan]]
            BY <2>4, ReadEffect
        <3>. QED
            BY <1>2, <3>1
    <2>5. CASE HistoryFails(r)
        <3>1. runs'[r] = [stage |-> "failed", chan |-> runs[r].chan, read |-> runs[r].read]
            BY <2>5, FailEffect
        <3>2. failed' = failed \cup {runs[r].chan}
            BY <2>5 DEF HistoryFails
        <3>. QED
            BY <3>1, <3>2
    <2>. QED
        BY <2>1, <2>2, <2>3, <2>4, <2>5, RunStep
<1>. QED
    BY <1>1, <1>2, FailedStep DEF FailuresKnown

\* What was on screen, and what raced, is forgotten with the page only.
LEMMA SeenStep ==
    ASSUME [Next]_vars
    PROVE  Gone \/ (seen \subseteq seen' /\ raced \subseteq raced')
<1>1. CASE UNCHANGED vars
    BY <1>1 DEF vars, history
<1>2. CASE Load \/ LoadThrows \/ Connected \/ EndCall \/ AddMember
    BY <1>2 DEF Load, LoadThrows, Connected, EndCall, AddMember, history
<1>3. CASE Leave \/ StartCall
    BY <1>3, UnloadIsGone DEF Leave, StartCall
<1>4. CASE \E c \in Channels : AddedTo(c) \/ PartnerLeaves(c) \/ Click(c) \/ CreateChannel(c)
    BY <1>4 DEF AddedTo, PartnerLeaves, Click, CreateChannel, history
<1>5. CASE \/ \E m \in Messages : Post(m) \/ PickMessage(m)
           \/ Notified \/ ToastClicked \/ ToastClosed
    BY <1>5 DEF Post, PickMessage, Notified, OnNotification, ToastClicked, ClickToast,
                ToastClosed, CloseToast, history
<1>6. CASE \E m \in Messages : OnMessage(m)
    BY <1>6 DEF OnMessage
<1>7. CASE \E r \in Runs : Answered(r)
    BY <1>7 DEF Answered, HistoryRead, HistoryFails, ChannelRead, PartnerMissing, ChannelFails,
                NothingRead, history
<1>. QED
    BY <1>1, <1>2, <1>3, <1>4, <1>5, <1>6, <1>7, NextIs

\* A message that comes while a handler holds a history without it.
LEMMA LateMessage ==
    ASSUME NEW m \in Messages, OnMessage(m), NEW r \in Runs,
           runs[r].stage = "read", runs[r].chan = ChannelOf[m],
           m \notin Range(runs[r].read)
    PROVE  m \in seen' \cup raced' \cup Strangers
<1>1. CASE shown = ChannelOf[m]
    BY <1>1 DEF OnMessage
<1>2. CASE shown # ChannelOf[m]
    BY <1>2 DEF OnMessage
<1>. QED
    BY <1>1, <1>2

LEMMA LateInvariant ==
    ASSUME TypeOK, RunsFit, HereStored, LateAreKnown, [Next]_vars
    PROVE  LateAreKnown'
<1>1. CASE Gone
    BY <1>1 DEF Gone, LateAreKnown
<1>2. ASSUME ~Gone, NEW r \in Runs, NEW m \in here',
             runs'[r].stage = "read", runs'[r].chan = ChannelOf[m],
             m \notin Range(runs'[r].read)
      PROVE  m \in seen' \cup raced' \cup Strangers
    <2>1. CASE runs'[r] = runs[r]
        <3>1. CASE m \in here
            BY <1>2, <2>1, <3>1, SeenStep DEF LateAreKnown
        <3>2. CASE m \notin here
            <4>1. PICK n \in Messages : OnMessage(n)
                BY <1>2, <3>2, HereStep
            <4>2. m = n
                BY <1>2, <3>2, <4>1 DEF OnMessage
            <4>. QED
                BY <1>2, <2>1, <4>1, <4>2, LateMessage
        <3>. QED
            BY <3>1, <3>2
    <2>2. CASE runs'[r] = Idle
        BY <1>2, <2>2 DEF Idle
    <2>3. CASE \E c \in Channels : runs'[r] = [stage |-> "reading", chan |-> c, read |-> <<>>]
        BY <1>2, <2>3
    <2>4. CASE HistoryRead(r)
        <3>1. /\ runs'[r] = [stage |-> "read", chan |-> runs[r].chan,
                             read |-> log[runs[r].chan]]
              /\ here' = here
            BY <2>4, ReadEffect DEF HistoryRead, history
        <3>2. runs'[r].chan = runs[r].chan /\ runs'[r].read = log[runs[r].chan]
            BY <3>1
        <3>. QED
            BY <1>2, <3>1, <3>2 DEF HereStored, Stored
    <2>5. CASE HistoryFails(r)
        <3>1. runs'[r] = [stage |-> "failed", chan |-> runs[r].chan, read |-> runs[r].read]
            BY <2>5, FailEffect
        <3>. QED
            BY <1>2, <3>1
    <2>. QED
        BY <2>1, <2>2, <2>3, <2>4, <2>5, RunStep
<1>. QED
    BY <1>1, <1>2 DEF LateAreKnown

-----------------------------------------------------------------------------
(* What the page shows                                                     *)

\* The display changes when a handler ends, when messages and notifications come,
\* when a toast is closed, and goes with the page.
LEMMA DisplayStep ==
    ASSUME [Next]_vars
    PROVE  \/ UNCHANGED <<display, redirect>>
           \/ Gone
           \/ \E r \in Runs : Ends(r)
           \/ \E m \in Messages : OnMessage(m)
           \/ Notified \/ ToastClosed
<1>1. CASE UNCHANGED vars
    BY <1>1 DEF vars, storage
<1>2. CASE Load \/ LoadThrows \/ Connected \/ EndCall \/ AddMember
    BY <1>2 DEF Load, LoadThrows, Connected, EndCall, AddMember, storage
<1>3. CASE Leave \/ StartCall
    BY <1>3, UnloadIsGone DEF Leave, StartCall
<1>4. CASE \E c \in Channels : AddedTo(c) \/ PartnerLeaves(c) \/ Click(c) \/ CreateChannel(c)
    BY <1>4 DEF AddedTo, PartnerLeaves, Click, CreateChannel, storage
<1>5. CASE (\E m \in Messages : Post(m) \/ PickMessage(m)) \/ ToastClicked
    BY <1>5 DEF Post, PickMessage, ToastClicked, ClickToast, storage
<1>6. CASE \E r \in Runs : HistoryRead(r) \/ HistoryFails(r)
    BY <1>6 DEF HistoryRead, HistoryFails, storage
<1>. QED
    BY <1>1, <1>2, <1>3, <1>4, <1>5, <1>6, NextIs DEF Answered, Ends

\* What a handler that ends does to the display.
LEMMA EndDisplay ==
    ASSUME TypeOK, RunsFit, FailuresKnown, NEW r \in Runs, Ends(r),
           NEW c, c = runs[r].chan
    PROVE  /\ c \in Channels
           /\ badge'[c] = {}
           /\ \A d \in Channels \ {c} : badge'[d] = badge[d]
           /\ toasts' = {t \in toasts : ChannelOf[t[1]] # c}
           /\ active' = c
           /\ redirect' = c
           /\ shown' \in {shown, c}
           /\ \/ ChannelRead(r)
              \/ /\ c \in failed' \/ (c \in alone /\ shown' = c)
                 /\ failed \subseteq failed'
                 /\ UNCHANGED <<content, here, seen, raced>>
<1>1. runs[r] \in Under /\ Finish(r)
    BY EndEffect
<1>2. c \in Channels
    BY <1>1 DEF Under
<1>3. /\ badge' = [badge EXCEPT ![c] = {}]
      /\ toasts' = {t \in toasts : ChannelOf[t[1]] # c}
      /\ active' = c
      /\ redirect' = c
    BY <1>1 DEF Finish
<1>4. badge'[c] = {} /\ \A d \in Channels \ {c} : badge'[d] = badge[d]
    BY <1>2, <1>3 DEF TypeOK
<1>5. CASE ChannelRead(r)
    BY <1>2, <1>3, <1>4, <1>5 DEF ChannelRead
<1>6. CASE ChannelFails(r)
    BY <1>2, <1>3, <1>4, <1>6 DEF ChannelFails
<1>7. CASE NothingRead(r)
    <2>1. c \in failed
        BY <1>7 DEF NothingRead, FailuresKnown
    <2>2. UNCHANGED <<shown, content, history>>
        BY <1>7 DEF NothingRead
    <2>. QED
        BY <1>2, <1>3, <1>4, <2>1, <2>2 DEF history
<1>8. CASE PartnerMissing(r)
    BY <1>2, <1>3, <1>4, <1>8 DEF PartnerMissing, history
<1>. QED
    BY <1>5, <1>6, <1>7, <1>8 DEF Ends

LEMMA AnnouncedInvariant ==
    ASSUME TypeOK, RunsFit, FailuresKnown, NothingAnnouncedTwice, [Next]_vars
    PROVE  NothingAnnouncedTwice'
<1>0. shown \in Channels \cup {None}
    BY DEF TypeOK, Sidebar
<1>1. CASE UNCHANGED <<display, redirect>>
    BY <1>1 DEF display, NothingAnnouncedTwice
<1>2. CASE Gone
    BY <1>2 DEF Gone, NothingAnnouncedTwice
<1>3. ASSUME NEW r \in Runs, Ends(r)
      PROVE  NothingAnnouncedTwice'
    <2>. DEFINE c == runs[r].chan
    <2>1. /\ c \in Channels
          /\ badge'[c] = {}
          /\ \A d \in Channels \ {c} : badge'[d] = badge[d]
          /\ toasts' = {t \in toasts : ChannelOf[t[1]] # c}
          /\ shown' \in {shown, c}
        BY <1>3, EndDisplay
    <2>. HIDE DEF c
    <2>2. CASE shown' = c
        BY <2>1, <2>2 DEF NothingAnnouncedTwice
    <2>3. CASE shown' # c
        BY <1>0, <2>1, <2>3 DEF NothingAnnouncedTwice
    <2>. QED
        BY <2>2, <2>3
<1>4. ASSUME NEW m \in Messages, OnMessage(m)
      PROVE  NothingAnnouncedTwice'
    <2>1. shown' = shown /\ toasts' = toasts
          /\ \/ badge' = badge
             \/ shown # ChannelOf[m]
                /\ badge' = [badge EXCEPT ![ChannelOf[m]] = @ \cup {m}]
        BY <1>4 DEF OnMessage
    <2>2. badge \in [Channels -> SUBSET Messages]
        BY DEF TypeOK
    <2>3. shown # None => badge'[shown] = badge[shown]
        BY <1>0, <2>1, <2>2
    <2>. QED
        BY <2>1, <2>3 DEF NothingAnnouncedTwice
<1>5. CASE Notified \/ ToastClosed
    <2>1. /\ shown' = shown /\ badge' = badge
          /\ \A t \in toasts' : t \in toasts \/ ChannelOf[t[1]] # shown
        <3>1. CASE Notified
            <4>1. PICK m \in Messages, copy \in Copies : OnNotification(m, copy)
                BY <3>1 DEF Notified
            <4>2. /\ shown' = shown /\ badge' = badge
                  /\ \/ toasts' = toasts
                     \/ shown # ChannelOf[m] /\ toasts' = toasts \cup {<<m, copy>>}
                BY <4>1 DEF OnNotification
            <4>. QED
                BY <4>2
        <3>2. CASE ToastClosed
            BY <3>2 DEF ToastClosed, CloseToast
        <3>. QED
            BY <1>5, <3>1, <3>2
    <2>. QED
        BY <2>1 DEF NothingAnnouncedTwice
<1>. QED
    BY <1>1, <1>2, <1>3, <1>4, <1>5, DisplayStep

LEMMA PageAgreesInvariant ==
    ASSUME TypeOK, RunsFit, FailuresKnown, PageAgrees, [Next]_vars
    PROVE  PageAgrees'
<1>1. CASE Gone
    BY <1>1 DEF Gone, PageAgrees
<1>2. ASSUME failed \subseteq failed', UNCHANGED <<shown, active, redirect>>
      PROVE  PageAgrees'
    BY <1>2 DEF PageAgrees
<1>3. ASSUME NEW r \in Runs, Ends(r)
      PROVE  PageAgrees'
    <2>. DEFINE c == runs[r].chan
    <2>1. /\ active' = c
          /\ redirect' = c
          /\ ChannelRead(r) \/ failed' # {} \/ shown' = c
        BY <1>3, EndDisplay
    <2>2. ChannelRead(r) => shown' = c
        BY DEF ChannelRead
    <2>. HIDE DEF c
    <2>. QED
        BY <2>1, <2>2 DEF PageAgrees
<1>4. CASE (\E m \in Messages : OnMessage(m)) \/ Notified \/ ToastClosed
    <2>1. UNCHANGED <<shown, active, redirect>>
        BY <1>4 DEF OnMessage, Notified, OnNotification, ToastClosed, CloseToast, storage
    <2>. QED
        BY <1>1, <1>2, <2>1, FailedStep
<1>. QED
    BY <1>1, <1>2, <1>3, <1>4, DisplayStep, FailedStep DEF display

LEMMA ContentInvariant ==
    ASSUME TypeOK, RunsFit, OwnHistory, ReadsPrefix, FailuresKnown, ContentOfShown,
           [Next]_vars
    PROVE  ContentOfShown'
<1>0. content \in [Messages -> Nat]
    BY DEF TypeOK
<1>1. CASE Gone
    BY <1>1 DEF Gone, ContentOfShown, OnScreen, Blank
<1>2. ASSUME failed \subseteq failed', alone \subseteq alone', UNCHANGED <<shown, content>>
      PROVE  ContentOfShown'
    BY <1>2 DEF ContentOfShown, OnScreen
<1>3. ASSUME NEW r \in Runs, Ends(r)
      PROVE  ContentOfShown'
    <2>1. CASE ChannelRead(r)
        <3>. DEFINE c == runs[r].chan
                    s == runs[r].read
        <3>1. runs[r] \in Under /\ runs[r] # Idle
            BY <2>1 DEF ChannelRead, RunsFit, Idle
        <3>2. c \in Channels /\ s \in Seq(Messages) /\ log[c] \in Seq(Messages)
            BY <3>1 DEF Under, TypeOK
        <3>3. /\ shown' = c
              /\ content' = [m \in Messages |-> IF m \in Rendered(s) THEN 1 ELSE 0]
            BY <2>1 DEF ChannelRead
        <3>4. Len(s) <= Len(log[c]) /\ \A i \in DOMAIN s : s[i] = log[c][i]
            BY <3>1 DEF ReadsPrefix
        <3>5. \A i \in DOMAIN s : ChannelOf[s[i]] = c
            BY <3>2, <3>4 DEF OwnHistory
        <3>6. Rendered(s) \subseteq Range(s)
            BY <3>2, RenderedStored
        <3>. HIDE DEF c, s
        <3>7. \A m \in Rendered(s) : ChannelOf[m] = c
            BY <3>5, <3>6 DEF Range
        <3>. QED
            BY <3>3, <3>7 DEF ContentOfShown, OnScreen
    <2>2. CASE ~ChannelRead(r)
        <3>1. failed' # {} \/ shown' \in alone'
            BY <1>3, <2>2, EndDisplay, AloneStep
        <3>. QED
            BY <3>1 DEF ContentOfShown
    <2>. QED
        BY <2>1, <2>2
<1>4. ASSUME NEW m \in Messages, OnMessage(m)
      PROVE  ContentOfShown'
    <2>1. /\ UNCHANGED <<shown, failed, alone>>
          /\ \/ content' = content
             \/ shown = ChannelOf[m] /\ content' = [content EXCEPT ![m] = @ + 1]
        BY <1>4 DEF OnMessage, server
    <2>2. \A n \in OnScreen' : n \in OnScreen \/ ChannelOf[n] = shown
        BY <1>0, <2>1 DEF OnScreen
    <2>. QED
        BY <2>1, <2>2 DEF ContentOfShown
<1>5. CASE Notified \/ ToastClosed
    <2>1. UNCHANGED <<shown, content>>
        BY <1>5 DEF Notified, OnNotification, ToastClosed, CloseToast
    <2>. QED
        BY <1>1, <1>2, <2>1, FailedStep, AloneStep
<1>. QED
    BY <1>1, <1>2, <1>3, <1>4, <1>5, DisplayStep, FailedStep, AloneStep DEF display

-----------------------------------------------------------------------------
(* That no message vanishes                                                *)

\* What a message that came is to the page.
Known(m) ==
    \/ m \in seen \cup badge[ChannelOf[m]] \cup raced
    \/ ChannelOf[m] \in failed \cup alone
    \/ m \notin Rendered(log[ChannelOf[m]])

LEMMA NothingVanishesIs == NothingVanishes <=> \A m \in here : Known(m)
BY DEF NothingVanishes, Known

\* A stored message that is not rendered never is.
LEMMA UnrenderedStays ==
    ASSUME TypeOK, [Next]_vars, NEW m \in Messages, Stored(m),
           m \notin Rendered(log[ChannelOf[m]])
    PROVE  m \notin Rendered(log[ChannelOf[m]])'
<1>. DEFINE c == ChannelOf[m]
<1>1. c \in Channels /\ m \in Range(log[c])
    BY DEF Stored
<1>. HIDE DEF c
<1>2. /\ log[c] \in Seq(Messages) /\ log'[c] \in Seq(Messages)
      /\ Len(log[c]) <= Len(log'[c])
      /\ \A i \in 1 .. Len(log[c]) : log'[c][i] = log[c][i]
    BY <1>1, LogGrows
<1>3. \A i \in DOMAIN log[c] : log[c][i] = log'[c][i]
    BY <1>2
<1>4. m \in Rendered(log'[c]) => m \in Rendered(log[c])
    BY <1>1, <1>2, <1>3, RenderedPrefix
<1>. QED
    BY <1>4 DEF c

\* A handler that shows the channel of the message takes the badge away.
LEMMA KnownWhenShown ==
    ASSUME TypeOK, RunsFit, ReadsPrefix, LateAreKnown,
           NEW r \in Runs, ChannelRead(r), NEW m \in here, runs[r].chan = ChannelOf[m]
    PROVE  m \in seen' \cup raced' \/ m \notin Rendered(log[ChannelOf[m]])
<1>. DEFINE c == ChannelOf[m]
            s == runs[r].read
<1>0. m \in Messages /\ c \in Channels /\ log[c] \in Seq(Messages)
    BY DEF TypeOK
<1>1. runs[r] \in Under /\ runs[r] # Idle /\ runs[r].stage = "read"
    BY DEF ChannelRead, RunsFit, Idle
<1>2. s \in Seq(Messages)
    BY <1>1 DEF Under
<1>3. Len(s) <= Len(log[c]) /\ \A i \in DOMAIN s : s[i] = log[c][i]
    BY <1>1 DEF ReadsPrefix
<1>4. seen' = seen \cup Rendered(s) /\ raced' = raced
    BY DEF ChannelRead
<1>5. CASE m \in Range(s)
    <2>. HIDE DEF c, s
    <2>. QED
        BY <1>0, <1>2, <1>3, <1>4, <1>5, RenderedPrefix DEF c
<1>6. CASE m \notin Range(s)
    <2>1. m \in seen \cup raced \cup Strangers
        BY <1>1, <1>6 DEF LateAreKnown
    <2>2. m \in Strangers => m \notin Rendered(log[c])
        <3>. HIDE DEF c
        <3>. QED
            BY <1>0, StrangersNotRendered
    <2>. QED
        BY <1>4, <2>1, <2>2
<1>. QED
    BY <1>5, <1>6

LEMMA VanishesInvariant ==
    ASSUME TypeOK, RunsFit, HereStored, ReadsPrefix, FailuresKnown, LateAreKnown,
           NothingVanishes, [Next]_vars
    PROVE  NothingVanishes'
<1>1. CASE Gone
    BY <1>1 DEF Gone, NothingVanishes
<1>2. ASSUME ~Gone, NEW m \in here
      PROVE  Known(m)'
    <2>. DEFINE c == ChannelOf[m]
    <2>0. m \in Messages /\ c \in Channels /\ Stored(m)
        BY DEF TypeOK, HereStored
    <2>1. /\ failed \subseteq failed' /\ alone \subseteq alone'
          /\ seen \subseteq seen' /\ raced \subseteq raced'
        BY <1>2, FailedStep, AloneStep, SeenStep
    <2>2. CASE m \notin Rendered(log[c])
        BY <2>0, <2>2, UnrenderedStays DEF Known
    <2>3. CASE m \in seen \cup raced \/ c \in failed \cup alone
        BY <2>1, <2>3 DEF Known
    <2>4. CASE m \in badge[c]
        <3>1. CASE UNCHANGED <<display, redirect>>
            BY <2>4, <3>1 DEF display, Known
        <3>2. ASSUME NEW r \in Runs, Ends(r)
              PROVE  Known(m)'
            <4>1. CASE runs[r].chan # c
                BY <2>0, <2>4, <3>2, <4>1, EndDisplay DEF Known
            <4>2. CASE runs[r].chan = c /\ ChannelRead(r)
                <5>1. m \in seen' \cup raced' \/ m \notin Rendered(log[c])
                    BY <4>2, KnownWhenShown
                <5>. QED
                    BY <2>0, <5>1, UnrenderedStays DEF Known
            <4>3. CASE runs[r].chan = c /\ ~ChannelRead(r)
                <5>1. c \in failed' \cup alone'
                    BY <2>1, <3>2, <4>3, EndDisplay
                <5>. QED
                    BY <5>1 DEF Known
            <4>. QED
                BY <4>1, <4>2, <4>3
        <3>3. ASSUME NEW n \in Messages, OnMessage(n)
              PROVE  Known(m)'
            <4>1. badge' = badge \/ badge' = [badge EXCEPT ![ChannelOf[n]] = @ \cup {n}]
                BY <3>3 DEF OnMessage
            <4>2. badge \in [Channels -> SUBSET Messages]
                BY DEF TypeOK
            <4>3. badge[c] \subseteq badge'[c]
                <5>. HIDE DEF c
                <5>1. CASE ChannelOf[n] = c
                    BY <2>0, <4>1, <4>2, <5>1
                <5>2. CASE ChannelOf[n] # c
                    BY <2>0, <4>1, <4>2, <5>2
                <5>. QED
                    BY <5>1, <5>2
            <4>. QED
                BY <2>4, <4>3 DEF Known
        <3>4. CASE Notified \/ ToastClosed
            BY <2>4, <3>4 DEF Notified, OnNotification, ToastClosed, CloseToast, Known
        <3>. QED
            BY <1>2, <3>1, <3>2, <3>3, <3>4, DisplayStep
    <2>. QED
        BY <1>2, <2>2, <2>3, <2>4 DEF NothingVanishes
<1>3. ASSUME NEW m \in Messages, OnMessage(m)
      PROVE  Known(m)'
    <2>. DEFINE c == ChannelOf[m]
    <2>0. c \in Channels /\ log' = log /\ log[c] \in Seq(Messages)
          /\ badge \in [Channels -> SUBSET Messages]
        BY <1>3 DEF OnMessage, TypeOK, server
    <2>1. \/ m \in seen'
          \/ m \in Strangers
          \/ badge' = [badge EXCEPT ![c] = @ \cup {m}]
        BY <1>3 DEF OnMessage
    <2>2. m \in Strangers => m \notin Rendered(log'[c])
        BY <2>0, StrangersNotRendered
    <2>3. badge' = [badge EXCEPT ![c] = @ \cup {m}] => m \in badge'[c]
        BY <2>0
    <2>. QED
        BY <2>1, <2>2, <2>3 DEF Known
<1>4. ASSUME ~Gone, NEW m \in here'
      PROVE  Known(m)'
    <2>1. m \in here \/ \E n \in Messages : OnMessage(n) /\ m = n
        <3>1. here' = here \/ \E n \in Messages : OnMessage(n)
            BY <1>4, HereStep
        <3>2. \A n \in Messages : OnMessage(n) => here' = here \cup {n}
            BY DEF OnMessage
        <3>. QED
            BY <1>4, <3>1, <3>2
    <2>. QED
        BY <1>2, <1>3, <1>4, <2>1
<1>5. CASE ~Gone
    <2>1. \A m \in here' : Known(m)'
        BY <1>4, <1>5
    <2>. QED
        BY <2>1 DEF NothingVanishes, Known
<1>. QED
    BY <1>1, <1>5

-----------------------------------------------------------------------------
(* That a message is on screen twice only if it came live                  *)

LEMMA TwiceInvariant ==
    ASSUME TypeOK, RunsFit, FailuresKnown, TwiceOnlyIfLive, [Next]_vars
    PROVE  TwiceOnlyIfLive'
<1>0. content \in [Messages -> Nat]
    BY DEF TypeOK
<1>1. CASE Gone
    BY <1>1 DEF Gone, TwiceOnlyIfLive, OnScreen, Blank
<1>2. CASE content' = content /\ here \subseteq here'
    BY <1>2 DEF TwiceOnlyIfLive, OnScreen
<1>3. ASSUME NEW r \in Runs, Ends(r)
      PROVE  TwiceOnlyIfLive'
    <2>1. CASE ChannelRead(r)
        <3>1. \A m \in Messages : content'[m] \in {0, 1}
            BY <2>1 DEF ChannelRead
        <3>. QED
            BY <3>1 DEF TwiceOnlyIfLive, OnScreen
    <2>2. CASE ~ChannelRead(r)
        BY <1>2, <1>3, <2>2, EndDisplay
    <2>. QED
        BY <2>1, <2>2
<1>4. ASSUME NEW m \in Messages, OnMessage(m)
      PROVE  TwiceOnlyIfLive'
    <2>1. /\ m \notin here /\ here' = here \cup {m}
          /\ content' = content \/ content' = [content EXCEPT ![m] = @ + 1]
        BY <1>4 DEF OnMessage
    <2>2. CASE content' = content
        BY <1>2, <2>1, <2>2
    <2>3. CASE content' = [content EXCEPT ![m] = @ + 1]
        <3>1. content[m] \in {0, 1}
            BY <1>0, <2>1 DEF TwiceOnlyIfLive, OnScreen
        <3>2. content'[m] \in {1, 2} /\ \A n \in Messages \ {m} : content'[n] = content[n]
            BY <1>0, <2>3, <3>1
        <3>3. \A n \in OnScreen' \ {m} : n \in OnScreen /\ content'[n] = content[n]
            BY <3>2 DEF OnScreen
        <3>. QED
            BY <2>1, <3>2, <3>3 DEF TwiceOnlyIfLive
    <2>. QED
        BY <2>1, <2>2, <2>3
<1>5. CASE Notified \/ ToastClosed
    BY <1>2, <1>5 DEF Notified, OnNotification, ToastClosed, CloseToast, history
<1>. QED
    BY <1>1, <1>2, <1>3, <1>4, <1>5, DisplayStep, HereStep DEF display

-----------------------------------------------------------------------------

LEMMA Invariant == Spec => []IInv
<1>1. Init => IInv
    BY InitInvariant
<1>2. IInv /\ [Next]_vars => IInv'
    <2>. SUFFICES ASSUME IInv, [Next]_vars PROVE IInv'
        OBVIOUS
    <2>1. TypeOK' /\ RunsFit' /\ Online'
        BY TypeInvariant, RunsFitInvariant, OnlineInvariant DEF IInv
    <2>2. OwnHistory' /\ HereStored' /\ ReadsPrefix'
        BY OwnHistoryInvariant, HereStoredInvariant, ReadsPrefixInvariant DEF IInv
    <2>3. FailuresKnown' /\ LateAreKnown'
        BY FailuresKnownInvariant, LateInvariant DEF IInv
    <2>4. NothingAnnouncedTwice' /\ PageAgrees'
        BY AnnouncedInvariant, PageAgreesInvariant DEF IInv
    <2>5. ContentOfShown' /\ NothingVanishes'
        BY ContentInvariant, VanishesInvariant DEF IInv
    <2>6. TwiceOnlyIfLive'
        BY TwiceInvariant DEF IInv
    <2>. QED
        BY <2>1, <2>2, <2>3, <2>4, <2>5, <2>6 DEF IInv
<1>. QED
    BY <1>1, <1>2, PTL DEF Spec

\* Every variable of the page has its type, what the page shows or is about to show
\* has an entry in the sidebar, and a page that is left shows nothing.
THEOREM TypeCorrect == Spec => []TypeOK
<1>1. IInv => TypeOK
    BY DEF IInv
<1>. QED
    BY Invariant, <1>1, PTL

\* What is on screen is not announced, in whatever order the messages of the socket
\* (subscribeChannel), the notifications (renderNotification) and the answers to
\* the clicks come.
THEOREM ShownIsNotAnnounced == Spec => []NothingAnnouncedTwice
<1>1. IInv => NothingAnnouncedTwice
    BY DEF IInv
<1>. QED
    BY Invariant, <1>1, PTL

\* The channel on screen, the highlighted entry and channelRedirect are the same,
\* however the handlers of clicks overlap, as long as no fetch of the page failed.
THEOREM PageAgreesAlways == Spec => []PageAgrees
<1>1. IInv => PageAgrees
    BY DEF IInv
<1>. QED
    BY Invariant, <1>1, PTL

\* The container, which two handlers and the socket write, holds messages of the
\* channel on screen only, as long as no fetch of the page failed, unless that is a
\* private chat whose partner is gone: its title throws (renderChannelContent) when
\* the channel is taken and the container not emptied.
THEOREM ContentIsOfShown == Spec => []ContentOfShown
<1>1. IInv => ContentOfShown
    BY DEF IInv
<1>. QED
    BY Invariant, <1>1, PTL

\* A message that came is or was on screen, or is counted, but for the four ways
\* the page loses one: a race with a handler that has read the history, a fetch
\* that failed, a private chat whose partner is gone, and a rendering that stops at a
\* message without a sender, be it stored before the one that came or after it.
THEOREM MessagesDoNotVanish == Spec => []NothingVanishes
<1>1. IInv => NothingVanishes
    BY DEF IInv
<1>. QED
    BY Invariant, <1>1, PTL

\* A message is on screen twice only if it came from the socket since the page was
\* loaded, and never three times: renderChannelContent shows a history anew,
\* and the callback of subscribeChannel appends a message once.
THEOREM TwiceOnlyWhatCame == Spec => []TwiceOnlyIfLive
<1>1. IInv => TwiceOnlyIfLive
    BY DEF IInv
<1>. QED
    BY Invariant, <1>1, PTL
=============================================================================
