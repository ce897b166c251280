--------------------------- MODULE MessageSearch ---------------------------
(***************************************************************************)
(* The search for messages: the search bar (searchDropDown, of which       *)
(* textMessagingPageRender.js, searchPageRender.js and                     *)
(* searchBarDropDown.js each have a copy), the query (SearchMessageService *)
(* and MessageHistoryRepositoryImpl) and the page of the results           *)
(* (searchPageRender.js), in one tab of one user.                          *)
(*                                                                         *)
(* A condition is a tag in the bar.  What the user picks for it is the     *)
(* tag's text, and for a member or a channel also the data jQuery keeps    *)
(* with the element: the query is made of the data.                        *)
(***************************************************************************)
EXTENDS Naturals

CONSTANTS
    Channels,
    Members,
    Messages,
    ChannelOf, From, SentAt,    \* of each message
    Words,                      \* keywords its content matches
    Strangers,                  \* messages whose sender workspaceMembers does not hold
    Keywords,
    Days,                       \* the midnights a user can pick
    None

ASSUME MessageAssumption ==
    /\ ChannelOf \in [Messages -> Channels]
    /\ From \in [Messages -> Members]
    /\ SentAt \in [Messages -> Nat]
    /\ Words \in [Messages -> SUBSET Keywords]
ASSUME DayAssumption == Days \subseteq Nat
ASSUME NoneAssumption == None \notin Channels \cup Members \cup Keywords /\ None \notin Days

Conditions == {"from", "in", "before", "after"}

VARIABLES
    mine,       \* channels of the user
    stored,     \* messages in the histories
    \* The bar
    bar,        \* it is there, with its handlers
    keyword,
    tags,       \* conditions that have a tag
    text,       \* what the tag says
    data,       \* what jQuery keeps for it
    \* sessionStorage
    channels,   \* the user's channels as of the last page; None: "undefined"
    query,      \* searchBody
    condition,  \* searchCondition
    \* The page of the results
    stage,      \* what it waits for
    displayed,  \* the conditions it displays
    results,    \* the messages it displays
    \* History
    due         \* what meets all conditions, when the query is answered

entered == <<keyword, tags, text, data>>
session == <<channels, query, condition>>
found == <<displayed, results, due>>
vars == <<mine, stored, bar, entered, session, stage, found>>

Query ==
    [keyword : Keywords \cup {None}, from : Members \cup {None},
     in : Channels \cup {None}, before : Days \cup {None}, after : Days \cup {None}]

\* What the conditions say of a message, as they are displayed.  A day is its
\* midnight, up to which a message is before it and from which on after it.
Meets(q, m) ==
    /\ q.keyword \in Words[m] \cup {None}
    /\ q.from \in {From[m], None}
    /\ q.in \in {ChannelOf[m], None}
    /\ q.before # None => q.before >= SentAt[m]
    /\ q.after # None => q.after <= SentAt[m]

Values(c) ==
    CASE c = "from" -> Members
      [] c = "in" -> Channels
      [] OTHER -> Days

\* The type of every variable; and that data belongs to a tag that says it.
TypeOK ==
    /\ mine \subseteq Channels
    /\ stored \subseteq Messages
    /\ bar \in BOOLEAN
    /\ keyword \in Keywords \cup {None}
    /\ tags \subseteq Conditions
    /\ \A c \in Conditions :
          /\ text[c] \in Values(c) \cup {None}
          /\ c \notin tags => text[c] = None
          /\ data[c] \in {None, text[c]}
    /\ channels \in (SUBSET Channels) \cup {None}
    /\ query \in Query \cup {None}
    /\ condition \in Query \cup {None}
    /\ stage \in {"none", "channels", "messages", "ended"}
    /\ displayed \in Query \cup {None}
    /\ results \subseteq Messages
    /\ due \subseteq Messages
    /\ bar => stage \in {"none", "ended"}

\* The channels the page finds in sessionStorage: reading "undefined" throws.
Known == IF channels = None THEN {} ELSE channels

Nothing == [c \in Conditions |-> None]

\* The chat page, with its bar.
Init ==
    /\ mine \in SUBSET Channels
    /\ stored = {}
    /\ bar = TRUE
    /\ keyword = None
    /\ tags = {}
    /\ text = Nothing
    /\ data = Nothing
    /\ channels = mine
    /\ query = None
    /\ condition = None
    /\ stage = "none"
    /\ displayed = None
    /\ results = {}
    /\ due = {}

-----------------------------------------------------------------------------
(* The servers                                                             *)

Store(m) ==
    /\ m \notin stored
    /\ stored' = stored \cup {m}
    /\ UNCHANGED <<mine, bar, entered, session, stage, found>>

JoinChannel(c) ==
    /\ c \notin mine
    /\ mine' = mine \cup {c}
    /\ UNCHANGED <<stored, bar, entered, session, stage, found>>

LeaveChannel(c) ==
    /\ c \in mine
    /\ mine' = mine \ {c}
    /\ UNCHANGED <<stored, bar, entered, session, stage, found>>

-----------------------------------------------------------------------------
(* The bar                                                                 *)

\* What the user leaves outside the tags, the hash that opens the list of conditions
\* deleted.
TypeKeyword(k) ==
    /\ bar
    /\ keyword' = k
    /\ UNCHANGED <<mine, stored, bar, tags, text, data, session, stage, found>>

\* A condition is clicked in the list: removeHash writes the bar's HTML anew, and
\* the tags there keep what they say but not their data.
ClickCondition(c) ==
    /\ bar
    /\ c \notin tags
    /\ tags' = tags \cup {c}
    /\ data' = Nothing
    /\ UNCHANGED <<mine, stored, bar, keyword, text, session, stage, found>>

\* A condition is typed at the start: its tag joins the others, and the text that is
\* not in a tag goes.
TypeCondition(c) ==
    /\ bar
    /\ c \notin tags
    /\ tags' = tags \cup {c}
    /\ keyword' = None
    /\ UNCHANGED <<mine, stored, bar, text, data, session, stage, found>>

\* Mutant: a member is kept that the tag does not say.
PickSilently(c, v) ==
    /\ bar
    /\ c \in tags
    /\ c = "in" => v \in Known
    /\ text' = IF c = "from" THEN text ELSE [text EXCEPT ![c] = v]
    /\ data' = IF c \in {"from", "in"} THEN [data EXCEPT ![c] = v] ELSE data
    /\ UNCHANGED <<mine, stored, bar, keyword, tags, session, stage, found>>

\* A member, a channel of those the page knows, or a day is picked for a tag.
Pick(c, v) ==
    /\ bar
    /\ c \in tags
    /\ c = "in" => v \in Known
    /\ text' = [text EXCEPT ![c] = v]
    /\ data' = IF c \in {"from", "in"} THEN [data EXCEPT ![c] = v] ELSE data
    /\ UNCHANGED <<mine, stored, bar, keyword, tags, session, stage, found>>

\* A page of results begins, or the chat page comes back: nothing is left of the
\* bar and of the page before.
NewPage ==
    /\ keyword' = None
    /\ tags' = {}
    /\ text' = Nothing
    /\ data' = Nothing
    /\ displayed' = None
    /\ results' = {}
    /\ due' = {}
    /\ UNCHANGED <<mine, stored>>

\* The button: the query and what the next page displays of it are stored, and that
\* page is loaded.  Its bar has no handlers until everything else is done.
Submit ==
    /\ bar
    /\ query' = [keyword |-> keyword, from |-> data["from"], in |-> data["in"],
                 before |-> text["before"], after |-> text["after"]]
    /\ condition' = [query' EXCEPT !.from = text["from"]]
    /\ stage' = "channels"
    /\ bar' = FALSE
    /\ NewPage
    /\ UNCHANGED channels

Reload ==
    /\ stage # "none"
    /\ stage' = "channels"
    /\ bar' = FALSE
    /\ NewPage
    /\ UNCHANGED session

\* The chat page, which reads the channels before it gets to its bar.
BackToChat ==
    /\ stage # "none"
    /\ stage' = "none"
    /\ channels' \in {mine, None}
    /\ bar' = (channels' # None)
    /\ NewPage
    /\ UNCHANGED <<query, condition>>

\* The page of a call, whose bar finds what the chat page has left.
ToCall ==
    /\ stage = "none"
    /\ bar
    /\ NewPage
    /\ UNCHANGED <<bar, stage, session>>

-----------------------------------------------------------------------------
(* The query                                                               *)

\* Mutant: a message of the very time asked for is too late.
MatchesStrictly(q, m) ==
    /\ q.keyword # None => q.keyword \in Words[m]
    /\ q.from # None => From[m] = q.from
    /\ q.before # None => SentAt[m] < q.before
    /\ q.after # None => SentAt[m] >= q.after

\* The criteria of findMessagesWithSearchCondition, on one message: they match the
\* histories first, and each message when these are unwound.
Matches(q, m) ==
    /\ q.keyword # None => q.keyword \in Words[m]
    /\ q.from # None => From[m] = q.from
    /\ q.before # None => SentAt[m] <= q.before
    /\ q.after # None => SentAt[m] >= q.after

\* getSearchMessages throws without access to the channel asked for, and the second
\* criterion for messages.createdAt, because there is one.
Refused(q) ==
    \/ q.in # None /\ q.in \notin mine
    \/ q.before # None /\ q.after # None

-----------------------------------------------------------------------------
(* The page of the results                                                 *)

\* fetchChannelsByMemberId; "undefined" is kept of an error response.
ChannelsRead ==
    /\ stage = "channels"
    /\ stage' = "messages"
    /\ channels' \in {mine, None}
    /\ UNCHANGED <<mine, stored, bar, entered, query, condition, found>>

\* There is no response, and nobody catches the exception.
ChannelsFail ==
    /\ stage = "channels"
    /\ stage' = "ended"
    /\ UNCHANGED <<mine, stored, bar, entered, session, found>>

\* fetchSearchResult has no response or an error response, as to a query that is
\* refused: the conditions are rendered, and rendering no result throws.
MessagesFail ==
    /\ stage = "messages"
    /\ stage' = "ended"
    /\ displayed' = IF condition.in \in Known \cup {None} THEN condition ELSE None
    /\ UNCHANGED <<mine, stored, bar, entered, session, results, due>>

\* Mutant: a message of a channel the page does not know is shown without its tag.
CanShowUntagged(m) == m \notin Strangers

\* getChannelById is null for a channel the page does not know.
CanShow(m) == ChannelOf[m] \in Known /\ m \notin Strangers

\* The conditions are rendered, then the messages, the latest first, then the bar
\* gets its handlers; each only if nothing before it throws: an unknown channel in
\* the conditions, or a message that cannot be shown.
MessagesRead ==
    /\ stage = "messages"
    /\ ~Refused(query)
    /\ stage' = "ended"
    /\ LET answer == {m \in stored : Matches(query, m)}
           latest(m) == \A n \in answer : CanShow(n) \/ SentAt[n] < SentAt[m]
       IN \/ /\ condition.in \in Known \cup {None}
             /\ displayed' = condition
             /\ results' = {m \in answer : latest(m)}
             /\ due' = {m \in stored : Meets(condition, m)}
             /\ bar' = (results' = answer)
          \/ /\ condition.in \notin Known \cup {None}
             /\ UNCHANGED <<displayed, results, due, bar>>
    /\ UNCHANGED <<mine, stored, entered, session>>

-----------------------------------------------------------------------------

Others ==
    \/ \E m \in Messages : Store(m)
    \/ \E c \in Channels : JoinChannel(c) \/ LeaveChannel(c)

User ==
    \/ \E k \in Keywords : TypeKeyword(k)
    \/ \E c \in Conditions :
          \/ ClickCondition(c) \/ TypeCondition(c)
          \/ \E v \in Values(c) : Pick(c, v)
    \/ Submit \/ Reload \/ BackToChat \/ ToCall

Page == ChannelsRead \/ ChannelsFail \/ MessagesFail \/ MessagesRead

Next == Others \/ User \/ Page

Spec == Init /\ [][Next]_vars

-----------------------------------------------------------------------------
(* Properties                                                              *)

\* A displayed message is of the user and meets the displayed conditions, but for the
\* channel asked for and a member whose data the bar has lost.
ResultsMatch ==
    \A m \in results :
        /\ ChannelOf[m] \in Known
        /\ Meets([displayed EXCEPT !.in = None, !.from = query.from], m)

\* When a search has ended with its bar, it shows every message that met the
\* conditions, of whatever channel and sender, when the query was answered.
NothingMissed == (stage = "ended" /\ bar) => due \subseteq results

\* "Search messages with multiple conditions to quickly find the matching message":
\* a displayed message meets every displayed condition.
MultipleConditions == \A m \in results : Meets(displayed, m)
=============================================================================
