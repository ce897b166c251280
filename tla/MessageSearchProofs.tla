------------------------ MODULE MessageSearchProofs ------------------------
(***************************************************************************)
(* Proofs about MessageSearch, for any messages, conditions and channels   *)
(* and any interleaving of the bar, the page and what others do.           *)
(***************************************************************************)
EXTENDS MessageSearch, TLAPS

USE MessageAssumption, DayAssumption, NoneAssumption

\* What is in the bar: days have no data.
Entered ==
    /\ text = [c \in Conditions |-> text[c]]
    /\ data = [c \in Conditions |-> data[c]]
    /\ data["before"] = None /\ data["after"] = None

\* The query and the conditions that are displayed for it: they differ in the member
\* at most, and then the query asks for any.
Agree(q, d) ==
    /\ q \in Query /\ d \in Query
    /\ d = [q EXCEPT !.from = d.from]
    /\ q.from \in {None, d.from}

\* The page of the results has a query to send.
Sent == stage # "none" => Agree(query, condition)

\* There are results when the page has ended, with the conditions of their query.
Shown ==
    /\ stage # "ended" => results = {}
    /\ results # {} => displayed = condition

IInv == TypeOK /\ Entered /\ Sent /\ Shown /\ ResultsMatch /\ NothingMissed

-----------------------------------------------------------------------------
(* The bar                                                                 *)

LEMMA InitInv == Init => IInv
<1> SUFFICES ASSUME Init PROVE IInv
  OBVIOUS
<1> USE DEF Init, Nothing, Conditions
<1>1. TypeOK
  BY DEF TypeOK
<1>2. Entered
  BY DEF Entered
<1>3. Sent /\ Shown /\ ResultsMatch /\ NothingMissed
  BY DEF Sent, Shown, ResultsMatch, NothingMissed
<1> QED  BY <1>1, <1>2, <1>3 DEF IInv

\* What the user enters keeps the data of a tag its text.
Bar ==
    /\ keyword \in Keywords \cup {None}
    /\ tags \subseteq Conditions
    /\ \A c \in Conditions :
          /\ text[c] \in Values(c) \cup {None}
          /\ c \notin tags => text[c] = None
          /\ data[c] \in {None, text[c]}

LEMMA NextBar ==
    ASSUME TypeOK, Entered, [Next]_vars
    PROVE  Bar' /\ Entered'
<1>0. Bar
  BY DEF TypeOK, Bar
<1>1. CASE UNCHANGED entered
  BY <1>0, <1>1 DEF Bar, Entered, entered
<1>2. CASE NewPage
  BY <1>2 DEF NewPage, Bar, Entered, Nothing, Conditions
<1>3. ASSUME NEW k \in Keywords, TypeKeyword(k) PROVE Bar' /\ Entered'
  BY <1>0, <1>3 DEF TypeKeyword, Bar, Entered
<1>4. ASSUME NEW c \in Conditions, ClickCondition(c) PROVE Bar' /\ Entered'
  BY <1>0, <1>4 DEF ClickCondition, Bar, Entered, Nothing, Conditions
<1>5. ASSUME NEW c \in Conditions, TypeCondition(c) PROVE Bar' /\ Entered'
  BY <1>0, <1>5 DEF TypeCondition, Bar, Entered
<1>6. ASSUME NEW c \in Conditions, NEW v \in Values(c), Pick(c, v) PROVE Bar' /\ Entered'
  <2>1. /\ c \in tags /\ UNCHANGED <<keyword, tags>>
        /\ text' = [text EXCEPT ![c] = v]
        /\ data' = IF c \in {"from", "in"} THEN [data EXCEPT ![c] = v] ELSE data
    BY <1>6 DEF Pick
  <2>2. /\ text' = [d \in Conditions |-> text'[d]]
        /\ text'[c] = v /\ \A d \in Conditions \ {c} : text'[d] = text[d]
    BY <2>1 DEF Entered
  <2>3. /\ data' = [d \in Conditions |-> data'[d]]
        /\ data'[c] \in {None, v} /\ \A d \in Conditions \ {c} : data'[d] = data[d]
        /\ data'["before"] = None /\ data'["after"] = None
    BY <2>1 DEF Entered, Conditions
  <2> QED  BY <1>0, <2>1, <2>2, <2>3 DEF Bar, Entered
<1>7. ASSUME Others \/ Page PROVE UNCHANGED entered
  BY <1>7 DEF Others, Page, Store, JoinChannel, LeaveChannel, ChannelsRead, ChannelsFail,
     MessagesFail, MessagesRead
<1>8. ASSUME Submit \/ Reload \/ BackToChat \/ ToCall PROVE NewPage
  BY <1>8 DEF Submit, Reload, BackToChat, ToCall
<1> QED
  BY <1>1, <1>2, <1>3, <1>4, <1>5, <1>6, <1>7, <1>8 DEF Next, User, vars

-----------------------------------------------------------------------------
(* The query                                                               *)

LEMMA SubmitAgrees ==
    ASSUME TypeOK, Entered, Submit
    PROVE  Agree(query', condition')
<1> DEFINE q == [keyword |-> keyword, from |-> data["from"], in |-> data["in"],
                 before |-> text["before"], after |-> text["after"]]
<1>1. query' = q /\ condition' = [q EXCEPT !.from = text["from"]]
  BY DEF Submit
<1>2. /\ keyword \in Keywords \cup {None}
      /\ data["from"] \in Members \cup {None} /\ text["from"] \in Members \cup {None}
      /\ data["in"] \in Channels \cup {None}
      /\ text["before"] \in Days \cup {None} /\ text["after"] \in Days \cup {None}
      /\ data["from"] \in {None, text["from"]}
  <2>1. \A c \in Conditions : text[c] \in Values(c) \cup {None} /\ data[c] \in {None, text[c]}
    BY DEF TypeOK
  <2>2. /\ Values("from") = Members /\ Values("in") = Channels
        /\ Values("before") = Days /\ Values("after") = Days
    BY DEF Values
  <2>3. {"from", "in", "before", "after"} \subseteq Conditions
    BY DEF Conditions
  <2> QED  BY <2>1, <2>2, <2>3 DEF TypeOK
<1>3. q \in Query /\ [q EXCEPT !.from = text["from"]] \in Query
  BY <1>2 DEF Query
<1>4. /\ [q EXCEPT !.from = text["from"]].from = text["from"]
      /\ q.from = data["from"]
  OBVIOUS
<1> QED  BY <1>1, <1>2, <1>3, <1>4 DEF Agree

LEMMA NextSent ==
    ASSUME TypeOK, Entered, Sent, [Next]_vars
    PROVE  Sent'
<1>1. CASE UNCHANGED <<stage, query, condition>>
  BY <1>1 DEF Sent, Agree
<1>2. CASE Submit
  BY <1>2, SubmitAgrees DEF Sent, Agree
<1>3. CASE BackToChat
  BY <1>3 DEF BackToChat, Sent
<1>4. CASE Page \/ Reload
  <2>1. stage # "none" /\ UNCHANGED <<query, condition>>
    BY <1>4 DEF Page, Reload, ChannelsRead, ChannelsFail, MessagesFail, MessagesRead, session
  <2> QED  BY <2>1 DEF Sent, Agree
<1>5. ASSUME NEW c \in Conditions,
             ClickCondition(c) \/ TypeCondition(c) \/ \E v \in Values(c) : Pick(c, v)
      PROVE  UNCHANGED <<stage, query, condition>>
  BY <1>5 DEF ClickCondition, TypeCondition, Pick, session
<1>6. ASSUME Others \/ (\E k \in Keywords : TypeKeyword(k)) \/ ToCall
      PROVE  UNCHANGED <<stage, query, condition>>
  BY <1>6 DEF Others, Store, JoinChannel, LeaveChannel, TypeKeyword, ToCall, session
<1> QED
  BY <1>1, <1>2, <1>3, <1>4, <1>5, <1>6 DEF Next, User, vars, session

-----------------------------------------------------------------------------
(* The results                                                             *)

\* Whatever meets the conditions displayed is in the answer to the query.
LEMMA MeetsMatches ==
    ASSUME NEW q, NEW d, Agree(q, d), NEW m \in Messages, Meets(d, m)
    PROVE  Matches(q, m)
BY DEF Agree, Meets, Matches, Query

\* The answer meets what is displayed, but for the channel, and the member of whom
\* the query asks.
LEMMA MatchesMeets ==
    ASSUME NEW q, NEW d, Agree(q, d), NEW m \in Messages, Matches(q, m)
    PROVE  Meets([d EXCEPT !.in = None, !.from = q.from], m)
BY DEF Agree, Meets, Matches, Query

\* What others do, or the user in the bar, leaves the page as it is.
Elsewhere == UNCHANGED <<bar, session, stage, found>>

LEMMA StepCases ==
    ASSUME [Next]_vars
    PROVE  \/ Elsewhere
           \/ Submit \/ Reload \/ BackToChat \/ ToCall
           \/ ChannelsRead \/ ChannelsFail \/ MessagesFail \/ MessagesRead
<1>1. ASSUME NEW c \in Conditions,
             ClickCondition(c) \/ TypeCondition(c) \/ \E v \in Values(c) : Pick(c, v)
      PROVE  Elsewhere
  BY <1>1 DEF ClickCondition, TypeCondition, Pick, Elsewhere
<1>2. ASSUME Others \/ \E k \in Keywords : TypeKeyword(k) PROVE Elsewhere
  BY <1>2 DEF Others, Store, JoinChannel, LeaveChannel, TypeKeyword, Elsewhere
<1>3. CASE UNCHANGED vars
  BY <1>3 DEF vars, Elsewhere
<1> QED  BY <1>1, <1>2, <1>3 DEF Next, User, Page

LEMMA NextTypeOK ==
    ASSUME TypeOK, Entered, Sent, [Next]_vars
    PROVE  TypeOK'
<1>1. Bar'
  BY NextBar
<1>2. mine' \subseteq Channels /\ stored' \subseteq Messages
  <2>1. CASE UNCHANGED <<mine, stored>>
    BY <2>1 DEF TypeOK
  <2>2. ASSUME Others PROVE mine' \subseteq Channels /\ stored' \subseteq Messages
    BY <2>2 DEF TypeOK, Others, Store, JoinChannel, LeaveChannel
  <2>3. ASSUME User \/ Page PROVE UNCHANGED <<mine, stored>>
    BY <2>3 DEF User, Page, TypeKeyword, ClickCondition, TypeCondition, Pick, Submit, Reload,
       BackToChat, ToCall, NewPage, ChannelsRead, ChannelsFail, MessagesFail, MessagesRead
  <2> QED  BY <2>1, <2>2, <2>3 DEF Next, vars
<1> DEFINE Rest ==
      /\ bar \in BOOLEAN
      /\ channels \in (SUBSET Channels) \cup {None}
      /\ query \in Query \cup {None} /\ condition \in Query \cup {None}
      /\ stage \in {"none", "channels", "messages", "ended"}
      /\ displayed \in Query \cup {None}
      /\ results \subseteq Messages /\ due \subseteq Messages
      /\ bar => stage \in {"none", "ended"}
<1>3. Rest /\ mine \subseteq Channels /\ stored \subseteq Messages
  BY DEF TypeOK
<1>4. Rest'
  <2>1. CASE Elsewhere
    BY <1>3, <2>1 DEF Elsewhere, session, found
  <2>2. CASE Submit
    <3>1. query' \in Query /\ condition' \in Query
      BY <2>2, SubmitAgrees DEF Agree
    <3> QED  BY <1>3, <2>2, <3>1 DEF Submit, NewPage
  <2>3. CASE Reload
    BY <1>3, <2>3 DEF Reload, NewPage, session
  <2>4. CASE BackToChat
    BY <1>3, <2>4 DEF BackToChat, NewPage
  <2>5. CASE ToCall
    BY <1>3, <2>5 DEF ToCall, NewPage, session
  <2>6. CASE ChannelsRead
    BY <1>3, <2>6 DEF ChannelsRead, found
  <2>7. CASE ChannelsFail
    BY <1>3, <2>7 DEF ChannelsFail, found, session
  <2>8. CASE MessagesFail
    BY <1>3, <2>8 DEF MessagesFail, session
  <2>9. CASE MessagesRead
    <3>1. /\ stage' = "ended" /\ UNCHANGED session
          /\ \/ UNCHANGED <<displayed, results, due, bar>>
             \/ /\ displayed' = condition
                /\ results' \subseteq stored /\ due' \subseteq stored
                /\ bar' \in BOOLEAN
      BY <2>9 DEF MessagesRead
    <3> QED  BY <1>3, <3>1 DEF session
  <2> QED  BY <2>1, <2>2, <2>3, <2>4, <2>5, <2>6, <2>7, <2>8, <2>9, StepCases
<1> QED  BY <1>1, <1>2, <1>4 DEF TypeOK, Bar

\* What the page shows of the answer.
LEMMA AnswerShown ==
    ASSUME TypeOK, Sent, MessagesRead
    PROVE  \/ UNCHANGED <<displayed, results, due, bar>>
           \/ /\ displayed' = condition
              /\ \A m \in results' : m \in stored /\ Matches(query, m) /\ CanShow(m)
              /\ bar' => due' \subseteq results'
<1> DEFINE answer == {m \in stored : Matches(query, m)}
           latest(m) == \A n \in answer : CanShow(n) \/ SentAt[n] < SentAt[m]
<1>1. CASE condition.in \notin Known \cup {None}
  BY <1>1 DEF MessagesRead
<1>2. CASE condition.in \in Known \cup {None}
  <2>1. /\ displayed' = condition
        /\ results' = {m \in answer : latest(m)}
        /\ due' = {m \in stored : Meets(condition, m)}
        /\ bar' = (results' = answer)
    BY <1>2 DEF MessagesRead
  <2>2. \A m \in answer : latest(m) => CanShow(m)
    <3> TAKE m \in answer
    <3>1. m \in Messages /\ SentAt[m] \in Nat
      BY DEF TypeOK
    <3>2. ~(SentAt[m] < SentAt[m])
      BY <3>1
    <3> QED  BY <3>2
  <2>3. Agree(query, condition)
    BY DEF Sent, MessagesRead
  <2>4. due' \subseteq answer
    BY <2>1, <2>3, MeetsMatches DEF TypeOK
  <2>5. \A m \in results' : m \in stored /\ Matches(query, m) /\ CanShow(m)
    BY <2>1, <2>2
  <2>6. bar' => due' \subseteq results'
    BY <2>1, <2>4
  <2> QED  BY <2>1, <2>5, <2>6
<1> QED  BY <1>1, <1>2

\* The page of the results is a new one whenever the query or the channels change.
LEMMA NextResults ==
    ASSUME TypeOK, Sent, Shown, ResultsMatch, NothingMissed, [Next]_vars
    PROVE  Shown' /\ ResultsMatch' /\ NothingMissed'
<1>1. CASE Elsewhere
  BY <1>1 DEF Elsewhere, session, found, Shown, ResultsMatch, NothingMissed, Known, Meets
<1>2. CASE Submit \/ Reload \/ BackToChat \/ ToCall
  <2>1. results' = {} /\ due' = {}
    BY <1>2 DEF Submit, Reload, BackToChat, ToCall, NewPage
  <2> QED  BY <2>1 DEF Shown, ResultsMatch, NothingMissed
<1>3. CASE ChannelsRead \/ ChannelsFail \/ MessagesFail
  <2>1. stage \in {"channels", "messages"} /\ UNCHANGED <<results, bar>>
    BY <1>3 DEF ChannelsRead, ChannelsFail, MessagesFail, found
  <2>2. results' = {} /\ ~bar'
    BY <2>1 DEF Shown, TypeOK
  <2> QED  BY <2>2 DEF Shown, ResultsMatch, NothingMissed
<1>4. CASE MessagesRead
  <2>0. stage = "messages" /\ stage' = "ended" /\ UNCHANGED <<channels, query, condition>>
    BY <1>4 DEF MessagesRead, session
  <2>1. results = {} /\ ~bar /\ Agree(query, condition)
    BY <2>0 DEF Shown, TypeOK, Sent
  <2>2. CASE UNCHANGED <<displayed, results, due, bar>>
    BY <2>1, <2>2 DEF Shown, ResultsMatch, NothingMissed
  <2>3. CASE /\ displayed' = condition
             /\ \A m \in results' : m \in stored /\ Matches(query, m) /\ CanShow(m)
             /\ bar' => due' \subseteq results'
    <3>1. Shown' /\ NothingMissed'
      BY <2>0, <2>3 DEF Shown, NothingMissed
    <3>2. ASSUME NEW m \in results'
          PROVE  /\ ChannelOf[m] \in Known
                 /\ Meets([displayed' EXCEPT !.in = None, !.from = query.from], m)
      <4>1. m \in Messages /\ Matches(query, m) /\ CanShow(m)
        BY <2>3 DEF TypeOK
      <4> QED  BY <2>1, <2>3, <4>1, MatchesMeets DEF CanShow
    <3>3. Known' = Known
      BY <2>0 DEF Known
    <3>4. ResultsMatch'
      BY <2>0, <3>2, <3>3 DEF ResultsMatch, Meets
    <3> QED  BY <3>1, <3>4
  <2> QED  BY <1>4, <2>2, <2>3, AnswerShown
<1> QED  BY <1>1, <1>2, <1>3, <1>4, StepCases

-----------------------------------------------------------------------------
(* Theorems                                                                *)

LEMMA Invariant == Spec => []IInv
<1>1. IInv /\ [Next]_vars => IInv'
  BY NextTypeOK, NextBar, NextSent, NextResults DEF IInv
<1> QED  BY InitInv, <1>1, PTL DEF Spec

\* The data of a tag is what it says, and the bar works where the page has ended.
THEOREM TypeCorrect == Spec => []TypeOK
<1>1. IInv => TypeOK
  BY DEF IInv
<1> QED  BY Invariant, <1>1, PTL

\* Whatever the user enters, picks or reloads and others do meanwhile, the results
\* on the page meet the conditions on the page, but for those the query lost.
THEOREM ResultsAreMatches == Spec => []ResultsMatch
<1>1. IInv => ResultsMatch
  BY DEF IInv
<1> QED  BY Invariant, <1>1, PTL

\* A search that ends with its bar has found all there was to find.
THEOREM NothingIsMissed == Spec => []NothingMissed
<1>1. IInv => NothingMissed
  BY DEF IInv
<1> QED  BY Invariant, <1>1, PTL
=============================================================================
