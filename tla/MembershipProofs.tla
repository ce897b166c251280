-------------------------- MODULE MembershipProofs --------------------------
(***************************************************************************)
(* Proofs about Membership, for any number of users, workspaces, members,  *)
(* channels and roles, and any interleaving of the requests.               *)
(***************************************************************************)
EXTENDS Membership, TLAPS

USE NoneAssumption

\* What a request carries from its checks to its writes still fits the tables
\* when it writes: rows are never overwritten, identifiers never reused, and a
\* workspace does not go while a channel is being created in it.
RequestFits(u) ==
    LET r == request[u] IN
    /\ r.op = "addWorkspaceMember" => r.user \in Users
    /\ r.op \in {"createChannel", "commitChannel"} =>
          /\ r.member \in Members
          /\ memberRow[r.member] \in Row /\ memberRow[r.member].ws = r.ws
    /\ r.op = "commitChannel" =>
          r.ws \in workspaces /\ r.channel \in documents \ channels

\* No two requests are creating the same channel.
OwnChannel ==
    \A u, v \in Users :
        (request[u].op = "commitChannel" /\ request[v].op = "commitChannel" /\ u # v)
            => request[u].channel # request[v].channel

Requests ==
    /\ request = [u \in Users |-> request[u]]
    /\ \A u \in Users : RequestFits(u)
    /\ OwnChannel

IInv == TypeOK /\ Requests /\ OneCreator /\ ChannelCreatorAtHome /\ ChannelHasHistory

-----------------------------------------------------------------------------
(* The steps                                                               *)

\* A change of members gives every user that is added one row, of an
\* identifier that was never used, and leaves the other rows as they are.
LEMMA ChangeMembersStep ==
    ASSUME TypeOK, NEW w, NEW removed, NEW added \in SUBSET Users,
           ChangeMembers(w, removed, added)
    PROVE  \E new \in SUBSET NewMembers :
              /\ members' = (members \ removed) \cup new
              /\ memberRow' \in [Members -> Row \cup {None}]
              /\ \A m \in Members \ new : memberRow'[m] = memberRow[m]
              /\ \A m \in new : /\ memberRow'[m] \in Row
                                /\ memberRow'[m].ws = w
                                /\ memberRow'[m].user \in added
                                /\ ~memberRow'[m].creator
              /\ \A v \in added : \E m \in new : memberRow'[m].user = v
<1>0. PICK new \in SUBSET NewMembers : \E user \in Bijection(new, added) :
         /\ members' = (members \ removed) \cup new
         /\ memberRow' = [m \in Members |->
               IF m \in new THEN [ws |-> w, user |-> user[m], creator |-> FALSE]
                            ELSE memberRow[m]]
  BY DEF ChangeMembers
<1>1. PICK user \in Bijection(new, added) :
         /\ members' = (members \ removed) \cup new
         /\ memberRow' = [m \in Members |->
               IF m \in new THEN [ws |-> w, user |-> user[m], creator |-> FALSE]
                            ELSE memberRow[m]]
  BY <1>0
<1>2. user \in [new -> added] /\ \A v \in added : \E m \in new : user[m] = v
  BY DEF Bijection, Injection, Surjection
<1>3. w \in Workspaces /\ new \subseteq Members
  BY DEF TypeOK, ChangeMembers, NewMembers
<1>4. \A m \in new : memberRow'[m] = [ws |-> w, user |-> user[m], creator |-> FALSE]
  BY <1>1, <1>3
<1>5. \A m \in new : [ws |-> w, user |-> user[m], creator |-> FALSE] \in Row
  BY <1>2, <1>3 DEF Row
<1>6. \A m \in Members \ new : memberRow'[m] = memberRow[m]
  BY <1>1
<1>7. memberRow' \in [Members -> Row \cup {None}]
  <2>1. memberRow \in [Members -> Row \cup {None}]
    BY DEF TypeOK
  <2> QED  BY <1>1, <1>5, <2>1
<1>8. \A m \in new : /\ memberRow'[m] \in Row
                     /\ memberRow'[m].ws = w
                     /\ memberRow'[m].user \in added
                     /\ ~memberRow'[m].creator
  <2> TAKE m \in new
  <2>1. memberRow'[m] = [ws |-> w, user |-> user[m], creator |-> FALSE]
    BY <1>4
  <2>2. user[m] \in added
    BY <1>2
  <2>3. memberRow'[m] \in Row
    BY <1>4, <1>5
  <2> QED  BY <2>1, <2>2, <2>3
<1>9. \A v \in added : \E m \in new : memberRow'[m].user = v
  <2> TAKE v \in added
  <2>1. PICK m \in new : user[m] = v
    BY <1>2
  <2>2. memberRow'[m] = [ws |-> w, user |-> user[m], creator |-> FALSE]
    BY <1>4
  <2> QED  BY <2>1, <2>2
<1> QED  BY <1>1, <1>6, <1>7, <1>8, <1>9

\* The requests that change members, as one change of members.
LEMMA MembersStep ==
    ASSUME TypeOK, Requests, NEW u \in Users,
           \/ UpdateWorkspace(u) \/ DeleteWorkspace(u)
           \/ AddWorkspaceMember(u) \/ RemoveWorkspaceMember(u)
    PROVE  \E w \in Workspaces, removed \in SUBSET Members, added \in SUBSET Users :
              /\ ChangeMembers(w, removed, added)
              /\ \/ UNCHANGED workspaces
                 \/ DeleteWorkspace(u) /\ w = request[u].ws /\ removed = request[u].before
                    /\ added = {}
<1>0. workspaces \subseteq Workspaces /\ members \subseteq Members
  BY DEF TypeOK
<1>1. CASE UpdateWorkspace(u)
  <2> DEFINE named == Named(request[u].ids)
  <2>1. named \ UsersOf(request[u].before) \in SUBSET Users
    BY DEF Named
  <2>2. ChangeMembers(request[u].ws,
            {m \in request[u].before : memberRow[m].user \notin named},
            named \ UsersOf(request[u].before)) /\ UNCHANGED workspaces
    BY <1>1 DEF UpdateWorkspace
  <2>3. /\ request[u].ws \in Workspaces
        /\ {m \in request[u].before : memberRow[m].user \notin named} \in SUBSET Members
    BY <1>0, <2>2 DEF ChangeMembers
  <2> QED  BY <2>1, <2>2, <2>3
<1>2. CASE DeleteWorkspace(u)
  <2>1. ChangeMembers(request[u].ws, request[u].before, {})
    BY <1>2 DEF DeleteWorkspace
  <2>2. request[u].ws \in Workspaces /\ request[u].before \in SUBSET Members
    BY <1>0, <2>1 DEF ChangeMembers
  <2> QED  BY <1>2, <2>1, <2>2
<1>3. CASE AddWorkspaceMember(u)
  <2>1. {request[u].user} \in SUBSET Users
    BY <1>3 DEF Requests, RequestFits, AddWorkspaceMember, Ends
  <2>2. ChangeMembers(request[u].ws, {}, {request[u].user}) /\ UNCHANGED workspaces
    BY <1>3 DEF AddWorkspaceMember
  <2>3. request[u].ws \in Workspaces
    BY <1>0, <2>2 DEF ChangeMembers
  <2> QED  BY <2>1, <2>2, <2>3
<1>4. CASE RemoveWorkspaceMember(u)
  <2> DEFINE m == request[u].member
  <2>1. ChangeMembers(memberRow[m].ws, {m}, {}) /\ UNCHANGED workspaces
    BY <1>4 DEF RemoveWorkspaceMember
  <2>2. memberRow[m].ws \in Workspaces /\ {m} \in SUBSET Members
    BY <1>0, <2>1 DEF ChangeMembers
  <2> QED  BY <2>1, <2>2
<1> QED  BY <1>1, <1>2, <1>3, <1>4

-----------------------------------------------------------------------------
(* Type correctness                                                        *)

tables == <<memberTables, channelTables, roleTables, documents>>

\* Checks write nothing, and an exception takes back what was written.
LEMMA Unwritten ==
    ASSUME NEW u \in Users, Check(u) \/ Abort(u)
    PROVE  UNCHANGED tables
BY DEF Check, Abort, CheckOwner, CheckWorkspaceMember, CheckChannelCreator,
       CheckChannelMember, Checked, tables

LEMMA InitInv == Init => IInv
<1> SUFFICES ASSUME Init PROVE IInv
  OBVIOUS
<1> USE DEF Init
<1>1. TypeOK
  BY DEF TypeOK
<1>2. request = [u \in Users |-> request[u]] /\ \A u \in Users : request[u].op = "idle"
  BY DEF Idle
<1>3. Requests
  BY <1>2 DEF Requests, RequestFits, OwnChannel
<1>4. OneCreator /\ ChannelCreatorAtHome /\ ChannelHasHistory
  BY DEF OneCreator, ChannelCreatorAtHome, ChannelHasHistory,
         CreatorOf, CreatorOfChannel, MembersOf
<1> QED  BY <1>1, <1>3, <1>4 DEF IInv

\* The rows of members: no step but those that change members touches them.
LEMMA NextRows ==
    ASSUME TypeOK, Requests, [Next]_vars
    PROVE  \A m \in Members \ NewMembers : memberRow'[m] = memberRow[m]
<1>1. CASE UNCHANGED memberRow
  BY <1>1
<1>2. ASSUME NEW u \in Users,
             \/ UpdateWorkspace(u) \/ DeleteWorkspace(u)
             \/ AddWorkspaceMember(u) \/ RemoveWorkspaceMember(u)
      PROVE  \A m \in Members \ NewMembers : memberRow'[m] = memberRow[m]
  <2>1. PICK w \in Workspaces, removed \in SUBSET Members, added \in SUBSET Users :
           ChangeMembers(w, removed, added)
    BY <1>2, MembersStep
  <2> QED  BY <2>1, ChangeMembersStep
<1>3. ASSUME NEW u \in Users, NEW w \in Workspaces, NEW n \in Members,
             CreateWorkspace(u, w, n)
      PROVE  \A m \in Members \ NewMembers : memberRow'[m] = memberRow[m]
  BY <1>3 DEF TypeOK, CreateWorkspace
<1>4. ASSUME NEW u \in Users, Check(u) \/ Write(u) \/ Abort(u), memberRow' # memberRow
      PROVE  \/ UpdateWorkspace(u) \/ DeleteWorkspace(u)
             \/ AddWorkspaceMember(u) \/ RemoveWorkspaceMember(u)
             \/ \E w \in Workspaces, n \in Members : CreateWorkspace(u, w, n)
  <2>1. CASE Check(u) \/ Abort(u)
    BY <1>4, <2>1, Unwritten DEF tables, memberTables
  <2>2. CASE Write(u)
    BY <1>4, <2>2 DEF Write, memberTables, StoreChannel, CommitChannel, DeleteChannel,
          AddChannelMember, RemoveChannelMember, CreateWorkspacesRole,
          DeleteWorkspaceRole, AssignWorkspaceMemberRole, RemoveWorkspaceMemberRole
  <2> QED  BY <1>4, <2>1, <2>2
<1> QED  BY <1>1, <1>2, <1>3, <1>4 DEF Next, vars, memberTables

LEMMA NextTypeOK ==
    ASSUME TypeOK, Requests, [Next]_vars
    PROVE  TypeOK'
<1>1. CASE UNCHANGED tables
  BY <1>1 DEF TypeOK, tables, memberTables, channelTables, roleTables
<1>2. ASSUME NEW u \in Users,
             \/ UpdateWorkspace(u) \/ DeleteWorkspace(u)
             \/ AddWorkspaceMember(u) \/ RemoveWorkspaceMember(u)
      PROVE  TypeOK'
  <2>1. PICK w \in Workspaces, removed \in SUBSET Members, added \in SUBSET Users :
           /\ ChangeMembers(w, removed, added)
           /\ \/ UNCHANGED workspaces
              \/ DeleteWorkspace(u) /\ w = request[u].ws /\ removed = request[u].before
                 /\ added = {}
    BY <1>2, MembersStep
  <2>2. PICK new \in SUBSET NewMembers :
              /\ members' = (members \ removed) \cup new
              /\ memberRow' \in [Members -> Row \cup {None}]
              /\ \A m \in Members \ new : memberRow'[m] = memberRow[m]
              /\ \A m \in new : /\ memberRow'[m] \in Row
                                /\ memberRow'[m].ws = w
                                /\ memberRow'[m].user \in added
    BY <2>1, ChangeMembersStep
  <2>3. /\ members \subseteq Members /\ members \cap new = {}
        /\ \A m \in members : memberRow[m] \in Row /\ memberRow[m].ws \in workspaces
        /\ workspaces \subseteq Workspaces
    BY DEF TypeOK, NewMembers
  <2>4. members' \subseteq Members
    BY <2>2, <2>3 DEF NewMembers
  <2>5. workspaces' \subseteq Workspaces /\ w \in workspaces
    BY <2>1, <2>3 DEF ChangeMembers, DeleteWorkspace
  <2>6. \A m \in members' : memberRow'[m] \in Row
    BY <2>2, <2>3
  <2>7. /\ \A m \in members' : memberRow'[m].ws \in workspaces'
        /\ \A c \in channels' : channelWs'[c] \in workspaces'
        /\ \A x \in roles' : roleWs'[x] \in workspaces'
    <3>0. UNCHANGED <<channels, channelWs, roles, roleWs>>
      BY <2>1 DEF ChangeMembers, roleTables
    <3>1. CASE UNCHANGED workspaces
      <4>1. \A m \in members' : memberRow'[m].ws \in workspaces
        BY <2>2, <2>3, <2>5
      <4> QED  BY <3>0, <3>1, <4>1 DEF TypeOK
    <3>2. CASE DeleteWorkspace(u) /\ w = request[u].ws /\ removed = request[u].before
                 /\ added = {}
      <4>1. workspaces' = workspaces \ {w} /\ MembersOf(w) = removed
        BY <3>2 DEF DeleteWorkspace
      <4>2. new = {}
        BY <2>2, <3>2
      <4>3. \A m \in members' : m \in members /\ memberRow'[m] = memberRow[m]
                                /\ memberRow[m].ws # w
        BY <2>2, <2>3, <4>1, <4>2 DEF MembersOf
      <4>4. \A m \in members' : memberRow'[m].ws \in workspaces'
        BY <2>3, <4>1, <4>3
      <4>5. /\ \A c \in channels : channelWs[c] # w
            /\ \A x \in roles : roleWs[x] # w
        BY <3>2 DEF DeleteWorkspace
      <4> QED  BY <3>0, <4>1, <4>4, <4>5 DEF TypeOK
    <3> QED  BY <2>1, <3>1, <3>2
  <2>8. /\ channelMembers' \subseteq channels' \X members'
        /\ channelCreators' \subseteq channelMembers'
        /\ memberRoles' \subseteq roles' \X members'
    <3>1. /\ channelMembers' = {t \in channelMembers : t[2] \notin removed}
          /\ channelCreators' = {t \in channelCreators : t[2] \notin removed}
          /\ UNCHANGED <<channels, roles, memberRoles>>
          /\ \A t \in memberRoles : t[2] \notin removed
      BY <2>1 DEF ChangeMembers, roleTables
    <3>2. \A m \in members \ removed : m \in members'
      BY <2>2
    <3> QED  BY <3>1, <3>2 DEF TypeOK
  <2>9. /\ channels' \subseteq Channels /\ roles' \subseteq Roles /\ documents' \subseteq Channels
        /\ channelWs' \in [Channels -> Workspaces \cup {None}]
        /\ roleWs' \in [Roles -> Workspaces \cup {None}]
    BY <2>1 DEF ChangeMembers, roleTables, TypeOK
  <2> QED  BY <2>2, <2>4, <2>5, <2>6, <2>7, <2>8, <2>9 DEF TypeOK
<1>3. ASSUME NEW u \in Users, NEW w \in Workspaces, NEW m \in Members,
             CreateWorkspace(u, w, m)
      PROVE  TypeOK'
  <2> USE DEF CreateWorkspace, channelTables, roleTables
  <2>1. [ws |-> w, user |-> u, creator |-> TRUE] \in Row
    BY DEF Row
  <2>2. memberRow \in [Members -> Row \cup {None}]
    BY DEF TypeOK
  <2>3. /\ memberRow' \in [Members -> Row \cup {None}]
        /\ memberRow'[m] = [ws |-> w, user |-> u, creator |-> TRUE]
        /\ \A n \in Members \ {m} : memberRow'[n] = memberRow[n]
    BY <1>3, <2>1, <2>2
  <2>4. m \notin members
    BY <1>3 DEF TypeOK, NewMembers
  <2>5. \A n \in members' : memberRow'[n] \in Row /\ memberRow'[n].ws \in workspaces'
    BY <1>3, <2>1, <2>3, <2>4 DEF TypeOK
  <2> QED  BY <1>3, <2>3, <2>5 DEF TypeOK
<1>4. ASSUME NEW u \in Users, NEW c \in Channels, StoreChannel(u, c) PROVE TypeOK'
  BY <1>4 DEF TypeOK, StoreChannel, memberTables, channelTables, roleTables
<1>5. ASSUME NEW u \in Users, CommitChannel(u) PROVE TypeOK'
  <2> DEFINE r == request[u]
  <2>1. r.op = "commitChannel"
    BY <1>5 DEF CommitChannel, Ends
  <2>2. r.ws \in workspaces /\ r.channel \in Channels /\ r.member \in members
    BY <1>5, <2>1 DEF Requests, RequestFits, CommitChannel, TypeOK
  <2>3. UNCHANGED <<workspaces, members, memberRow, roles, roleWs, memberRoles, documents>>
    BY <1>5 DEF CommitChannel, memberTables, roleTables
  <2>4. /\ channels' = channels \cup {r.channel}
        /\ channelWs' = [channelWs EXCEPT ![r.channel] = r.ws]
        /\ channelMembers' = channelMembers \cup {<<r.channel, r.member>>}
        /\ channelCreators' = channelCreators \cup {<<r.channel, r.member>>}
    BY <1>5 DEF CommitChannel
  <2> HIDE DEF r
  <2>5. /\ channelWs' \in [Channels -> Workspaces \cup {None}]
        /\ \A c \in channels' : channelWs'[c] \in workspaces
    BY <2>2, <2>4 DEF TypeOK
  <2> QED  BY <2>2, <2>3, <2>4, <2>5 DEF TypeOK
<1>6. ASSUME NEW u \in Users, DeleteChannel(u) PROVE TypeOK'
  BY <1>6 DEF TypeOK, DeleteChannel, memberTables, roleTables
<1>7. ASSUME NEW u \in Users, AddChannelMember(u) PROVE TypeOK'
  BY <1>7 DEF TypeOK, AddChannelMember, memberTables, roleTables
<1>8. ASSUME NEW u \in Users, RemoveChannelMember(u) PROVE TypeOK'
  BY <1>8 DEF TypeOK, RemoveChannelMember, memberTables, roleTables
<1>9. ASSUME NEW u \in Users, NEW x \in Roles, CreateWorkspacesRole(u, x) PROVE TypeOK'
  BY <1>9 DEF TypeOK, CreateWorkspacesRole, memberTables, channelTables
<1>10. ASSUME NEW u \in Users, DeleteWorkspaceRole(u) PROVE TypeOK'
  BY <1>10 DEF TypeOK, DeleteWorkspaceRole, memberTables, channelTables
<1>11. ASSUME NEW u \in Users, AssignWorkspaceMemberRole(u) PROVE TypeOK'
  BY <1>11 DEF TypeOK, AssignWorkspaceMemberRole, memberTables, channelTables
<1>12. ASSUME NEW u \in Users, RemoveWorkspaceMemberRole(u) PROVE TypeOK'
  BY <1>12 DEF TypeOK, RemoveWorkspaceMemberRole, memberTables, channelTables
<1>13. ASSUME NEW u \in Users, Check(u) \/ Abort(u) PROVE TypeOK'
  BY <1>1, <1>13, Unwritten
<1>14. CASE UNCHANGED vars
  BY <1>1, <1>14 DEF vars, tables
<1> QED
  BY <1>2, <1>3, <1>4, <1>5, <1>6, <1>7, <1>8, <1>9, <1>10, <1>11, <1>12, <1>13, <1>14
  DEF Next, Write

-----------------------------------------------------------------------------
(* What requests carry                                                     *)

\* The tables give way to no request under way: a step of another leaves what
\* it carries fit.
LEMMA OthersFit ==
    ASSUME TypeOK, Requests, [Next]_vars,
           NEW v \in Users, request'[v] = request[v]
    PROVE  RequestFits(v)'
<1> DEFINE r == request[v]
<1>0. RequestFits(v)
  BY DEF Requests
<1>1. CASE r.op # "commitChannel"
  <2>1. r.op = "createChannel" => r.member \in Members /\ memberRow[r.member] # None
    BY <1>0 DEF RequestFits
  <2>2. r.op = "createChannel" => memberRow'[r.member] = memberRow[r.member]
    BY <2>1, NextRows DEF NewMembers
  <2> QED  BY <1>0, <1>1, <2>2 DEF RequestFits
<1>2. CASE r.op = "commitChannel"
  <2>0. /\ r.member \in Members /\ memberRow[r.member] \in Row
        /\ memberRow[r.member].ws = r.ws
        /\ r.ws \in workspaces /\ r.channel \in documents \ channels
    BY <1>0, <1>2 DEF RequestFits
  <2>1. memberRow'[r.member] = memberRow[r.member]
    BY <2>0, NextRows DEF NewMembers
  <2>2. r.ws \in workspaces' /\ r.channel \in documents' \ channels'
    <3>1. CASE UNCHANGED <<workspaces, documents, channels>>
      BY <2>0, <3>1
    <3>2. ASSUME NEW u \in Users,
                 \/ UpdateWorkspace(u) \/ DeleteWorkspace(u)
                 \/ AddWorkspaceMember(u) \/ RemoveWorkspaceMember(u)
          PROVE  r.ws \in workspaces' /\ r.channel \in documents' \ channels'
      <4>1. PICK w \in Workspaces, removed \in SUBSET Members, added \in SUBSET Users :
               /\ ChangeMembers(w, removed, added)
               /\ UNCHANGED workspaces \/ DeleteWorkspace(u)
        BY <3>2, MembersStep
      <4>2. UNCHANGED <<documents, channels>>
        BY <4>1 DEF ChangeMembers
      <4>3. CASE DeleteWorkspace(u)
        <5>1. r.ws # request[u].ws /\ workspaces' = workspaces \ {request[u].ws}
          BY <1>2, <4>3 DEF DeleteWorkspace
        <5> QED  BY <2>0, <4>2, <5>1
      <4> QED  BY <2>0, <4>1, <4>2, <4>3
    <3>3. ASSUME NEW u \in Users, NEW w \in Workspaces, NEW m \in Members,
                 CreateWorkspace(u, w, m)
          PROVE  r.ws \in workspaces' /\ r.channel \in documents' \ channels'
      BY <2>0, <3>3 DEF CreateWorkspace, channelTables
    <3>4. ASSUME NEW u \in Users, NEW c \in Channels, StoreChannel(u, c)
          PROVE  r.ws \in workspaces' /\ r.channel \in documents' \ channels'
      BY <2>0, <3>4 DEF StoreChannel, memberTables, channelTables
    <3>5. ASSUME NEW u \in Users, CommitChannel(u)
          PROVE  r.ws \in workspaces' /\ r.channel \in documents' \ channels'
      <4>1. request[u].op = "commitChannel" /\ request' = [request EXCEPT ![u] = Idle]
        BY <3>5 DEF CommitChannel, Ends
      <4>2. request'[u] = Idle
        BY <4>1 DEF Requests
      <4>3. u # v
        BY <1>2, <4>2 DEF Idle
      <4>4. request[u].channel # r.channel
        BY <1>2, <4>1, <4>3 DEF Requests, OwnChannel
      <4>5. /\ channels' = channels \cup {request[u].channel}
            /\ UNCHANGED <<workspaces, documents>>
        BY <3>5 DEF CommitChannel, memberTables
      <4> QED  BY <2>0, <4>4, <4>5
    <3>6. ASSUME NEW u \in Users, DeleteChannel(u)
          PROVE  r.ws \in workspaces' /\ r.channel \in documents' \ channels'
      BY <2>0, <3>6 DEF DeleteChannel, memberTables
    <3>7. ASSUME NEW u \in Users,
                 \/ Check(u) \/ Abort(u) \/ AddChannelMember(u) \/ RemoveChannelMember(u)
                 \/ \E x \in Roles : CreateWorkspacesRole(u, x)
                 \/ DeleteWorkspaceRole(u) \/ AssignWorkspaceMemberRole(u)
                 \/ RemoveWorkspaceMemberRole(u)
          PROVE  UNCHANGED <<workspaces, documents, channels>>
      BY <3>7, Unwritten
      DEF tables, memberTables, channelTables, AddChannelMember, RemoveChannelMember,
          CreateWorkspacesRole, DeleteWorkspaceRole, AssignWorkspaceMemberRole,
          RemoveWorkspaceMemberRole
    <3>8. CASE UNCHANGED vars
      BY <3>1, <3>8 DEF vars, memberTables, channelTables
    <3> HIDE DEF r
    <3> QED  BY <3>1, <3>2, <3>3, <3>4, <3>5, <3>6, <3>7, <3>8 DEF Next, Write
  <2> QED  BY <1>2, <2>0, <2>1, <2>2 DEF RequestFits
<1> QED  BY <1>1, <1>2

\* A request that has passed its checks.
Carries(q) ==
    /\ q.op # "commitChannel"
    /\ q.op = "addWorkspaceMember" => q.user \in Users
    /\ q.op = "createChannel" =>
          /\ q.member \in Members
          /\ memberRow[q.member] \in Row /\ memberRow[q.member].ws = q.ws

LEMMA CheckedFits ==
    ASSUME TypeOK, Requests, NEW u \in Users, Check(u)
    PROVE  \E q : request' = [request EXCEPT ![u] = q] /\ Carries(q)
<1>1. ASSUME NEW w \in Workspaces, NEW q \in OwnerRequests(w)
      PROVE  Carries(q)
  <2>1. CASE \E I \in SUBSET Ids :
                q = [op |-> "updateWorkspace", ws |-> w, ids |-> I, before |-> MembersOf(w)]
    BY <2>1 DEF Carries
  <2>2. CASE q = [op |-> "deleteWorkspace", ws |-> w, before |-> MembersOf(w)]
    BY <2>2 DEF Carries
  <2>3. CASE \E v \in Users : q = [op |-> "addWorkspaceMember", ws |-> w, user |-> v]
    BY <2>3 DEF Carries
  <2>4. CASE \/ \E m \in members : q = [op |-> "removeWorkspaceMember", member |-> m]
             \/ q = [op |-> "createWorkspacesRole", ws |-> w]
             \/ \E x \in Roles : q = [op |-> "deleteWorkspaceRole", role |-> x]
    BY <2>4 DEF Carries
  <2>5. CASE \/ \E t \in roles \X members : q = [op |-> "assignWorkspaceMemberRole", row |-> t]
             \/ \E t \in memberRoles : q = [op |-> "removeWorkspaceMemberRole", row |-> t]
    BY <2>5 DEF Carries
  <2> QED  BY <2>1, <2>2, <2>3, <2>4, <2>5 DEF OwnerRequests
<1>2. ASSUME NEW w \in Workspaces, CheckOwner(u, w)
      PROVE  \E q : request' = [request EXCEPT ![u] = q] /\ Carries(q)
  BY <1>1, <1>2 DEF CheckOwner, Checked
<1>3. ASSUME NEW w \in Workspaces, CheckWorkspaceMember(u, w)
      PROVE  \E q : request' = [request EXCEPT ![u] = q] /\ Carries(q)
  <2>1. PICK m \in members :
            /\ MembershipsOf(w, u) = {m}
            /\ Checked(u, [op |-> "createChannel", ws |-> w, member |-> m])
    BY <1>3 DEF CheckWorkspaceMember
  <2> DEFINE q == [op |-> "createChannel", ws |-> w, member |-> m]
  <2>2. m \in Members /\ memberRow[m] \in Row /\ memberRow[m].ws = w
    BY <2>1 DEF MembershipsOf, MembersOf, TypeOK
  <2>3. Carries(q)
    BY <2>2 DEF Carries
  <2>4. request' = [request EXCEPT ![u] = q]
    BY <2>1 DEF Checked
  <2> QED  BY <2>3, <2>4
<1>4. ASSUME NEW c \in Channels, CheckChannelCreator(u, c) \/ CheckChannelMember(u, c)
      PROVE  \E q : request' = [request EXCEPT ![u] = q] /\ Carries(q)
  <2>1. CASE Checked(u, [op |-> "deleteChannel", channel |-> c])
    <3> DEFINE q == [op |-> "deleteChannel", channel |-> c]
    <3>1. Carries(q) /\ request' = [request EXCEPT ![u] = q]
      BY <2>1 DEF Checked, Carries
    <3> QED  BY <3>1
  <2>2. ASSUME NEW m \in Members,
               Checked(u, [op |-> "removeChannelMember", channel |-> c,
                           rows |-> {t \in channelMembers : t[2] = m}])
        PROVE  \E q : request' = [request EXCEPT ![u] = q] /\ Carries(q)
    <3> DEFINE q == [op |-> "removeChannelMember", channel |-> c,
                     rows |-> {t \in channelMembers : t[2] = m}]
    <3>1. Carries(q) /\ request' = [request EXCEPT ![u] = q]
      BY <2>2 DEF Checked, Carries
    <3> QED  BY <3>1
  <2>3. ASSUME NEW m \in members, Checked(u, [op |-> "addChannelMember", row |-> <<c, m>>])
        PROVE  \E q : request' = [request EXCEPT ![u] = q] /\ Carries(q)
    <3> DEFINE q == [op |-> "addChannelMember", row |-> <<c, m>>]
    <3>1. Carries(q) /\ request' = [request EXCEPT ![u] = q]
      BY <2>3 DEF Checked, Carries
    <3> QED  BY <3>1
  <2> QED  BY <1>4, <2>1, <2>2, <2>3 DEF CheckChannelCreator, CheckChannelMember
<1> QED  BY <1>2, <1>3, <1>4 DEF Check

\* A step is of one request: it starts, ends or goes on to its commit.
LEMMA RequestStep ==
    ASSUME TypeOK, Requests, [Next]_vars
    PROVE  \/ UNCHANGED request
           \/ \E u \in Users : \E q :
                 /\ request' = [request EXCEPT ![u] = q]
                 /\ \/ Carries(q) /\ UNCHANGED memberRow
                    \/ /\ \E c \in Channels : StoreChannel(u, c)
                       /\ q.op = "commitChannel" /\ q.channel \in documents' \ documents
                       /\ request[u].op = "createChannel"
                       /\ q.ws = request[u].ws /\ q.member = request[u].member
                       /\ q.ws \in workspaces'
                    \/ q = Idle
<1>1. ASSUME NEW u \in Users, Check(u)
      PROVE  \E q : request' = [request EXCEPT ![u] = q] /\ Carries(q)
                    /\ UNCHANGED memberRow
  BY <1>1, CheckedFits, Unwritten DEF tables, memberTables
<1>2. ASSUME NEW u \in Users, NEW c \in Channels, StoreChannel(u, c)
      PROVE  \E q : /\ request' = [request EXCEPT ![u] = q]
                    /\ q.op = "commitChannel" /\ q.channel \in documents' \ documents
                    /\ request[u].op = "createChannel"
                    /\ q.ws = request[u].ws /\ q.member = request[u].member
                    /\ q.ws \in workspaces'
  <2> DEFINE q == [op |-> "commitChannel", ws |-> request[u].ws,
                   member |-> request[u].member, channel |-> c]
  <2>1. /\ q.op = "commitChannel" /\ q.channel = c
        /\ q.ws = request[u].ws /\ q.member = request[u].member
    OBVIOUS
  <2>2. /\ request' = [request EXCEPT ![u] = q]
        /\ request[u].op = "createChannel"
        /\ c \in documents' \ documents /\ request[u].ws \in workspaces'
    BY <1>2 DEF StoreChannel, memberTables
  <2> QED  BY <2>1, <2>2
<1>3. ASSUME NEW u \in Users, Write(u) \/ Abort(u),
             ~\E c \in Channels : StoreChannel(u, c)
      PROVE  UNCHANGED request \/ request' = [request EXCEPT ![u] = Idle]
  BY <1>3 DEF Write, Abort, Ends, CreateWorkspace, UpdateWorkspace, DeleteWorkspace,
     AddWorkspaceMember, RemoveWorkspaceMember, CommitChannel, DeleteChannel,
     AddChannelMember, RemoveChannelMember, CreateWorkspacesRole, DeleteWorkspaceRole,
     AssignWorkspaceMemberRole, RemoveWorkspaceMemberRole
<1>4. CASE UNCHANGED vars
  BY <1>4 DEF vars
<1>5. ASSUME NEW u \in Users, Check(u) \/ Write(u) \/ Abort(u)
      PROVE  \/ UNCHANGED request
             \/ \E q :
                 /\ request' = [request EXCEPT ![u] = q]
                 /\ \/ Carries(q) /\ UNCHANGED memberRow
                    \/ /\ \E c \in Channels : StoreChannel(u, c)
                       /\ q.op = "commitChannel" /\ q.channel \in documents' \ documents
                       /\ request[u].op = "createChannel"
                       /\ q.ws = request[u].ws /\ q.member = request[u].member
                       /\ q.ws \in workspaces'
                    \/ q = Idle
  <2>1. CASE Check(u)
    BY <1>1, <2>1
  <2>2. CASE \E c \in Channels : StoreChannel(u, c)
    BY <1>2, <2>2
  <2>3. CASE (Write(u) \/ Abort(u)) /\ ~\E c \in Channels : StoreChannel(u, c)
    BY <1>3, <2>3
  <2> QED  BY <1>5, <2>1, <2>2, <2>3
<1> QED  BY <1>4, <1>5 DEF Next

\* A step keeps what every request carries fit, and no two requests create one
\* channel: a channel whose document is there is not created again.
LEMMA NextRequests ==
    ASSUME TypeOK, Requests, ChannelHasHistory, [Next]_vars
    PROVE  Requests'
<1>1. CASE UNCHANGED request
  <2>1. \A u \in Users : RequestFits(u)'
    BY <1>1, OthersFit
  <2>2. OwnChannel' /\ request' = [u \in Users |-> request'[u]]
    BY <1>1 DEF Requests, OwnChannel
  <2> QED  BY <2>1, <2>2 DEF Requests
<1>2. ASSUME NEW u \in Users, NEW q,
             /\ request' = [request EXCEPT ![u] = q]
             /\ \/ Carries(q) /\ UNCHANGED memberRow
                \/ /\ \E c \in Channels : StoreChannel(u, c)
                   /\ q.op = "commitChannel" /\ q.channel \in documents' \ documents
                   /\ request[u].op = "createChannel"
                   /\ q.ws = request[u].ws /\ q.member = request[u].member
                   /\ q.ws \in workspaces'
                \/ q = Idle
      PROVE  Requests'
  <2>0. request = [x \in Users |-> request[x]]
    BY DEF Requests
  <2>1. /\ request' = [x \in Users |-> request'[x]]
        /\ request'[u] = q
        /\ \A v \in Users \ {u} : request'[v] = request[v]
    BY <1>2, <2>0
  <2>2. \A v \in Users \ {u} : RequestFits(v)'
    BY <2>1, OthersFit
  <2>3. CASE Carries(q) /\ UNCHANGED memberRow
    <3>1. RequestFits(u)'
      BY <2>1, <2>3 DEF RequestFits, Carries
    <3>2. OwnChannel'
      BY <2>1, <2>3 DEF Requests, OwnChannel, Carries
    <3> QED  BY <2>1, <2>2, <3>1, <3>2 DEF Requests
  <2>4. CASE q = Idle
    <3>1. q.op = "idle"
      BY <2>4 DEF Idle
    <3>2. RequestFits(u)'
      BY <2>1, <3>1 DEF RequestFits
    <3>3. OwnChannel'
      BY <2>1, <3>1 DEF Requests, OwnChannel
    <3> QED  BY <2>1, <2>2, <3>2, <3>3 DEF Requests
  <2>5. CASE /\ \E c \in Channels : StoreChannel(u, c)
             /\ q.op = "commitChannel" /\ q.channel \in documents' \ documents
             /\ request[u].op = "createChannel"
             /\ q.ws = request[u].ws /\ q.member = request[u].member
             /\ q.ws \in workspaces'
    <3>1. /\ q.member \in Members /\ memberRow[q.member] \in Row
          /\ memberRow[q.member].ws = q.ws
      BY <2>5 DEF Requests, RequestFits
    <3>2. UNCHANGED <<memberRow, channels>>
      BY <2>5 DEF StoreChannel, memberTables, channelTables
    <3>3. q.channel \notin channels'
      BY <2>5, <3>2 DEF StoreChannel, ChannelHasHistory
    <3>4. RequestFits(u)'
      BY <2>1, <2>5, <3>1, <3>2, <3>3 DEF RequestFits
    <3>5. \A v \in Users : request[v].op = "commitChannel" => request[v].channel # q.channel
      BY <2>5 DEF Requests, RequestFits
    <3>6. OwnChannel'
      BY <2>1, <3>5 DEF Requests, OwnChannel
    <3> QED  BY <2>1, <2>2, <3>4, <3>6 DEF Requests
  <2> QED  BY <1>2, <2>3, <2>4, <2>5
<1> QED  BY <1>1, <1>2, RequestStep

-----------------------------------------------------------------------------
(* Creators and history documents                                          *)

\* A row of a member is never overwritten; a new one is a creator's only in
\* the transaction that creates the workspace.
LEMMA MembersOrigin ==
    ASSUME TypeOK, Requests, [Next]_vars
    PROVE  \/ \A m \in members' : \/ m \in members /\ memberRow'[m] = memberRow[m]
                                  \/ ~memberRow'[m].creator
           \/ \E u \in Users, w \in Workspaces, n \in Members : CreateWorkspace(u, w, n)
<1>0. members \subseteq Members \ NewMembers
  BY DEF TypeOK, NewMembers
<1>1. CASE UNCHANGED <<members, memberRow>>
  BY <1>1
<1>2. ASSUME NEW u \in Users,
             \/ UpdateWorkspace(u) \/ DeleteWorkspace(u)
             \/ AddWorkspaceMember(u) \/ RemoveWorkspaceMember(u)
      PROVE  \A m \in members' : \/ m \in members /\ memberRow'[m] = memberRow[m]
                                 \/ ~memberRow'[m].creator
  <2>1. PICK w \in Workspaces, removed \in SUBSET Members, added \in SUBSET Users :
           ChangeMembers(w, removed, added)
    BY <1>2, MembersStep
  <2>2. PICK new \in SUBSET NewMembers :
              /\ members' = (members \ removed) \cup new
              /\ \A m \in Members \ new : memberRow'[m] = memberRow[m]
              /\ \A m \in new : ~memberRow'[m].creator
    BY <2>1, ChangeMembersStep
  <2> QED  BY <1>0, <2>2
<1>3. ASSUME NEW u \in Users, Check(u) \/ Write(u) \/ Abort(u)
      PROVE  \/ UNCHANGED <<members, memberRow>>
             \/ UpdateWorkspace(u) \/ DeleteWorkspace(u)
             \/ AddWorkspaceMember(u) \/ RemoveWorkspaceMember(u)
             \/ \E w \in Workspaces, n \in Members : CreateWorkspace(u, w, n)
  <2>1. CASE Check(u) \/ Abort(u)
    BY <2>1, Unwritten DEF tables, memberTables
  <2>2. CASE Write(u)
    BY <2>2 DEF Write, memberTables, StoreChannel, CommitChannel, DeleteChannel,
          AddChannelMember, RemoveChannelMember, CreateWorkspacesRole,
          DeleteWorkspaceRole, AssignWorkspaceMemberRole, RemoveWorkspaceMemberRole
  <2> QED  BY <1>3, <2>1, <2>2
<1> QED  BY <1>1, <1>2, <1>3 DEF Next, vars, memberTables

\* The rows of channel_member: the creator's is written once, when the channel
\* is committed, and only taken away later.
LEMMA CreatorsOrigin ==
    ASSUME TypeOK, Requests, [Next]_vars
    PROVE  \/ /\ channelCreators' \subseteq channelCreators
              /\ channels' \subseteq channels /\ UNCHANGED channelWs
           \/ \E u \in Users : CommitChannel(u)
<1>1. CASE UNCHANGED channelTables
  BY <1>1 DEF channelTables
<1>2. ASSUME NEW u \in Users,
             \/ UpdateWorkspace(u) \/ DeleteWorkspace(u)
             \/ AddWorkspaceMember(u) \/ RemoveWorkspaceMember(u)
      PROVE  /\ channelCreators' \subseteq channelCreators
             /\ channels' \subseteq channels /\ UNCHANGED channelWs
  <2>1. PICK w \in Workspaces, removed \in SUBSET Members, added \in SUBSET Users :
           ChangeMembers(w, removed, added)
    BY <1>2, MembersStep
  <2> QED  BY <2>1 DEF ChangeMembers
<1>3. ASSUME NEW u \in Users,
             DeleteChannel(u) \/ AddChannelMember(u) \/ RemoveChannelMember(u)
      PROVE  /\ channelCreators' \subseteq channelCreators
             /\ channels' \subseteq channels /\ UNCHANGED channelWs
  BY <1>3 DEF DeleteChannel, AddChannelMember, RemoveChannelMember
<1>4. ASSUME NEW u \in Users, Check(u) \/ Write(u) \/ Abort(u)
      PROVE  \/ UNCHANGED channelTables
             \/ UpdateWorkspace(u) \/ DeleteWorkspace(u)
             \/ AddWorkspaceMember(u) \/ RemoveWorkspaceMember(u)
             \/ DeleteChannel(u) \/ AddChannelMember(u) \/ RemoveChannelMember(u)
             \/ CommitChannel(u)
  <2>1. CASE Check(u) \/ Abort(u)
    BY <2>1, Unwritten DEF tables
  <2>2. CASE Write(u)
    BY <2>2 DEF Write, CreateWorkspace, StoreChannel, CreateWorkspacesRole,
          DeleteWorkspaceRole, AssignWorkspaceMemberRole, RemoveWorkspaceMemberRole
  <2> QED  BY <1>4, <2>1, <2>2
<1> QED  BY <1>1, <1>2, <1>3, <1>4 DEF Next, vars

LEMMA NextOneCreator ==
    ASSUME TypeOK, Requests, OneCreator, [Next]_vars
    PROVE  OneCreator'
<1>0. /\ \A w \in Workspaces : \A m, n \in CreatorOf(w) : m = n
      /\ \A c \in Channels : \A m, n \in CreatorOfChannel(c) : m = n
  BY DEF OneCreator
<1>1. \A w \in Workspaces : \A m, n \in CreatorOf(w)' : m = n
  <2>1. CASE \A m \in members' : \/ m \in members /\ memberRow'[m] = memberRow[m]
                                 \/ ~memberRow'[m].creator
    <3>1. \A w \in Workspaces : CreatorOf(w)' \subseteq CreatorOf(w)
      BY <2>1 DEF CreatorOf, MembersOf
    <3> QED  BY <1>0, <3>1
  <2>2. ASSUME NEW u \in Users, NEW v \in Workspaces, NEW k \in Members,
               CreateWorkspace(u, v, k)
        PROVE  \A w \in Workspaces : \A m, n \in CreatorOf(w)' : m = n
    <3>1. /\ memberRow'[k] = [ws |-> v, user |-> u, creator |-> TRUE]
          /\ \A n \in Members \ {k} : memberRow'[n] = memberRow[n]
          /\ members' = members \cup {k}
          /\ \A n \in members : memberRow[n].ws # v
          /\ k \notin members /\ members \subseteq Members
      BY <2>2 DEF CreateWorkspace, TypeOK, NewMembers
    <3>2. CreatorOf(v)' \subseteq {k}
      BY <3>1 DEF CreatorOf, MembersOf
    <3>3. \A w \in Workspaces \ {v} : CreatorOf(w)' \subseteq CreatorOf(w)
      BY <3>1 DEF CreatorOf, MembersOf
    <3> QED  BY <1>0, <3>2, <3>3
  <2> QED  BY <2>1, <2>2, MembersOrigin
<1>2. \A c \in Channels : \A m, n \in CreatorOfChannel(c)' : m = n
  <2>0. \A c \in Channels : \A m, n : <<c, m>> \in channelCreators /\ <<c, n>> \in channelCreators
                                         => m = n
    BY <1>0 DEF CreatorOfChannel, TypeOK
  <2>1. CASE channelCreators' \subseteq channelCreators
    BY <2>0, <2>1 DEF CreatorOfChannel
  <2>2. ASSUME NEW u \in Users, CommitChannel(u)
        PROVE  \A c \in Channels : \A m, n \in CreatorOfChannel(c)' : m = n
    <3>1. request[u].channel \notin channels
      BY <2>2 DEF CommitChannel, Ends, Requests, RequestFits
    <3>2. \A m : <<request[u].channel, m>> \notin channelCreators
      BY <3>1 DEF TypeOK
    <3>3. channelCreators' =
             channelCreators \cup {<<request[u].channel, request[u].member>>}
      BY <2>2 DEF CommitChannel
    <3> QED  BY <2>0, <3>2, <3>3 DEF CreatorOfChannel
  <2> QED  BY <2>1, <2>2, CreatorsOrigin
<1> QED  BY <1>1, <1>2 DEF OneCreator

LEMMA NextAtHome ==
    ASSUME TypeOK, Requests, ChannelCreatorAtHome, [Next]_vars
    PROVE  ChannelCreatorAtHome'
<1>0. \A c, m : <<c, m>> \in channelCreators =>
         /\ c \in channels /\ m \in members
         /\ memberRow'[m] = memberRow[m] /\ memberRow[m].ws = channelWs[c]
  <2>1. \A c, m : <<c, m>> \in channelCreators => c \in channels /\ m \in members
    BY DEF TypeOK
  <2>2. \A m \in members : memberRow'[m] = memberRow[m]
    BY NextRows DEF TypeOK, NewMembers
  <2> QED  BY <2>1, <2>2 DEF ChannelCreatorAtHome, CreatorOfChannel
<1>1. CASE channelCreators' \subseteq channelCreators /\ UNCHANGED channelWs
  BY <1>0, <1>1 DEF ChannelCreatorAtHome, CreatorOfChannel
<1>2. ASSUME NEW u \in Users, CommitChannel(u)
      PROVE  ChannelCreatorAtHome'
  <2> DEFINE r == request[u]
  <2>1. /\ r.channel \in Channels \ channels /\ r.member \in Members
        /\ memberRow[r.member].ws = r.ws
    BY <1>2 DEF CommitChannel, Ends, Requests, RequestFits, TypeOK
  <2>2. /\ channelWs' = [channelWs EXCEPT ![r.channel] = r.ws]
        /\ channelCreators' = channelCreators \cup {<<r.channel, r.member>>}
        /\ UNCHANGED memberRow
    BY <1>2 DEF CommitChannel, memberTables
  <2> HIDE DEF r
  <2>3. channelWs'[r.channel] = r.ws
    BY <2>1, <2>2 DEF TypeOK
  <2>4. \A c \in channels : channelWs'[c] = channelWs[c]
    BY <2>1, <2>2 DEF TypeOK
  <2>5. \A c, m : <<c, m>> \in channelCreators' => memberRow'[m].ws = channelWs'[c]
    BY <1>0, <2>1, <2>2, <2>3, <2>4
  <2> QED  BY <2>5 DEF ChannelCreatorAtHome, CreatorOfChannel
<1> QED  BY <1>1, <1>2, CreatorsOrigin

LEMMA NextHistory ==
    ASSUME TypeOK, Requests, ChannelHasHistory, [Next]_vars
    PROVE  ChannelHasHistory'
<1>1. documents \subseteq documents'
  <2>1. ASSUME NEW u \in Users,
             \/ UpdateWorkspace(u) \/ DeleteWorkspace(u)
             \/ AddWorkspaceMember(u) \/ RemoveWorkspaceMember(u)
        PROVE  UNCHANGED documents
    BY <2>1, MembersStep DEF ChangeMembers
  <2>2. ASSUME NEW u \in Users, Check(u) \/ Abort(u)
        PROVE  UNCHANGED documents
    BY <2>2, Unwritten DEF tables
  <2>3. ASSUME NEW u \in Users, Write(u)
        PROVE  \/ documents \subseteq documents'
               \/ UpdateWorkspace(u) \/ DeleteWorkspace(u)
               \/ AddWorkspaceMember(u) \/ RemoveWorkspaceMember(u)
    BY <2>3 DEF Write, CreateWorkspace, StoreChannel, CommitChannel, DeleteChannel,
       AddChannelMember, RemoveChannelMember, CreateWorkspacesRole, DeleteWorkspaceRole,
       AssignWorkspaceMemberRole, RemoveWorkspaceMemberRole
  <2> QED  BY <2>1, <2>2, <2>3 DEF Next, vars
<1>2. CASE channels' \subseteq channels
  BY <1>1, <1>2 DEF ChannelHasHistory
<1>3. ASSUME NEW u \in Users, CommitChannel(u)
      PROVE  ChannelHasHistory'
  <2>1. request[u].channel \in documents /\ channels' = channels \cup {request[u].channel}
    BY <1>3 DEF CommitChannel, Ends, Requests, RequestFits
  <2> QED  BY <1>1, <2>1 DEF ChannelHasHistory
<1> QED  BY <1>2, <1>3, CreatorsOrigin

-----------------------------------------------------------------------------
(* Theorems                                                                *)

LEMMA Invariant == Spec => []IInv
<1>1. IInv /\ [Next]_vars => IInv'
  BY NextTypeOK, NextRequests, NextOneCreator, NextAtHome, NextHistory DEF IInv
<1> QED  BY InitInv, <1>1, PTL DEF Spec

\* No row refers to a row that is gone, whatever requests overlap.
THEOREM TypeCorrect == Spec => []TypeOK
<1>1. IInv => TypeOK
  BY DEF IInv
<1> QED  BY Invariant, <1>1, PTL

\* The queries for the creator of a workspace or a channel never find two.
THEOREM CreatorsAreUnique == Spec => []OneCreator
<1>1. IInv => OneCreator
  BY DEF IInv
<1> QED  BY Invariant, <1>1, PTL

\* A channel is never created in the name of a member of another workspace,
\* although the member is looked up before the channel is written.
THEOREM CreatorsAreAtHome == Spec => []ChannelCreatorAtHome
<1>1. IInv => ChannelCreatorAtHome
  BY DEF IInv
<1> QED  BY Invariant, <1>1, PTL

\* No channel is without its history document, wherever createChannel fails.
THEOREM ChannelsHaveHistory == Spec => []ChannelHasHistory
<1>1. IInv => ChannelHasHistory
  BY DEF IInv
<1> QED  BY Invariant, <1>1, PTL

\* Of the rows that were read those of the users named stay, the others named
\* get a row; a row that was not read is left alone.
LEMMA UpdateLeavesNamed ==
    ASSUME TypeOK, Requests, NEW u \in Users, UpdateWorkspace(u),
           NEW w \in Workspaces, w = request[u].ws
    PROVE  LET named == Named(request[u].ids)
               came == MembersOf(w) \ request[u].before
               went == request[u].before \ MembersOf(w)
           IN  /\ UsersOf(MembersOf(w))' \subseteq named \cup UsersOf(came)
               /\ named \subseteq UsersOf(MembersOf(w))' \cup UsersOf(went)
<1> DEFINE before == request[u].before
           named == Named(request[u].ids)
           removed == {m \in before : memberRow[m].user \notin named}
           added == named \ UsersOf(before)
<1>1. added \in SUBSET Users
  BY DEF Named
<1>2. ChangeMembers(w, removed, added)
  BY DEF UpdateWorkspace
<1>3. PICK new \in SUBSET NewMembers :
         /\ members' = (members \ removed) \cup new
         /\ \A m \in Members \ new : memberRow'[m] = memberRow[m]
         /\ \A m \in new : memberRow'[m].ws = w /\ memberRow'[m].user \in added
         /\ \A v \in added : \E m \in new : memberRow'[m].user = v
  <2> HIDE DEF added, removed
  <2> QED  BY <1>1, <1>2, ChangeMembersStep
<1>4. members \subseteq Members /\ members \cap NewMembers = {}
  BY DEF TypeOK, NewMembers
<1>5. MembersOf(w)' = (MembersOf(w) \ removed) \cup new
  BY <1>3, <1>4 DEF MembersOf
<1>6. \A m \in MembersOf(w) : m \notin new /\ memberRow'[m] = memberRow[m]
  BY <1>3, <1>4 DEF MembersOf
<1>7. \A m \in MembersOf(w)' : \/ memberRow'[m].user \in named
                               \/ \E n \in MembersOf(w) \ before : memberRow[n].user = memberRow'[m].user
  <2> TAKE m \in MembersOf(w)'
  <2>1. CASE m \in new
    BY <1>3, <2>1
  <2>2. CASE m \in MembersOf(w) \ removed
    BY <1>6, <2>2
  <2> QED  BY <1>5, <2>1, <2>2
<1>8. \A v \in named : \/ \E m \in MembersOf(w)' : memberRow'[m].user = v
                       \/ \E m \in before \ MembersOf(w) : memberRow[m].user = v
  <2> TAKE v \in named
  <2>1. CASE v \in added
    BY <1>3, <1>5, <2>1
  <2>2. CASE v \in UsersOf(before)
    <3>1. PICK m \in before : memberRow[m].user = v
      BY <2>2 DEF UsersOf
    <3>2. m \notin removed
      BY <3>1
    <3> QED  BY <1>5, <1>6, <3>1, <3>2
  <2> QED  BY <2>1, <2>2
<1> HIDE DEF before, named
<1>9. /\ UsersOf(MembersOf(w))' \subseteq named \cup UsersOf(MembersOf(w) \ before)
      /\ named \subseteq UsersOf(MembersOf(w))' \cup UsersOf(before \ MembersOf(w))
  BY <1>7, <1>8 DEF UsersOf
<1> QED  BY <1>9 DEF before, named

\* updateWorkspace leaves the users whose ids it was sent, but for rows that
\* came or went since it read the members.
THEOREM UpdateIsExact == Spec => UpdateExact
<1>1. IInv /\ [Next]_vars =>
        [\A u \in Users : \A w \in Workspaces :
          (UpdateWorkspace(u) /\ w = request[u].ws) =>
              LET named == Named(request[u].ids)
                  came == MembersOf(w) \ request[u].before
                  went == request[u].before \ MembersOf(w)
              IN  /\ UsersOf(MembersOf(w))' \subseteq named \cup UsersOf(came)
                  /\ named \subseteq UsersOf(MembersOf(w))' \cup UsersOf(went)]_vars
  BY UpdateLeavesNamed DEF IInv
<1> QED  BY Invariant, <1>1, PTL DEF Spec, UpdateExact
=============================================================================
