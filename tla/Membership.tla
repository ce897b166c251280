----------------------------- MODULE Membership -----------------------------
(***************************************************************************)
(* Workspaces, their members, channels, channel members and roles: the     *)
(* services of J/service over the tables of init.sql, and the history      *)
(* document (MongoDB) that goes with a channel.                            *)
(*                                                                         *)
(* A request reads what its checks need and writes later: in between other *)
(* requests commit.  A check that fails changes nothing and is not an      *)
(* action.  A write that a foreign key refuses, a row that is gone, a crash *)
(* end the request without effect on the tables (Abort).                   *)
(*                                                                         *)
(* Identifiers are AUTO_INCREMENT, never used twice.  Names, avatars and   *)
(* dates are left out, and so are the updates of a channel and of a role,  *)
(* which change nothing else.                                              *)
(***************************************************************************)
EXTENDS Functions

CONSTANTS Users, Workspaces, Members, Channels, Roles,
          Ids, UserId,    \* the numbers a request may hold; the keys of user
          None    \* the row of an identifier that has not been used

ASSUME IdAssumption == UserId \in Injection(Users, Ids)

Row == [ws : Workspaces, user : Users, creator : BOOLEAN]

ASSUME NoneAssumption == None \notin Workspaces /\ None \notin Row

VARIABLES
    workspaces,         \* table workspace: the identifiers
    members, memberRow, \* workspace_member: identifiers; the row, kept when it is deleted
    channels, channelWs,                \* channel: identifiers; workspace_id
    channelMembers, channelCreators,    \* channel_member: <<channel_id, member_id>>; is_creator
    roles, roleWs,      \* role: identifiers; workspace_id
    memberRoles,        \* member_role: <<role_id, member_id>>
    documents,          \* MongoDB: channels with a history document
    request             \* what each user's request is about to write

memberTables == <<workspaces, members, memberRow>>
channelTables == <<channels, channelWs, channelMembers, channelCreators>>
roleTables == <<roles, roleWs, memberRoles>>
vars == <<memberTables, channelTables, roleTables, documents, request>>

Idle == [op |-> "idle"]

\* The type of every variable, the primary keys and the foreign keys: no row
\* refers to a row that is gone, and what goes with a row goes with it.
TypeOK ==
    /\ workspaces \subseteq Workspaces
    /\ members \subseteq Members
    /\ memberRow \in [Members -> Row \cup {None}]
    /\ \A m \in members : memberRow[m] \in Row /\ memberRow[m].ws \in workspaces
    /\ channels \subseteq Channels
    /\ channelWs \in [Channels -> Workspaces \cup {None}]
    /\ \A c \in channels : channelWs[c] \in workspaces
    /\ channelCreators \subseteq channelMembers
    /\ channelMembers \subseteq channels \X members
    /\ roles \subseteq Roles
    /\ roleWs \in [Roles -> Workspaces \cup {None}]
    /\ \A x \in roles : roleWs[x] \in workspaces
    /\ memberRoles \subseteq roles \X members
    /\ documents \subseteq Channels

Init ==
    /\ workspaces = {} /\ members = {} /\ channels = {} /\ roles = {}
    /\ memberRow = [m \in Members |-> None]
    /\ channelWs = [c \in Channels |-> None]
    /\ roleWs = [x \in Roles |-> None]
    /\ channelMembers = {} /\ channelCreators = {} /\ memberRoles = {}
    /\ documents = {}
    /\ request = [u \in Users |-> Idle]

-----------------------------------------------------------------------------
(* Queries                                                                 *)

MembersOf(w) == {m \in members : memberRow[m].ws = w}

\* findByWorkspaceIdAndUserId
MembershipsOf(w, u) == {m \in MembersOf(w) : memberRow[m].user = u}

\* findCreatorByWorkspaceId
CreatorOf(w) == {m \in MembersOf(w) : memberRow[m].creator}

\* findCreatorByChannelId
CreatorOfChannel(c) == {m \in members : <<c, m>> \in channelCreators}

\* The check "user owns the workspace": without a creator it throws.
Owns(u, w) == \E m \in CreatorOf(w) : memberRow[m].user = u
OwnsChannel(u, c) == \E m \in CreatorOfChannel(c) : memberRow[m].user = u

\* checkUserChannelMember
InChannel(u, c) == \E m \in members : <<c, m>> \in channelMembers /\ memberRow[m].user = u

UsersOf(M) == {memberRow[m].user : m \in M}
NewMembers == {m \in Members : memberRow[m] = None}

\* Who the ids of an update name: they are compared with the keys of users.
Named(ids) == {v \in Users : UserId[v] \in ids}

-----------------------------------------------------------------------------
(* Requests                                                                *)

\* A request has passed its checks.
Checked(u, r) ==
    /\ request[u] = Idle
    /\ request' = [request EXCEPT ![u] = r]
    /\ UNCHANGED <<memberTables, channelTables, roleTables, documents>>

\* A request writes and ends.
Ends(u, op) == request[u].op = op /\ request' = [request EXCEPT ![u] = Idle]

\* An exception, or a crash: what the transaction has written is rolled back.
Abort(u) ==
    /\ request[u] # Idle
    /\ request' = [request EXCEPT ![u] = Idle]
    /\ UNCHANGED <<memberTables, channelTables, roleTables, documents>>

\* What the owner of a workspace may ask, with what is read for it.  A member
\* or a role is looked up by its identifier alone, whatever its workspace.
OwnerRequests(w) ==
    {[op |-> "updateWorkspace", ws |-> w, ids |-> I, before |-> MembersOf(w)] :
        I \in SUBSET Ids}
    \cup {[op |-> "deleteWorkspace", ws |-> w, before |-> MembersOf(w)]}
    \cup {[op |-> "addWorkspaceMember", ws |-> w, user |-> v] : v \in Users}
    \cup {[op |-> "removeWorkspaceMember", member |-> m] : m \in members}
    \cup {[op |-> "createWorkspacesRole", ws |-> w]}
    \cup {[op |-> "deleteWorkspaceRole", role |-> x] : x \in Roles}
    \cup {[op |-> "assignWorkspaceMemberRole", row |-> t] : t \in roles \X members}
    \cup {[op |-> "removeWorkspaceMemberRole", row |-> t] : t \in memberRoles}

CheckOwner(u, w) == Owns(u, w) /\ \E r \in OwnerRequests(w) : Checked(u, r)

\* What the creator of a channel may ask: deleteByMemberId takes the rows of
\* the member, in whichever channel.
CheckChannelCreator(u, c) ==
    /\ OwnsChannel(u, c)
    /\ \/ Checked(u, [op |-> "deleteChannel", channel |-> c])
       \/ \E m \in Members :
             Checked(u, [op |-> "removeChannelMember", channel |-> c,
                         rows |-> {t \in channelMembers : t[2] = m}])

\* What a member of a channel may ask: to add any member of any workspace.
CheckChannelMember(u, c) ==
    /\ InChannel(u, c)
    /\ \E m \in members : Checked(u, [op |-> "addChannelMember", row |-> <<c, m>>])

\* Mutant: any membership of the user.
CheckWorkspaceMemberAny(u, w) ==
    \E m \in members : w \in workspaces /\ memberRow[m].user = u
        /\ Checked(u, [op |-> "createChannel", ws |-> w, member |-> m])

\* What a member of a workspace may ask.  Without a membership, or with two,
\* the query or its use throws.
CheckWorkspaceMember(u, w) ==
    \E m \in members :
        /\ MembershipsOf(w, u) = {m}
        /\ Checked(u, [op |-> "createChannel", ws |-> w, member |-> m])

-----------------------------------------------------------------------------
(* WorkspaceService and WorkspaceMemberService                             *)

\* The rows "removed" go and each user in "added" gets one, not as a creator.
\* It is refused if a row is gone already or a role refers to one; what the
\* channels have of the rows goes with them.
ChangeMembers(w, removed, added) ==
    /\ w \in workspaces
    /\ removed \subseteq members
    /\ \A t \in memberRoles : t[2] \notin removed
    /\ \E new \in SUBSET NewMembers : \E user \in Bijection(new, added) :
          /\ members' = (members \ removed) \cup new
          /\ memberRow' = [m \in Members |->
                IF m \in new THEN [ws |-> w, user |-> user[m], creator |-> FALSE]
                             ELSE memberRow[m]]
    /\ channelMembers' = {t \in channelMembers : t[2] \notin removed}
    /\ channelCreators' = {t \in channelCreators : t[2] \notin removed}
    /\ UNCHANGED <<channels, channelWs, roleTables, documents>>

\* One transaction that reads nothing.
CreateWorkspace(u, w, m) ==
    /\ request[u] = Idle
    /\ \A n \in Members \ NewMembers : memberRow[n].ws # w
    /\ m \in NewMembers
    /\ workspaces' = workspaces \cup {w}
    /\ members' = members \cup {m}
    /\ memberRow' = [memberRow EXCEPT ![m] = [ws |-> w, user |-> u, creator |-> TRUE]]
    /\ UNCHANGED <<channelTables, roleTables, documents, request>>

\* Mutant: members that are not named are kept.
UpdateAddsOnly(u) ==
    LET r == request[u] IN
    /\ Ends(u, "updateWorkspace")
    /\ ChangeMembers(r.ws, {}, Named(r.ids) \ UsersOf(r.before))
    /\ UNCHANGED workspaces

\* updateWorkspaceMembers: the users named against the members read before.  An
\* id that is no user's throws.
UpdateWorkspace(u) ==
    LET r == request[u] IN
    /\ Ends(u, "updateWorkspace")
    /\ \A i \in r.ids : \E v \in Users : UserId[v] = i
    /\ ChangeMembers(r.ws, {m \in r.before : memberRow[m].user \notin Named(r.ids)},
                     Named(r.ids) \ UsersOf(r.before))
    /\ UNCHANGED workspaces

\* Mutant: the schema cascades no deletion of a member to the channels.
DeleteWorkspaceNoCascade(u) ==
    /\ Ends(u, "deleteWorkspace")
    /\ workspaces' = workspaces \ {request[u].ws}
    /\ members' = members \ request[u].before
    /\ UNCHANGED <<memberRow, channelTables, roleTables, documents>>

\* The members that were read go, then the workspace: refused if a member, a
\* channel or a role is left.  It waits for the transaction that is creating a
\* channel in the workspace.
DeleteWorkspace(u) ==
    LET r == request[u] IN
    /\ Ends(u, "deleteWorkspace")
    /\ MembersOf(r.ws) = r.before
    /\ \A c \in channels : channelWs[c] # r.ws
    /\ \A x \in roles : roleWs[x] # r.ws
    /\ \A v \in Users : request[v].op = "commitChannel" => request[v].ws # r.ws
    /\ ChangeMembers(r.ws, r.before, {})
    /\ workspaces' = workspaces \ {r.ws}

\* Nothing asks whether the user is a member already.
AddWorkspaceMember(u) ==
    /\ Ends(u, "addWorkspaceMember")
    /\ ChangeMembers(request[u].ws, {}, {request[u].user})
    /\ UNCHANGED workspaces

RemoveWorkspaceMember(u) ==
    LET m == request[u].member IN
    /\ Ends(u, "removeWorkspaceMember")
    /\ ChangeMembers(memberRow[m].ws, {m}, {})
    /\ UNCHANGED workspaces

-----------------------------------------------------------------------------
(* ChannelService and ChannelMemberService                                 *)

\* Mutant: the document is left for later.
StoreChannelOnly(u, c) ==
    LET r == request[u] IN
    /\ r.op = "createChannel" /\ r.ws \in workspaces /\ channelWs[c] = None
    /\ request' = [request EXCEPT ![u] = [op |-> "commitChannel", ws |-> r.ws,
                                          member |-> r.member, channel |-> c]]
    /\ UNCHANGED <<memberTables, channelTables, roleTables, documents>>

\* The channel's row is inserted, and its history document saved, before the
\* transaction commits.  A rollback leaves the document, and uses up the
\* identifier.
StoreChannel(u, c) ==
    LET r == request[u] IN
    /\ r.op = "createChannel" /\ r.ws \in workspaces
    /\ channelWs[c] = None /\ c \notin documents
    /\ documents' = documents \cup {c}
    /\ request' = [request EXCEPT ![u] = [op |-> "commitChannel", ws |-> r.ws,
                                          member |-> r.member, channel |-> c]]
    /\ UNCHANGED <<memberTables, channelTables, roleTables>>

\* The row of channel_member is inserted at the commit.
CommitChannel(u) ==
    LET r == request[u] IN
    /\ Ends(u, "commitChannel")
    /\ r.member \in members
    /\ channels' = channels \cup {r.channel}
    /\ channelWs' = [channelWs EXCEPT ![r.channel] = r.ws]
    /\ channelMembers' = channelMembers \cup {<<r.channel, r.member>>}
    /\ channelCreators' = channelCreators \cup {<<r.channel, r.member>>}
    /\ UNCHANGED <<memberTables, roleTables, documents>>

\* The document stays.
DeleteChannel(u) ==
    LET c == request[u].channel IN
    /\ Ends(u, "deleteChannel")
    /\ c \in channels
    /\ channels' = channels \ {c}
    /\ channelMembers' = {t \in channelMembers : t[1] # c}
    /\ channelCreators' = {t \in channelCreators : t[1] # c}
    /\ UNCHANGED <<channelWs, memberTables, roleTables, documents>>

\* Mutant: the row is written as a creator's.
AddChannelMemberCreator(u) ==
    LET t == request[u].row IN
    /\ Ends(u, "addChannelMember") /\ t \in channels \X members
    /\ channelMembers' = channelMembers \cup {t}
    /\ channelCreators' = channelCreators \cup {t}
    /\ UNCHANGED <<channels, channelWs, memberTables, roleTables, documents>>

\* save merges an entity whose key is set: the row of a member who is in the
\* channel already is written over, and is no creator's from then on.
AddChannelMember(u) ==
    LET t == request[u].row IN
    /\ Ends(u, "addChannelMember") /\ t \in channels \X members
    /\ channelMembers' = channelMembers \cup {t}
    /\ channelCreators' = channelCreators \ {t}
    /\ UNCHANGED <<channels, channelWs, memberTables, roleTables, documents>>

RemoveChannelMember(u) ==
    LET rows == request[u].rows IN
    /\ Ends(u, "removeChannelMember") /\ rows \subseteq channelMembers
    /\ channelMembers' = channelMembers \ rows
    /\ channelCreators' = channelCreators \ rows
    /\ UNCHANGED <<channels, channelWs, memberTables, roleTables, documents>>

-----------------------------------------------------------------------------
(* WorkspaceRoleService and WorkspaceMemberRoleService                     *)

CreateWorkspacesRole(u, x) ==
    /\ Ends(u, "createWorkspacesRole")
    /\ roleWs[x] = None /\ request[u].ws \in workspaces
    /\ roles' = roles \cup {x}
    /\ roleWs' = [roleWs EXCEPT ![x] = request[u].ws]
    /\ UNCHANGED <<memberRoles, memberTables, channelTables, documents>>

\* Refused while a member has the role.
DeleteWorkspaceRole(u) ==
    /\ Ends(u, "deleteWorkspaceRole")
    /\ \A t \in memberRoles : t[1] # request[u].role
    /\ roles' = roles \ {request[u].role}
    /\ UNCHANGED <<roleWs, memberRoles, memberTables, channelTables, documents>>

AssignWorkspaceMemberRole(u) ==
    /\ Ends(u, "assignWorkspaceMemberRole") /\ request[u].row \in roles \X members
    /\ memberRoles' = memberRoles \cup {request[u].row}
    /\ UNCHANGED <<roles, roleWs, memberTables, channelTables, documents>>

RemoveWorkspaceMemberRole(u) ==
    /\ Ends(u, "removeWorkspaceMemberRole") /\ request[u].row \in memberRoles
    /\ memberRoles' = memberRoles \ {request[u].row}
    /\ UNCHANGED <<roles, roleWs, memberTables, channelTables, documents>>

-----------------------------------------------------------------------------

Check(u) ==
    \/ \E w \in Workspaces : CheckOwner(u, w) \/ CheckWorkspaceMember(u, w)
    \/ \E c \in Channels : CheckChannelCreator(u, c) \/ CheckChannelMember(u, c)

Write(u) ==
    \/ \E w \in Workspaces, m \in Members : CreateWorkspace(u, w, m)
    \/ UpdateWorkspace(u) \/ DeleteWorkspace(u)
    \/ AddWorkspaceMember(u) \/ RemoveWorkspaceMember(u)
    \/ \E c \in Channels : StoreChannel(u, c)
    \/ CommitChannel(u) \/ DeleteChannel(u)
    \/ AddChannelMember(u) \/ RemoveChannelMember(u)
    \/ \E x \in Roles : CreateWorkspacesRole(u, x)
    \/ DeleteWorkspaceRole(u) \/ AssignWorkspaceMemberRole(u) \/ RemoveWorkspaceMemberRole(u)

Next == \E u \in Users : Check(u) \/ Write(u) \/ Abort(u)

Spec == Init /\ [][Next]_vars

-----------------------------------------------------------------------------
(* Properties                                                              *)

\* A workspace has at most one creator, and a channel too, whatever requests
\* overlap: the queries for them expect one row, and throw on two.
OneCreator ==
    /\ \A w \in Workspaces : \A m, n \in CreatorOf(w) : m = n
    /\ \A c \in Channels : \A m, n \in CreatorOfChannel(c) : m = n

\* The creator of a channel is a member of the channel's workspace, although a
\* channel can have members of others.
ChannelCreatorAtHome ==
    \A c \in channels : \A m \in CreatorOfChannel(c) : memberRow[m].ws = channelWs[c]

\* A channel has a history document: it is saved before the channel's
\* transaction commits, so no crash in between leaves a channel whose messages
\* are not stored.
ChannelHasHistory == channels \subseteq documents

\* updateWorkspace leaves a workspace with the users whose ids it was sent,
\* whatever happened since its members were read: more only by rows that were
\* added since, fewer only by rows that went.
UpdateExact ==
    [][\A u \in Users : \A w \in Workspaces :
          (UpdateWorkspace(u) /\ w = request[u].ws) =>
              LET named == Named(request[u].ids)
                  came == MembersOf(w) \ request[u].before
                  went == request[u].before \ MembersOf(w)
              IN  /\ UsersOf(MembersOf(w))' \subseteq named \cup UsersOf(came)
                  /\ named \subseteq UsersOf(MembersOf(w))' \cup UsersOf(went)]_vars

-----------------------------------------------------------------------------
(* What the documents and comments say of the code, and it does not keep.  *)

\* Creator authorities are guaranteed: a workspace has a creator, and so has a
\* channel, whose creator updates and deletes it.
CreatorKept ==
    /\ \A w \in workspaces : CreatorOf(w) # {}
    /\ \A c \in channels : CreatorOfChannel(c) # {}
=============================================================================
