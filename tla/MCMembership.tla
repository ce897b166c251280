---------------------------- MODULE MCMembership ----------------------------
(* Instances of Membership for TLC: users are numbered from 1.               *)
EXTENDS Membership, FiniteSets, Integers, TLC

UserIds == CHOOSE f \in Bijection(Users, 1..Cardinality(Users)) : TRUE

Symmetry == Permutations(Workspaces) \cup Permutations(Members)
            \cup Permutations(Channels) \cup Permutations(Roles)

\* Channels and roles have only the members in common: one kind in a behaviour.
ChannelsOrRoles == documents = {} \/ \A x \in Roles : roleWs[x] = None
=============================================================================
