------------------------------- MODULE Spaces -------------------------------
(***************************************************************************)
(* Spaces and their members, as the REST routes use the service: the       *)
(* audited operations, each one write transaction of the only writer.  A   *)
(* client that changes or removes a member sends the version it saw in an  *)
(* earlier listing.  The middleware looks at the session when a request    *)
(* arrives; the transaction reads the roles of the actor and no session.   *)
(* Nothing deletes a user or a Space.  System roles change in Identity.    *)
(***************************************************************************)
EXTENDS Authorization, Integers, Sequences

CONSTANTS
    SystemRoleOf,    \* user -> system role
    InitialSpaces, InitialMembers,
    Requests,        \* what a client may ask: see Request
    Slots,           \* slots of concurrent clients
    MaxRequests,     \* bound of what clients ask
    NoRequest, NoSession

VARIABLES
    spaces,
    members,         \* Space -> user -> membership
    sessions,        \* user -> the memberships the user had at login
    trail,           \* the audit events of the service
    slot,            \* slot -> the client's request being served
    requests         \* number of requests so far

spaceVars == <<spaces, members, sessions, trail, slot, requests>>

Membership == [role : SpaceRoles, version : Nat, born : Nat]
NoMember == [role |-> "none", version |-> 0, born |-> 0]

ASSUME SpaceRequestsAssumption ==
    \A q \in Requests :
      /\ q.actor \in Users /\ q.target \in Users /\ q.space \in Spaces
      /\ q.role \in SpaceRoles \ {"none"} /\ q.labels \subseteq Labels

\* An installation with Spaces, each with an owner, and with memberships as they
\* were made, before the first event of the trail.
ASSUME InitialSpacesAssumption ==
    /\ InitialSpaces \subseteq Spaces
    /\ InitialMembers \in [Spaces -> [Users -> Membership]]
    /\ \A s \in Spaces, u \in Users :
         InitialMembers[s][u] # NoMember =>
           /\ s \in InitialSpaces
           /\ InitialMembers[s][u].version = 1 /\ InitialMembers[s][u].born = 0
    /\ \A s \in InitialSpaces : \E u \in Users : InitialMembers[s][u].role = "owner"

MemberOps == {"create_space", "add", "change", "remove"}
\* The operations whose client first reads what it changes.
ReadFirst == {"change", "remove", "asset_update", "asset_delete"}

\* seen, labels: what the client saw; role: the role that the request acts with;
\* held: the roles its actor has had since the request arrived.
Fresh(q) == [pc |-> "read", q |-> q, seen |-> NoMember, labels |-> {},
             role |-> "none", held |-> {}]
Free == [Fresh(NoRequest) EXCEPT !.pc = "free"]

RoleIn(ms, q) == IF q.space \in DOMAIN ms THEN ms[q.space][q.actor].role ELSE "none"

SpacesInit ==
    /\ spaces = InitialSpaces /\ members = InitialMembers /\ trail = <<>>
    /\ sessions = [u \in Users |-> [s \in Spaces |-> members[s][u]]]
    /\ slot = [r \in Slots |-> Free] /\ requests = 0

(***************************************************************************)
(* Requests.                                                               *)
(***************************************************************************)
At(r, pc) == slot[r].pc = pc
Asks(r, op) == At(r, "run") /\ slot[r].q.op = op

\* The request proper of slot r, whose middleware finds the session live.
Authenticated(r, x) ==
    /\ sessions[x.q.actor] # NoSession
    /\ slot' = [slot EXCEPT ![r] = [x EXCEPT
         !.pc = IF x.q.op \in MemberOps THEN "run" ELSE "resolve",
         !.held = {RoleIn(members, x.q)}]]

\* A client begins, with the request or with the read it starts from.
Arrive(r, q) ==
    /\ At(r, "free") /\ requests < MaxRequests /\ requests' = requests + 1
    /\ IF q.op \in ReadFirst
       THEN sessions[q.actor] # NoSession /\ slot' = [slot EXCEPT ![r] = Fresh(q)]
       ELSE Authenticated(r, Fresh(q))
    /\ UNCHANGED <<spaces, members, sessions, trail>>

\* The request that follows the read.
ArriveAgain(r) ==
    /\ At(r, "again") /\ Authenticated(r, slot[r])
    /\ UNCHANGED <<spaces, members, sessions, trail, requests>>

\* A request that is refused, that finds nothing to do, or whose transaction
\* fails: nothing changes.
Returns(r) ==
    /\ ~At(r, "free") /\ slot' = [slot EXCEPT ![r] = Free]
    /\ UNCHANGED <<spaces, members, sessions, trail, requests>>

\* Request r is done; the others go on, with memberships ms.
Done(r, ms) ==
    slot' = [x \in Slots |->
      IF x = r \/ At(x, "free") THEN Free
      ELSE [slot[x] EXCEPT !.held = @ \cup {RoleIn(ms, slot[x].q)}]]

(***************************************************************************)
(* What the transactions do.                                               *)
(***************************************************************************)

\* humanPrincipalTx.
principalOf(u, roles) ==
    [kind |-> "human", authenticated |-> TRUE, system |-> SystemRoleOf[u],
     roles |-> roles, grants |-> {}]
humanPrincipal(u) == principalOf(u, [s \in Spaces |-> members[s][u].role])

requireActiveSpaceTx(s) == s \in spaces

authorizeMemberManagement(q, action) ==
    /\ requireActiveSpaceTx(q.space)
    /\ DecisionForHuman(humanPrincipal(q.actor),
                        [space |-> q.space, labels |-> {}], action) = "allowed"

\* Mutant: the member itself is counted.
requireAnotherOwner_Itself(s, u) == \E x \in Users : members[s][x].role = "owner"

\* remainingOwnerCountTx is not zero.
requireAnotherOwner(s, u) ==
    \E x \in Users \ {u} : members[s][x].role = "owner"

\* Mutant: sessions stay when the role of their user changes.
RevokeUserSessionsTx_Keeps(u) == UNCHANGED sessions

RevokeUserSessionsTx(u) == sessions' = [sessions EXCEPT ![u] = NoSession]

\* Mutant: the role changes under the version it had.
changedMembership_SameVersion(row, role) == [row EXCEPT !.role = role]

changedMembership(row, role) ==
    [row EXCEPT !.role = role, !.version = row.version + 1]

\* Mutant: a member that leaves by itself leaves no event.
appendMembershipAudit_NotItself(q, action) ==
    trail' = IF q.target = q.actor THEN trail
             ELSE Append(trail, [action |-> action, space |-> q.space,
                                 id |-> q.target, actor |-> q.actor])

appendMembershipAudit(q, action) ==
    trail' = Append(trail, [action |-> action, space |-> q.space,
                            id |-> q.target, actor |-> q.actor])

\* A membership starts at version 1; born is the length of the trail then.
newMembership(role) == [role |-> role, version |-> 1, born |-> Len(trail) + 1]

(***************************************************************************)
(* The operations.                                                         *)
(***************************************************************************)
CreateAudited(r, s) ==
    LET u == slot[r].q.actor
    IN  /\ Asks(r, "create_space") /\ s \notin spaces
        /\ DecisionForHuman(humanPrincipal(u), [space |-> NoSpace, labels |-> {}],
                            "space.create") = "allowed"
        /\ spaces' = spaces \cup {s}
        /\ members' = [members EXCEPT ![s][u] = newMembership("owner")]
        /\ trail' = Append(trail, [action |-> "space.create", space |-> s,
                                   id |-> s, actor |-> u])
        /\ Done(r, members') /\ UNCHANGED <<sessions, requests>>

ListMembers(r) ==
    LET q == slot[r].q
    IN  /\ At(r, "read") /\ q.op \in {"change", "remove"}
        /\ authorizeMemberManagement(q, "membership.list")
        /\ members[q.space][q.target] # NoMember
        /\ slot' = [slot EXCEPT ![r].pc = "again",
                                ![r].seen = members[q.space][q.target]]
        /\ UNCHANGED <<spaces, members, sessions, trail, requests>>

AddMemberAudited(r) ==
    LET q == slot[r].q
    IN  /\ Asks(r, "add")
        /\ authorizeMemberManagement(q, "membership.add")
        /\ members[q.space][q.target] = NoMember
        /\ members' = [members EXCEPT ![q.space][q.target] = newMembership(q.role)]
        /\ appendMembershipAudit(q, "membership.add")
        /\ Done(r, members') /\ UNCHANGED <<spaces, sessions, requests>>

ChangeRoleAudited(r) ==
    LET q == slot[r].q
        row == members[q.space][q.target]
    IN  /\ Asks(r, "change")
        /\ authorizeMemberManagement(q, "membership.role.change")
        /\ row # NoMember /\ row.version = slot[r].seen.version
        /\ row.role # q.role
        /\ row.role = "owner" => requireAnotherOwner(q.space, q.target)
        /\ members' = [members EXCEPT ![q.space][q.target] =
                         changedMembership(row, q.role)]
        /\ RevokeUserSessionsTx(q.target)
        /\ appendMembershipAudit(q, "membership.role.change")
        /\ Done(r, members') /\ UNCHANGED <<spaces, requests>>

RemoveMemberAudited(r) ==
    LET q == slot[r].q
        row == members[q.space][q.target]
    IN  /\ Asks(r, "remove")
        /\ authorizeMemberManagement(q, "membership.remove")
        /\ row # NoMember /\ row.version = slot[r].seen.version
        /\ row.role = "owner" => requireAnotherOwner(q.space, q.target)
        /\ members' = [members EXCEPT ![q.space][q.target] = NoMember]
        /\ RevokeUserSessionsTx(q.target)
        /\ appendMembershipAudit(q, "membership.remove")
        /\ Done(r, members') /\ UNCHANGED <<spaces, requests>>

\* A login of module Identity.
Login(u) ==
    /\ sessions[u] = NoSession
    /\ sessions' = [sessions EXCEPT ![u] = [s \in Spaces |-> members[s][u]]]
    /\ UNCHANGED <<spaces, members, trail, slot, requests>>

SpacesNext ==
    \/ \E r \in Slots :
         \/ \E q \in Requests : Arrive(r, q)
         \/ ArriveAgain(r) \/ Returns(r)
         \/ \E s \in Spaces : CreateAudited(r, s)
         \/ ListMembers(r) \/ AddMemberAudited(r)
         \/ ChangeRoleAudited(r) \/ RemoveMemberAudited(r)
    \/ \E u \in Users : Login(u)

(***************************************************************************)
(* Properties.                                                             *)
(***************************************************************************)

\* A Space keeps an owner, although two owners may demote or remove each
\* other, or themselves, at the same time.
SpaceKeepsOwner ==
    \A s \in spaces : \E u \in Users : members[s][u].role = "owner"

\* No session outlives a change of role: what its user was a member of at the
\* login, the user still is, with the same role.
SessionsFollowRoles ==
    \A u \in Users : sessions[u] # NoSession =>
      \A s \in Spaces : sessions[u][s] \in {NoMember, members[s][u]}

\* Part of TrailTellsTables: one joining more than there were removals, and as
\* many role changes since as the version says.
Concerns(e, s, u) == e.space = s /\ e.id = u
Count(P(_)) == Cardinality({i \in DOMAIN trail : P(i)})
TrailTellsMembers ==
    \A s \in Spaces, u \in Users :
      LET m == members[s][u]
          Joins(i) == \/ trail[i].action = "space.create" /\ trail[i].space = s
                         /\ trail[i].actor = u
                      \/ trail[i].action = "membership.add" /\ Concerns(trail[i], s, u)
          Leaves(i) == trail[i].action = "membership.remove" /\ Concerns(trail[i], s, u)
          Changes(i) == /\ trail[i].action = "membership.role.change"
                        /\ Concerns(trail[i], s, u) /\ i > m.born
          Before == IF InitialMembers[s][u] = NoMember THEN 0 ELSE 1
      IN  /\ (m # NoMember) <=> Before + Count(Joins) = Count(Leaves) + 1
          /\ (m = NoMember) <=> Before + Count(Joins) = Count(Leaves)
          /\ m # NoMember => m.version = 1 + Count(Changes)

\* Part of ChangeMeetsSeen: what request r does to a member.
MemberMeetsSeen(r) ==
    LET q == slot[r].q
    IN  (/\ Asks(r, "change") \/ Asks(r, "remove")
         /\ members'[q.space][q.target] # members[q.space][q.target]
         /\ slot'[r].pc = "free"
         /\ members[q.space][q.target].born = slot[r].seen.born)
        => members[q.space][q.target].role = slot[r].seen.role
=============================================================================
