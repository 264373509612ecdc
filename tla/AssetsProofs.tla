---------------------------- MODULE AssetsProofs ----------------------------
(***************************************************************************)
(* Proofs about members, their sessions and the roles that requests act    *)
(* with, about the trail and what clients have seen, and about listings,   *)
(* for any number of Spaces, users, assets and concurrent requests.        *)
(***************************************************************************)
EXTENDS Assets, FiniteSetTheorems, TLAPS

Pcs == {"free", "read", "tags", "again", "resolve", "run"}
Slot == [pc : Pcs, q : Requests \cup {NoRequest}, seen : Membership,
         labels : SUBSET Labels, role : SpaceRoles, held : SUBSET SpaceRoles]

\* A row whose tags are to be read is there: no asset loses its row.
SlotsOK ==
    /\ slot \in [Slots -> Slot]
    /\ \A r \in Slots :
         /\ slot[r].pc # "free" => slot[r].q \in Requests
         /\ slot[r].pc = "tags" => assets[slot[r].q.asset] # NoAsset

\* Nobody is a member of a Space that does not exist.
MembersOK ==
    /\ spaces \subseteq Spaces
    /\ members \in [Spaces -> [Users -> Membership]]
    /\ \A s \in Spaces, u \in Users : members[s][u] # NoMember => s \in spaces

SessionsOK == sessions \in [Users -> [Spaces -> Membership] \cup {NoSession}]

AssetsOK == assets \in [Ids -> Asset \cup {NoAsset}]

AuditActions == {"space.create", "membership.add", "membership.role.change",
                 "membership.remove", "asset.create", "asset.update", "asset.delete",
                 "asset.credential.link", "asset.credential.unlink"}
Event == [action : AuditActions, space : Spaces, id : Users \cup Spaces \cup Ids,
          actor : Users]

TypeInv == SlotsOK /\ MembersOK /\ SessionsOK /\ AssetsOK /\ trail \in Seq(Event)

\* From its arrival on, a request knows the role its actor has now among those
\* the actor has had.
HeldInv ==
    /\ \A r \in Slots : slot[r].pc \in {"resolve", "run"} =>
         RoleIn(members, slot[r].q) \in slot[r].held
    /\ ActsWithHeldRole

tables == <<spaces, members, sessions>>

-----------------------------------------------------------------------------
(***************************************************************************)
(* What the steps do to the slots.                                         *)
(***************************************************************************)

LEMMA NoMemberType == NoMember \in Membership /\ NoMember.role = "none"
  BY DEF NoMember, Membership, SpaceRoles

LEMMA FreeType == Free \in Slot /\ Free.pc = "free"
  BY NoMemberType DEF Free, Fresh, Slot, Pcs, SpaceRoles

LEMMA FreshType ==
    ASSUME NEW q \in Requests
    PROVE  /\ Fresh(q) \in Slot /\ Fresh(q).pc = "read" /\ Fresh(q).q = q
  BY NoMemberType DEF Fresh, Slot, Pcs, SpaceRoles

LEMMA RoleInType ==
    ASSUME NEW ms \in [Spaces -> [Users -> Membership]], NEW q \in Requests
    PROVE  RoleIn(ms, q) \in SpaceRoles
  BY SpaceRequestsAssumption DEF RoleIn, Membership

\* One slot changes.
LEMMA SlotTo ==
    ASSUME SlotsOK, NEW r \in Slots, NEW x \in Slot,
           x.pc # "free" => x.q \in Requests,
           x.pc = "tags" => assets[x.q.asset] # NoAsset,
           assets' = assets, slot' = [slot EXCEPT ![r] = x]
    PROVE  SlotsOK' /\ slot'[r] = x /\ \A y \in Slots \ {r} : slot'[y] = slot[y]
  BY DEF SlotsOK

LEMMA HeldTo ==
    ASSUME SlotsOK, HeldInv, NEW r \in Slots, NEW x \in Slot,
           slot' = [slot EXCEPT ![r] = x], members' = members,
           x.pc \in {"resolve", "run"} => RoleIn(members, x.q) \in x.held,
           x.pc = "run" /\ x.q.op \notin MemberOps => x.role \in x.held
    PROVE  HeldInv'
  <1>1. slot'[r] = x /\ \A y \in Slots \ {r} : slot'[y] = slot[y]
    BY DEF SlotsOK
  <1> QED
    BY <1>1 DEF HeldInv, ActsWithHeldRole, At, Request, RoleIn

\* A request is done, and the others take note of the roles that are now held.
LEMMA DoneTo ==
    ASSUME SlotsOK, HeldInv, NEW r \in Slots, Done(r, members'),
           members' \in [Spaces -> [Users -> Membership]],
           \A a \in Ids : assets[a] # NoAsset => assets'[a] # NoAsset
    PROVE  SlotsOK' /\ HeldInv'
  <1>1. ASSUME NEW x \in Slots
        PROVE  \/ slot'[x] = Free
               \/ /\ slot[x].q \in Requests
                  /\ slot'[x] = [slot[x] EXCEPT !.held =
                                   slot[x].held \cup {RoleIn(members', slot[x].q)}]
    BY DEF Done, At, SlotsOK
  <1>2. ASSUME NEW x \in Slots
        PROVE  /\ slot'[x] \in Slot
               /\ slot'[x].pc # "free" => slot'[x].q \in Requests
               /\ slot'[x].pc = "tags" => assets'[slot'[x].q.asset] # NoAsset
    <2>1. CASE slot'[x] = Free
      BY <2>1, FreeType
    <2>2. CASE /\ slot[x].q \in Requests
               /\ slot'[x] = [slot[x] EXCEPT !.held =
                                   slot[x].held \cup {RoleIn(members', slot[x].q)}]
      <3>1. slot'[x] \in Slot
        BY <2>2, RoleInType DEF SlotsOK, Slot
      <3>2. slot'[x].pc = slot[x].pc /\ slot'[x].q = slot[x].q
        BY <2>2 DEF SlotsOK, Slot
      <3>3. slot[x].q.asset \in Ids
        BY <2>2, InitialAssetsAssumption
      <3> QED BY <2>2, <3>1, <3>2, <3>3 DEF SlotsOK
    <2> QED BY <1>1, <2>1, <2>2
  <1>3. SlotsOK'
    <2>1. slot' = [x \in Slots |-> slot'[x]]
      BY DEF Done
    <2> QED BY <1>2, <2>1 DEF SlotsOK
  <1>4. ASSUME NEW x \in Slots
        PROVE  /\ slot'[x].pc \in {"resolve", "run"} =>
                    RoleIn(members', slot'[x].q) \in slot'[x].held
               /\ slot'[x].pc = "run" /\ slot'[x].q.op \notin MemberOps =>
                    slot'[x].role \in slot'[x].held
    <2>1. CASE slot'[x] = Free
      BY <2>1, FreeType
    <2>2. CASE /\ slot[x].q \in Requests
               /\ slot'[x] = [slot[x] EXCEPT !.held =
                                   slot[x].held \cup {RoleIn(members', slot[x].q)}]
      <3>1. /\ slot'[x].pc = slot[x].pc /\ slot'[x].q = slot[x].q
            /\ slot'[x].role = slot[x].role
            /\ slot'[x].held = slot[x].held \cup {RoleIn(members', slot[x].q)}
        BY <2>2 DEF SlotsOK, Slot
      <3> QED BY <3>1 DEF HeldInv, ActsWithHeldRole, At, Request
    <2> QED BY <1>1, <2>1, <2>2
  <1>5. HeldInv'
    BY <1>4 DEF HeldInv, ActsWithHeldRole, At, Request, RoleIn
  <1> QED BY <1>3, <1>5
-----------------------------------------------------------------------------
(***************************************************************************)
(* Steps that leave the tables of members and sessions alone.              *)
(***************************************************************************)

LEMMA AuthenticatedTo ==
    ASSUME TypeInv, HeldInv, NEW r \in Slots, NEW x \in Slot, x.q \in Requests,
           Authenticated(r, x), UNCHANGED <<tables, assets>>
    PROVE  SlotsOK' /\ HeldInv'
  <1> DEFINE y == [x EXCEPT !.pc = IF x.q.op \in MemberOps THEN "run" ELSE "resolve",
                            !.held = {RoleIn(members, x.q)}]
  <1>1. RoleIn(members, x.q) \in SpaceRoles
    BY RoleInType DEF TypeInv, MembersOK
  <1>2. /\ y \in Slot /\ y.q = x.q /\ y.held = {RoleIn(members, x.q)}
        /\ y.pc = IF x.q.op \in MemberOps THEN "run" ELSE "resolve"
    BY <1>1 DEF Slot, Pcs
  <1>3. slot' = [slot EXCEPT ![r] = y] /\ members' = members
    BY DEF Authenticated, tables
  <1> HIDE DEF y
  <1>4. SlotsOK'
    BY <1>2, <1>3, SlotTo DEF TypeInv
  <1>5. HeldInv'
    BY <1>2, <1>3, HeldTo DEF TypeInv
  <1> QED BY <1>4, <1>5

LEMMA ReadingStep ==
    ASSUME TypeInv, HeldInv, NEW r \in Slots,
           \/ \E q \in Requests : Arrive(r, q)
           \/ ArriveAgain(r) \/ Returns(r) \/ ListMembers(r),
           UNCHANGED assets
    PROVE  SlotsOK' /\ HeldInv' /\ UNCHANGED <<tables, trail>>
  <1>1. ASSUME NEW q \in Requests, Arrive(r, q)
        PROVE  SlotsOK' /\ HeldInv' /\ UNCHANGED <<tables, trail>>
    <2>1. UNCHANGED <<tables, trail>>
      BY <1>1 DEF Arrive, tables
    <2>2. CASE q.op \in ReadFirst
      <3>1. slot' = [slot EXCEPT ![r] = Fresh(q)] /\ members' = members
        BY <1>1, <2>2 DEF Arrive
      <3>2. SlotsOK'
        BY <3>1, FreshType, SlotTo DEF TypeInv
      <3>3. HeldInv'
        BY <3>1, FreshType, HeldTo DEF TypeInv
      <3> QED BY <2>1, <3>2, <3>3
    <2>3. CASE q.op \notin ReadFirst
      <3>1. Authenticated(r, Fresh(q))
        BY <1>1, <2>3 DEF Arrive
      <3> QED BY <2>1, <3>1, FreshType, AuthenticatedTo
    <2> QED BY <2>2, <2>3
  <1>2. ASSUME ArriveAgain(r)
        PROVE  SlotsOK' /\ HeldInv' /\ UNCHANGED <<tables, trail>>
    <2>1. UNCHANGED <<tables, trail>> /\ Authenticated(r, slot[r])
      BY <1>2 DEF ArriveAgain, tables
    <2>2. slot[r] \in Slot /\ slot[r].q \in Requests
      BY <1>2 DEF ArriveAgain, At, TypeInv, SlotsOK
    <2> QED BY <2>1, <2>2, AuthenticatedTo
  <1>3. ASSUME Returns(r)
        PROVE  SlotsOK' /\ HeldInv' /\ UNCHANGED <<tables, trail>>
    <2>1. /\ slot' = [slot EXCEPT ![r] = Free] /\ members' = members
          /\ UNCHANGED <<tables, trail>>
      BY <1>3 DEF Returns, tables
    <2>2. SlotsOK'
      BY <2>1, FreeType, SlotTo DEF TypeInv
    <2>3. HeldInv'
      BY <2>1, FreeType, HeldTo DEF TypeInv
    <2> QED BY <2>1, <2>2, <2>3
  <1>4. ASSUME ListMembers(r)
        PROVE  SlotsOK' /\ HeldInv' /\ UNCHANGED <<tables, trail>>
    <2> DEFINE row == members[slot[r].q.space][slot[r].q.target]
               x == [slot[r] EXCEPT !.pc = "again", !.seen = row]
    <2>1. /\ slot' = [slot EXCEPT ![r] = x] /\ members' = members
          /\ UNCHANGED <<tables, trail>>
      BY <1>4 DEF ListMembers, tables, TypeInv, SlotsOK, Slot
    <2>2. slot[r] \in Slot /\ slot[r].q \in Requests
      BY <1>4 DEF ListMembers, At, TypeInv, SlotsOK
    <2>3. row \in Membership
      BY <2>2, SpaceRequestsAssumption DEF TypeInv, MembersOK
    <2>4. x \in Slot /\ x.q \in Requests /\ x.pc = "again"
      BY <2>2, <2>3 DEF Slot, Pcs
    <2> HIDE DEF x
    <2>5. SlotsOK'
      BY <2>1, <2>4, SlotTo DEF TypeInv
    <2>6. HeldInv'
      BY <2>1, <2>4, HeldTo DEF TypeInv
    <2> QED BY <2>1, <2>5, <2>6
  <1> QED BY <1>1, <1>2, <1>3, <1>4

LEMMA ResolvingStep ==
    ASSUME TypeInv, HeldInv, NEW r \in Slots,
           GetRow(r) \/ GetTags(r) \/ ResolveAuthorizationPrincipal(r)
    PROVE  SlotsOK' /\ HeldInv' /\ UNCHANGED <<tables, trail, assets>>
  <1> DEFINE q == slot[r].q
             a == q.asset
             role == RoleIn(members, q)
  <1>1. /\ slot[r] \in Slot /\ q \in Requests /\ a \in Ids
        /\ UNCHANGED <<tables, trail, assets>> /\ members' = members
    BY InitialAssetsAssumption
    DEF GetRow, GetTags, ResolveAuthorizationPrincipal, At, TypeInv, SlotsOK,
        tables, assetVars
  <1>2. role \in SpaceRoles
    BY <1>1, RoleInType DEF TypeInv, MembersOK
  <1>3. ASSUME GetRow(r) PROVE SlotsOK' /\ HeldInv'
    <2> DEFINE seen == [NoMember EXCEPT !.version = assets[a].version]
               x == [slot[r] EXCEPT !.pc = "tags", !.role = role, !.seen = seen]
    <2>1. slot' = [slot EXCEPT ![r] = x]
      BY <1>3, <1>1 DEF GetRow, Request, TypeInv, SlotsOK, Slot
    <2>2. assets[a] \in Asset
      BY <1>3, <1>1 DEF GetRow, Live, Request, TypeInv, AssetsOK
    <2>3. seen \in Membership
      BY <2>2, NoMemberType DEF Asset, Membership
    <2>4. x \in Slot /\ x.q = q /\ x.pc = "tags" /\ assets[x.q.asset] # NoAsset
      BY <1>1, <1>2, <1>3, <2>3 DEF Slot, Pcs, GetRow, Live, Request
    <2> HIDE DEF x, seen
    <2> QED BY <1>1, <2>1, <2>4, SlotTo, HeldTo DEF TypeInv
  <1>4. ASSUME GetTags(r) PROVE SlotsOK' /\ HeldInv'
    <2> DEFINE x == [slot[r] EXCEPT !.pc = "again", !.labels = assets[a].labels]
    <2>1. slot' = [slot EXCEPT ![r] = x]
      BY <1>4, <1>1 DEF GetTags, Request, TypeInv, SlotsOK, Slot
    <2>2. assets[a] \in Asset
      BY <1>4, <1>1 DEF GetTags, At, TypeInv, SlotsOK, AssetsOK
    <2>4. x \in Slot /\ x.q = q /\ x.pc = "again"
      BY <1>1, <2>2 DEF Slot, Pcs, Asset
    <2> HIDE DEF x
    <2> QED BY <1>1, <2>1, <2>4, SlotTo, HeldTo DEF TypeInv
  <1>5. ASSUME ResolveAuthorizationPrincipal(r) PROVE SlotsOK' /\ HeldInv'
    <2> DEFINE x == [slot[r] EXCEPT !.pc = "run", !.role = role]
    <2>1. slot' = [slot EXCEPT ![r] = x]
      BY <1>5, <1>1 DEF ResolveAuthorizationPrincipal, Request, TypeInv, SlotsOK, Slot
    <2>2. role \in slot[r].held
      BY <1>5 DEF ResolveAuthorizationPrincipal, At, HeldInv
    <2>3. x \in Slot /\ x.q = q /\ x.role = role /\ x.held = slot[r].held
          /\ x.pc = "run"
      BY <1>1, <1>2 DEF Slot, Pcs
    <2> HIDE DEF x
    <2> QED BY <1>1, <2>1, <2>2, <2>3, SlotTo, HeldTo DEF TypeInv
  <1> QED BY <1>1, <1>3, <1>4, <1>5
-----------------------------------------------------------------------------
(***************************************************************************)
(* Steps that change the members or the sessions.                          *)
(***************************************************************************)

LEMMA AppendType ==
    ASSUME trail \in Seq(Event), NEW s \in Spaces, NEW u \in Users, NEW a \in AuditActions,
           NEW i \in Users \cup Spaces \cup Ids
    PROVE  Append(trail, [action |-> a, space |-> s, id |-> i, actor |-> u])
             \in Seq(Event)
  <1>1. [action |-> a, space |-> s, id |-> i, actor |-> u] \in Event
    BY DEF Event
  <1> QED BY <1>1

LEMMA ChangedMembershipType ==
    ASSUME NEW row \in Membership, NEW role \in SpaceRoles
    PROVE  changedMembership(row, role) \in Membership
  <1>1. PICK v \in Nat : v = row.version + 1
    BY DEF Membership
  <1>2. [row EXCEPT !.role = role, !.version = v] \in Membership
    BY DEF Membership
  <1> QED BY <1>1, <1>2 DEF changedMembership

LEMMA NewMembershipType ==
    ASSUME trail \in Seq(Event), NEW role \in SpaceRoles
    PROVE  newMembership(role) \in Membership /\ newMembership(role).role = role
  BY DEF newMembership, Membership

MemberInv == TypeInv /\ HeldInv /\ SpaceKeepsOwner /\ SessionsFollowRoles

\* A membership is new: there was none, so no session knows another.
LEMMA JoinStep ==
    ASSUME MemberInv, NEW r \in Slots, NEW s \in Spaces, NEW u \in Users,
           NEW m \in Membership, members[s][u] = NoMember,
           members' = [members EXCEPT ![s][u] = m], s \in spaces',
           \/ spaces' = spaces
           \/ spaces' = spaces \cup {s} /\ m.role = "owner",
           Done(r, members'), UNCHANGED <<sessions, assets>>, trail' \in Seq(Event)
    PROVE  MemberInv'
  <1>1. /\ MembersOK' /\ members'[s][u] = m
        /\ \A t \in Spaces, x \in Users :
             t # s \/ x # u => members'[t][x] = members[t][x]
    <2>1. spaces \subseteq spaces' /\ spaces' \subseteq Spaces
      BY DEF MemberInv, TypeInv, MembersOK
    <2>2. members' \in [Spaces -> [Users -> Membership]]
      BY DEF MemberInv, TypeInv, MembersOK
    <2>3. /\ members'[s][u] = m
          /\ \A t \in Spaces, x \in Users :
               t # s \/ x # u => members'[t][x] = members[t][x]
      BY DEF MemberInv, TypeInv, MembersOK
    <2> QED BY <2>1, <2>2, <2>3 DEF MemberInv, TypeInv, MembersOK
  <1>2. SlotsOK' /\ HeldInv'
    BY <1>1, DoneTo DEF MemberInv, TypeInv, MembersOK
  <1>3. SessionsOK' /\ AssetsOK'
    BY DEF MemberInv, TypeInv, SessionsOK, AssetsOK
  <1>4. ASSUME NEW t \in spaces' PROVE \E x \in Users : members'[t][x].role = "owner"
    <2>1. t \in Spaces
      BY <1>1 DEF MembersOK
    <2>2. CASE t \in spaces
      <3>1. PICK x \in Users : members[t][x].role = "owner"
        BY <2>2 DEF MemberInv, SpaceKeepsOwner
      <3>2. members'[t][x] = members[t][x]
        BY <1>1, <2>1, <3>1, NoMemberType
      <3> QED BY <3>1, <3>2
    <2>3. CASE t \notin spaces
      BY <1>1, <2>3
    <2> QED BY <2>2, <2>3
  <1>5. SpaceKeepsOwner'
    BY <1>4 DEF SpaceKeepsOwner
  <1>6. SessionsFollowRoles'
    BY <1>1 DEF MemberInv, SessionsFollowRoles
  <1> QED BY <1>1, <1>2, <1>3, <1>5, <1>6 DEF MemberInv, TypeInv

\* A membership changes or ends: its user loses every session, and the Space
\* has another owner if it needs one.
LEMMA LeaveStep ==
    ASSUME MemberInv, NEW r \in Slots, NEW s \in spaces, NEW u \in Users,
           NEW m \in Membership, members' = [members EXCEPT ![s][u] = m],
           members[s][u].role = "owner" => requireAnotherOwner(s, u),
           RevokeUserSessionsTx(u), Done(r, members'), UNCHANGED <<spaces, assets>>,
           trail' \in Seq(Event)
    PROVE  MemberInv'
  <1>1. /\ MembersOK' /\ members'[s][u] = m
        /\ \A t \in Spaces, x \in Users :
             t # s \/ x # u => members'[t][x] = members[t][x]
    <2>1. members' \in [Spaces -> [Users -> Membership]]
      BY DEF MemberInv, TypeInv, MembersOK
    <2>2. /\ members'[s][u] = m
          /\ \A t \in Spaces, x \in Users :
               t # s \/ x # u => members'[t][x] = members[t][x]
      BY DEF MemberInv, TypeInv, MembersOK
    <2> QED BY <2>1, <2>2 DEF MemberInv, TypeInv, MembersOK
  <1>2. SlotsOK' /\ HeldInv'
    BY <1>1, DoneTo DEF MemberInv, TypeInv, MembersOK
  <1>3. SessionsOK' /\ sessions'[u] = NoSession
        /\ \A x \in Users \ {u} : sessions'[x] = sessions[x]
    BY DEF MemberInv, TypeInv, SessionsOK, RevokeUserSessionsTx
  <1>4. ASSUME NEW t \in spaces' PROVE \E x \in Users : members'[t][x].role = "owner"
    <2>1. t \in Spaces /\ t \in spaces
      BY DEF MemberInv, TypeInv, MembersOK
    <2>2. PICK x \in Users : members[t][x].role = "owner"
      BY <2>1 DEF MemberInv, SpaceKeepsOwner
    <2>3. CASE t # s \/ x # u
      BY <1>1, <2>1, <2>2, <2>3
    <2>4. CASE t = s /\ x = u
      <3>1. PICK y \in Users \ {u} : members[s][y].role = "owner"
        BY <2>2, <2>4 DEF requireAnotherOwner
      <3> QED BY <1>1, <2>1, <2>4, <3>1
    <2> QED BY <2>3, <2>4
  <1>5. SpaceKeepsOwner'
    BY <1>4 DEF SpaceKeepsOwner
  <1>6. SessionsFollowRoles'
    BY <1>1, <1>3 DEF MemberInv, SessionsFollowRoles
  <1>7. AssetsOK'
    BY DEF MemberInv, TypeInv, AssetsOK
  <1> QED BY <1>1, <1>2, <1>3, <1>5, <1>6, <1>7 DEF MemberInv, TypeInv

LEMMA MemberStep ==
    ASSUME MemberInv, NEW r \in Slots,
           \/ \E s \in Spaces : CreateAudited(r, s)
           \/ AddMemberAudited(r) \/ ChangeRoleAudited(r) \/ RemoveMemberAudited(r),
           UNCHANGED assets
    PROVE  MemberInv'
  <1> DEFINE q == slot[r].q
             row == members[q.space][q.target]
  <1>1. /\ q \in Requests /\ q.actor \in Users /\ q.target \in Users
        /\ q.space \in Spaces /\ q.role \in SpaceRoles
    <2>1. slot[r].pc = "run"
      BY DEF CreateAudited, AddMemberAudited, ChangeRoleAudited, RemoveMemberAudited,
             Asks, At
    <2> QED BY <2>1, SpaceRequestsAssumption DEF MemberInv, TypeInv, SlotsOK
  <1>2. row \in Membership /\ trail \in Seq(Event)
    BY <1>1 DEF MemberInv, TypeInv, MembersOK
  <1>3. ASSUME NEW s \in Spaces, CreateAudited(r, s) PROVE MemberInv'
    <2> DEFINE m == newMembership("owner")
    <2>1. /\ s \notin spaces /\ spaces' = spaces \cup {s}
          /\ members' = [members EXCEPT ![s][q.actor] = m]
          /\ trail' = Append(trail, [action |-> "space.create", space |-> s,
                                     id |-> s, actor |-> q.actor])
          /\ Done(r, members') /\ UNCHANGED sessions
      BY <1>3 DEF CreateAudited
    <2>2. m \in Membership /\ m.role = "owner"
      BY <1>2, NewMembershipType DEF SpaceRoles
    <2>3. members[s][q.actor] = NoMember
      BY <1>1, <2>1 DEF MemberInv, TypeInv, MembersOK
    <2>4. trail' \in Seq(Event)
      BY <1>1, <1>2, <2>1, AppendType DEF AuditActions
    <2> HIDE DEF m, q
    <2> QED BY <1>1, <2>1, <2>2, <2>3, <2>4, JoinStep
  <1>4. ASSUME AddMemberAudited(r) PROVE MemberInv'
    <2> DEFINE m == newMembership(q.role)
    <2>1. /\ q.space \in spaces /\ spaces' = spaces /\ row = NoMember
          /\ members' = [members EXCEPT ![q.space][q.target] = m]
          /\ trail' = Append(trail, [action |-> "membership.add", space |-> q.space,
                                     id |-> q.target, actor |-> q.actor])
          /\ Done(r, members') /\ UNCHANGED sessions
      BY <1>4 DEF AddMemberAudited, authorizeMemberManagement, requireActiveSpaceTx,
                  appendMembershipAudit
    <2>2. m \in Membership
      BY <1>1, <1>2, NewMembershipType
    <2>3. trail' \in Seq(Event)
      BY <1>1, <1>2, <2>1, AppendType DEF AuditActions
    <2> HIDE DEF m, q
    <2> QED BY <1>1, <2>1, <2>2, <2>3, JoinStep
  <1>5. ASSUME ChangeRoleAudited(r) PROVE MemberInv'
    <2> DEFINE m == changedMembership(row, q.role)
    <2>1. /\ q.space \in spaces /\ spaces' = spaces
          /\ members' = [members EXCEPT ![q.space][q.target] = m]
          /\ row.role = "owner" => requireAnotherOwner(q.space, q.target)
          /\ RevokeUserSessionsTx(q.target)
          /\ trail' = Append(trail, [action |-> "membership.role.change",
                               space |-> q.space, id |-> q.target, actor |-> q.actor])
          /\ Done(r, members')
      BY <1>5 DEF ChangeRoleAudited, authorizeMemberManagement, requireActiveSpaceTx,
                  appendMembershipAudit
    <2>2. m \in Membership
      BY <1>1, <1>2, ChangedMembershipType
    <2>3. trail' \in Seq(Event)
      BY <1>1, <1>2, <2>1, AppendType DEF AuditActions
    <2> HIDE DEF m, q
    <2> QED BY <1>1, <2>1, <2>2, <2>3, LeaveStep
  <1>6. ASSUME RemoveMemberAudited(r) PROVE MemberInv'
    <2>1. /\ q.space \in spaces /\ spaces' = spaces
          /\ members' = [members EXCEPT ![q.space][q.target] = NoMember]
          /\ row.role = "owner" => requireAnotherOwner(q.space, q.target)
          /\ RevokeUserSessionsTx(q.target)
          /\ trail' = Append(trail, [action |-> "membership.remove",
                               space |-> q.space, id |-> q.target, actor |-> q.actor])
          /\ Done(r, members')
      BY <1>6 DEF RemoveMemberAudited, authorizeMemberManagement, requireActiveSpaceTx,
                  appendMembershipAudit
    <2>2. trail' \in Seq(Event)
      BY <1>1, <1>2, <2>1, AppendType DEF AuditActions
    <2> HIDE DEF q
    <2> QED BY <1>1, <2>1, <2>2, NoMemberType, LeaveStep
  <1> QED BY <1>3, <1>4, <1>5, <1>6

LEMMA LoginStep ==
    ASSUME MemberInv, NEW u \in Users, Login(u), UNCHANGED assets
    PROVE  MemberInv'
  <1>1. UNCHANGED <<spaces, members, trail, slot>>
    BY DEF Login
  <1>2. /\ SessionsOK'
        /\ sessions'[u] = [s \in Spaces |-> members[s][u]]
        /\ \A x \in Users \ {u} : sessions'[x] = sessions[x]
    <2>1. [s \in Spaces |-> members[s][u]] \in [Spaces -> Membership]
      BY DEF MemberInv, TypeInv, MembersOK
    <2> QED BY <2>1 DEF Login, MemberInv, TypeInv, SessionsOK
  <1>3. SessionsFollowRoles'
    BY <1>1, <1>2 DEF MemberInv, SessionsFollowRoles
  <1>4. SlotsOK' /\ MembersOK' /\ AssetsOK' /\ HeldInv' /\ SpaceKeepsOwner'
    BY <1>1 DEF MemberInv, TypeInv, SlotsOK, MembersOK, AssetsOK, HeldInv,
                ActsWithHeldRole, At, Request, RoleIn, SpaceKeepsOwner
  <1> QED BY <1>1, <1>2, <1>3, <1>4 DEF MemberInv, TypeInv
-----------------------------------------------------------------------------
(***************************************************************************)
(* Steps that leave members and sessions alone.                            *)
(***************************************************************************)

LEMMA TablesStay ==
    ASSUME MemberInv, UNCHANGED tables, SlotsOK', HeldInv', AssetsOK',
           trail' \in Seq(Event)
    PROVE  MemberInv'
  BY DEF MemberInv, TypeInv, MembersOK, SessionsOK, SpaceKeepsOwner,
         SessionsFollowRoles, tables

LEMMA CommitStep ==
    ASSUME MemberInv, NEW r \in Slots, NEW a \in Ids, NEW action \in AuditActions,
           At(r, "run"), Commits(r, action, a), AssetsOK',
           \A i \in Ids : assets[i] # NoAsset => assets'[i] # NoAsset
    PROVE  MemberInv'
  <1>1. slot[r].q.actor \in Users /\ slot[r].q.space \in Spaces
    BY SpaceRequestsAssumption DEF At, MemberInv, TypeInv, SlotsOK
  <1>2. trail' \in Seq(Event)
    BY <1>1, AppendType DEF Commits, appendAuditTx, Request, MemberInv, TypeInv
  <1>3. UNCHANGED tables /\ members' = members
    BY DEF Commits, tables
  <1>4. Done(r, members') /\ members' \in [Spaces -> [Users -> Membership]]
    BY <1>3 DEF Commits, MemberInv, TypeInv, MembersOK
  <1>5. SlotsOK' /\ HeldInv'
    BY <1>4, DoneTo DEF MemberInv, TypeInv
  <1> QED BY <1>2, <1>3, <1>5, TablesStay

LEMMA AssetStep ==
    ASSUME MemberInv, NEW r \in Slots,
           \/ \E a \in Ids : Create(r, a)
           \/ Update(r) \/ Delete(r) \/ LinkCredential(r) \/ UnlinkCredential(r)
    PROVE  MemberInv'
  <1> DEFINE q == slot[r].q
             Kept == /\ AssetsOK'
                     /\ \A i \in Ids : assets[i] # NoAsset => assets'[i] # NoAsset
  <1>1. /\ At(r, "run") /\ q \in Requests /\ q.space \in Spaces
        /\ q.labels \in SUBSET Labels /\ q.asset \in Ids
    <2>1. At(r, "run")
      BY DEF Create, Update, Delete, LinkCredential, UnlinkCredential, Asks
    <2> QED BY <2>1, SpaceRequestsAssumption, InitialAssetsAssumption
            DEF At, MemberInv, TypeInv, SlotsOK
  <1>2. ASSUME NEW a \in Ids, NEW row \in Asset, assets' = [assets EXCEPT ![a] = row]
        PROVE  Kept
    BY <1>2, InitialAssetsAssumption DEF MemberInv, TypeInv, AssetsOK
  <1>3. ASSUME NEW a \in Ids, Create(r, a) PROVE MemberInv'
    <2> DEFINE row == [space |-> q.space, labels |-> q.labels, version |-> 1,
                       live |-> TRUE]
    <2>1. assets' = [assets EXCEPT ![a] = row] /\ Commits(r, "asset.create", a)
      BY <1>3 DEF Create, Request
    <2>2. row \in Asset
      BY <1>1 DEF Asset
    <2> HIDE DEF row
    <2>3. Kept
      BY <1>2, <2>1, <2>2
    <2> QED BY <1>1, <2>1, <2>3, CommitStep DEF AuditActions
  <1>4. ASSUME Update(r) PROVE MemberInv'
    <2> DEFINE a == q.asset
    <2>1. assets[a] \in Asset
      BY <1>1, <1>4
      DEF Update, CurrentVersion, Live, Request, MemberInv, TypeInv, AssetsOK
    <2>2. PICK v \in Nat : v = assets[a].version + 1
      BY <2>1 DEF Asset
    <2> DEFINE row == [assets[a] EXCEPT !.labels = q.labels, !.version = v]
    <2>3. assets' = [assets EXCEPT ![a] = row] /\ Commits(r, "asset.update", a)
      BY <1>1, <1>4, <2>1, <2>2 DEF Update, Request, MemberInv, TypeInv, AssetsOK, Asset
    <2>4. row \in Asset
      BY <1>1, <2>1 DEF Asset
    <2> HIDE DEF row
    <2>5. Kept
      BY <1>1, <1>2, <2>3, <2>4
    <2> QED BY <1>1, <2>3, <2>5, CommitStep DEF AuditActions
  <1>5. ASSUME Delete(r) PROVE MemberInv'
    <2> DEFINE a == q.asset
    <2>1. assets[a] \in Asset
      BY <1>1, <1>5
      DEF Delete, CurrentVersion, Live, Request, MemberInv, TypeInv, AssetsOK
    <2>2. PICK v \in Nat : v = assets[a].version + 1
      BY <2>1 DEF Asset
    <2> DEFINE row == [assets[a] EXCEPT !.live = FALSE, !.version = v]
    <2>3. assets' = [assets EXCEPT ![a] = row] /\ Commits(r, "asset.delete", a)
      BY <1>1, <1>5, <2>1, <2>2 DEF Delete, Request, MemberInv, TypeInv, AssetsOK, Asset
    <2>4. row \in Asset
      BY <2>1 DEF Asset
    <2> HIDE DEF row
    <2>5. Kept
      BY <1>1, <1>2, <2>3, <2>4
    <2> QED BY <1>1, <2>3, <2>5, CommitStep DEF AuditActions
  <1>6. ASSUME LinkCredential(r) PROVE MemberInv'
    <2>1. assets' = assets /\ Commits(r, "asset.credential.link", q.asset)
      BY <1>6 DEF LinkCredential, Request
    <2>2. Kept
      BY <2>1 DEF MemberInv, TypeInv, AssetsOK
    <2> QED BY <1>1, <2>1, <2>2, CommitStep DEF AuditActions
  <1>7. ASSUME UnlinkCredential(r) PROVE MemberInv'
    <2>1. assets' = assets /\ Commits(r, "asset.credential.unlink", q.asset)
      BY <1>7 DEF UnlinkCredential, Request
    <2>2. Kept
      BY <2>1 DEF MemberInv, TypeInv, AssetsOK
    <2> QED BY <1>1, <2>1, <2>2, CommitStep DEF AuditActions
  <1> QED BY <1>3, <1>4, <1>5, <1>6, <1>7

\* The operations on credentials touch the links and the listing in progress.
CredentialStep ==
    \/ \E w \in CredentialWrites : CreateCredential(w) \/ UpdateCredential(w)
    \/ \E c \in DOMAIN CredentialSpace :
         DeleteCredential(c) \/ RestoreCredential(c) \/ PurgeCredential(c)

LEMMA CredentialFrame ==
    ASSUME CredentialStep
    PROVE  Watched /\ UNCHANGED <<spaces, members, sessions, trail, slot, assets>>
  BY DEF CredentialStep, CreateCredential, UpdateCredential, Write, DeleteCredential,
         RestoreCredential, PurgeCredential, Turns

\* What the listings and the credentials do, and a step that does nothing.
LEMMA IdleStep ==
    ASSUME MemberInv, UNCHANGED <<tables, trail, slot, assets>>
    PROVE  MemberInv'
  <1>1. SlotsOK' /\ AssetsOK' /\ trail' \in Seq(Event)
    BY DEF MemberInv, TypeInv, SlotsOK, AssetsOK
  <1>2. HeldInv'
    BY DEF MemberInv, HeldInv, ActsWithHeldRole, At, Request, RoleIn, tables
  <1> QED BY <1>1, <1>2, TablesStay DEF tables
-----------------------------------------------------------------------------
LEMMA Inductive ==
    ASSUME MemberInv, [Next]_vars
    PROVE  MemberInv'
  <1>1. ASSUME SpacesNext, UNCHANGED assetVars PROVE MemberInv'
    <2>1. UNCHANGED assets
      BY <1>1 DEF assetVars
    <2>2. ASSUME NEW r \in Slots,
                 \/ \E q \in Requests : Arrive(r, q)
                 \/ ArriveAgain(r) \/ Returns(r) \/ ListMembers(r)
          PROVE  MemberInv'
      <3>1. SlotsOK' /\ HeldInv' /\ UNCHANGED <<tables, trail>>
        BY <2>1, <2>2, ReadingStep DEF MemberInv
      <3>2. AssetsOK' /\ trail' \in Seq(Event)
        BY <2>1, <3>1 DEF MemberInv, TypeInv, AssetsOK
      <3> QED BY <3>1, <3>2, TablesStay
    <2>3. ASSUME NEW r \in Slots,
                 \/ \E s \in Spaces : CreateAudited(r, s)
                 \/ AddMemberAudited(r) \/ ChangeRoleAudited(r)
                 \/ RemoveMemberAudited(r)
          PROVE  MemberInv'
      BY <2>1, <2>3, MemberStep
    <2>4. ASSUME NEW u \in Users, Login(u) PROVE MemberInv'
      BY <2>1, <2>4, LoginStep
    <2> QED BY <1>1, <2>2, <2>3, <2>4 DEF SpacesNext
  <1>2. ASSUME NEW r \in Slots,
               GetRow(r) \/ GetTags(r) \/ ResolveAuthorizationPrincipal(r)
        PROVE  MemberInv'
    <2>1. SlotsOK' /\ HeldInv' /\ UNCHANGED <<tables, trail, assets>>
      BY <1>2, ResolvingStep DEF MemberInv
    <2>2. AssetsOK' /\ trail' \in Seq(Event)
      BY <2>1 DEF MemberInv, TypeInv, AssetsOK
    <2> QED BY <2>1, <2>2, TablesStay
  <1>3. ASSUME NEW r \in Slots,
               \/ \E a \in Ids : Create(r, a)
               \/ Update(r) \/ Delete(r) \/ LinkCredential(r) \/ UnlinkCredential(r)
        PROVE  MemberInv'
    BY <1>3, AssetStep
  <1>4. ASSUME \/ CredentialStep
               \/ \E q \in Listings : ListBegin(q)
               \/ ListPage \/ ListRows \/ ListTags \/ ListEnd
               \/ UNCHANGED vars
        PROVE  MemberInv'
    <2>1. UNCHANGED <<tables, trail, slot, assets>>
      BY <1>4, CredentialFrame
      DEF ListBegin, ListPage, ListRows, ListTags, ListEnd, vars, spaceVars, assetVars,
          tables
    <2> QED BY <2>1, IdleStep
  <1> QED BY <1>1, <1>2, <1>3, <1>4 DEF Next, CredentialStep

LEMMA Initially == ASSUME Init PROVE MemberInv
  <1> USE DEF Init, SpacesInit
  <1>1. MembersOK /\ SpaceKeepsOwner
    BY InitialSpacesAssumption DEF MembersOK, SpaceKeepsOwner
  <1>2. SessionsOK /\ SessionsFollowRoles
    <2>1. \A u \in Users : sessions[u] = [s \in Spaces |-> members[s][u]]
      OBVIOUS
    <2>2. \A u \in Users : [s \in Spaces |-> members[s][u]] \in [Spaces -> Membership]
      BY <1>1 DEF MembersOK
    <2>3. SessionsOK
      BY <2>2 DEF SessionsOK
    <2> QED BY <2>1, <2>3 DEF SessionsFollowRoles
  <1>3. \A r \in Slots : slot[r] = Free
    OBVIOUS
  <1>4. SlotsOK /\ HeldInv
    BY <1>3, FreeType DEF SlotsOK, HeldInv, ActsWithHeldRole, At
  <1>5. AssetsOK /\ trail \in Seq(Event)
    BY InitialAssetsAssumption DEF AssetsOK
  <1> QED BY <1>1, <1>2, <1>4, <1>5 DEF MemberInv, TypeInv

LEMMA Invariance == Spec => []MemberInv
  <1>1. Init => MemberInv
    BY Initially
  <1>2. MemberInv /\ [Next]_vars => MemberInv'
    BY Inductive
  <1> QED BY <1>1, <1>2, PTL DEF Spec

\* Whatever members demote, remove or add each other, concurrently and with
\* versions they saw earlier, no Space is left without an owner
\* (requireAnotherOwner and the transaction around it).
THEOREM EverySpaceOwned == Spec => []SpaceKeepsOwner
  <1>1. MemberInv => SpaceKeepsOwner
    BY DEF MemberInv
  <1> QED BY <1>1, Invariance, PTL

\* No session survives the end or the change of a role that its user had when it
\* began (RevokeUserSessionsTx in the transaction of the change).
THEOREM NoSessionOutlivesARole == Spec => []SessionsFollowRoles
  <1>1. MemberInv => SessionsFollowRoles
    BY DEF MemberInv
  <1> QED BY <1>1, Invariance, PTL

\* A request on an asset acts with a role its actor has had since the request
\* arrived, although the role is read in an earlier transaction than the one
\* that changes the asset (ResolveAuthorizationPrincipal).
THEOREM RoleWasHeld == Spec => []ActsWithHeldRole
  <1>1. MemberInv => ActsWithHeldRole
    BY DEF MemberInv, HeldInv
  <1> QED BY <1>1, Invariance, PTL

-----------------------------------------------------------------------------
(***************************************************************************)
(* What the trail tells.  An event that is appended is counted at most     *)
(* once more, and where it belongs.                                        *)
(***************************************************************************)
Joining(e, s, u) ==
    \/ e.action = "space.create" /\ e.space = s /\ e.actor = u
    \/ e.action = "membership.add" /\ Concerns(e, s, u)
Leaving(e, s, u) == e.action = "membership.remove" /\ Concerns(e, s, u)
Changing(e, s, u) == e.action = "membership.role.change" /\ Concerns(e, s, u)
About(e, a, actions) == e.id = a /\ e.action \in actions

JoinsOf(s, u) == {i \in DOMAIN trail : Joining(trail[i], s, u)}
LeavesOf(s, u) == {i \in DOMAIN trail : Leaving(trail[i], s, u)}
ChangesOf(s, u, n) == {i \in DOMAIN trail : Changing(trail[i], s, u) /\ i > n}
EventsOn(a, actions) == {i \in DOMAIN trail : About(trail[i], a, actions)}

RowActions == {"asset.create", "asset.update", "asset.delete"}

\* A membership was made by an event of the trail, or before the first of them.
MemberTold(s, u) ==
    /\ members[s][u].born <= Len(trail)
    /\ (IF InitialMembers[s][u] = NoMember THEN 0 ELSE 1) + Cardinality(JoinsOf(s, u))
         = Cardinality(LeavesOf(s, u)) + (IF members[s][u] = NoMember THEN 0 ELSE 1)
    /\ members[s][u] # NoMember => members[s][u].version
         = 1 + Cardinality(ChangesOf(s, u, members[s][u].born))

AssetTold(a) ==
    (IF InitialAssets[a] = NoAsset THEN 0 ELSE 1) + Cardinality(EventsOn(a, RowActions))
      = IF assets[a] = NoAsset THEN 0 ELSE assets[a].version

TrailInv ==
    /\ \A s \in Spaces, u \in Users : MemberTold(s, u)
    /\ \A a \in Ids : AssetTold(a)

LEMMA CountGrows ==
    ASSUME NEW n \in Nat, NEW A \in SUBSET (1 .. n)
    PROVE  /\ Cardinality(A) \in Nat
           /\ Cardinality(A \cup {n + 1}) = Cardinality(A) + 1
  <1>1. IsFiniteSet(1 .. n)
    BY FS_Interval
  <1>2. IsFiniteSet(A)
    BY <1>1, FS_Subset
  <1>3. n + 1 \notin A
    OBVIOUS
  <1> QED BY <1>2, <1>3, FS_CardinalityType, FS_AddElement

LEMMA TrailCounts ==
    ASSUME trail \in Seq(Event), NEW s, NEW u, NEW n, NEW a, NEW actions
    PROVE  /\ Cardinality(JoinsOf(s, u)) \in Nat /\ Cardinality(LeavesOf(s, u)) \in Nat
           /\ Cardinality(ChangesOf(s, u, n)) \in Nat
           /\ Cardinality(EventsOn(a, actions)) \in Nat
  <1>1. Len(trail) \in Nat /\ DOMAIN trail = 1 .. Len(trail)
    OBVIOUS
  <1> QED
    BY <1>1, CountGrows DEF JoinsOf, LeavesOf, ChangesOf, EventsOn

LEMMA Appended ==
    ASSUME trail \in Seq(Event), NEW e, trail' = Append(trail, e)
    PROVE  /\ Len(trail) \in Nat /\ Len(trail') = Len(trail) + 1
           /\ DOMAIN trail = 1 .. Len(trail) /\ DOMAIN trail' = 1 .. (Len(trail) + 1)
           /\ trail'[Len(trail) + 1] = e
           /\ \A i \in 1 .. Len(trail) : trail'[i] = trail[i]
  <1>1. trail \in Seq(Event \cup {e}) /\ e \in Event \cup {e}
    OBVIOUS
  <1> QED BY <1>1

\* A count of the events that satisfy P, when an event is appended.
LEMMA CountMoves ==
    ASSUME NEW k \in Nat, NEW A \in SUBSET (1 .. k), NEW B, NEW P \in BOOLEAN,
           B = IF P THEN A \cup {k + 1} ELSE A
    PROVE  Cardinality(B) = Cardinality(A) + (IF P THEN 1 ELSE 0)
  <1>1. Cardinality(A) \in Nat /\ Cardinality(A \cup {k + 1}) = Cardinality(A) + 1
    BY CountGrows
  <1>2. CASE P
    <2>1. Cardinality(B) = Cardinality(A) + 1
      BY <1>1, <1>2, Zenon
    <2> QED BY <1>2, <2>1
  <1>3. CASE ~P
    <2>1. Cardinality(B) = Cardinality(A)
      BY <1>3, Zenon
    <2> QED BY <1>1, <1>3, <2>1
  <1> QED BY <1>2, <1>3

LEMMA JoinsMove ==
    ASSUME trail \in Seq(Event), NEW e, trail' = Append(trail, e), NEW s, NEW u
    PROVE  Cardinality(JoinsOf(s, u)')
             = Cardinality(JoinsOf(s, u)) + (IF Joining(e, s, u) THEN 1 ELSE 0)
  <1>1. PICK k \in Nat : k = Len(trail)
    BY Appended
  <1>2. /\ DOMAIN trail = 1 .. k /\ DOMAIN trail' = 1 .. (k + 1)
        /\ trail'[k + 1] = e /\ \A i \in 1 .. k : trail'[i] = trail[i]
    BY <1>1, Appended
  <1>3. \A i : i \in 1 .. (k + 1) <=> i \in 1 .. k \/ i = k + 1
    OBVIOUS
  <1>4. JoinsOf(s, u) \in SUBSET (1 .. k)
    BY <1>2 DEF JoinsOf
  <1>5. JoinsOf(s, u)' = IF Joining(e, s, u) THEN JoinsOf(s, u) \cup {k + 1} ELSE JoinsOf(s, u)
    BY <1>1, <1>2, <1>3 DEF JoinsOf, Joining, Concerns
  <1>6. (Joining(e, s, u)) \in BOOLEAN
    BY DEF Joining, Concerns
  <1> QED BY <1>4, <1>5, <1>6, CountMoves

LEMMA LeavesMove ==
    ASSUME trail \in Seq(Event), NEW e, trail' = Append(trail, e), NEW s, NEW u
    PROVE  Cardinality(LeavesOf(s, u)')
             = Cardinality(LeavesOf(s, u)) + (IF Leaving(e, s, u) THEN 1 ELSE 0)
  <1>1. PICK k \in Nat : k = Len(trail)
    BY Appended
  <1>2. /\ DOMAIN trail = 1 .. k /\ DOMAIN trail' = 1 .. (k + 1)
        /\ trail'[k + 1] = e /\ \A i \in 1 .. k : trail'[i] = trail[i]
    BY <1>1, Appended
  <1>3. \A i : i \in 1 .. (k + 1) <=> i \in 1 .. k \/ i = k + 1
    OBVIOUS
  <1>4. LeavesOf(s, u) \in SUBSET (1 .. k)
    BY <1>2 DEF LeavesOf
  <1>5. LeavesOf(s, u)' = IF Leaving(e, s, u) THEN LeavesOf(s, u) \cup {k + 1} ELSE LeavesOf(s, u)
    BY <1>1, <1>2, <1>3 DEF LeavesOf, Leaving, Concerns
  <1>6. (Leaving(e, s, u)) \in BOOLEAN
    BY DEF Leaving, Concerns
  <1> QED BY <1>4, <1>5, <1>6, CountMoves

LEMMA ChangesMove ==
    ASSUME trail \in Seq(Event), NEW e, trail' = Append(trail, e), NEW s, NEW u,
           NEW n \in Nat, n <= Len(trail)
    PROVE  Cardinality(ChangesOf(s, u, n)')
             = Cardinality(ChangesOf(s, u, n)) + (IF Changing(e, s, u) THEN 1 ELSE 0)
  <1>1. PICK k \in Nat : k = Len(trail)
    BY Appended
  <1>2. /\ DOMAIN trail = 1 .. k /\ DOMAIN trail' = 1 .. (k + 1)
        /\ trail'[k + 1] = e /\ \A i \in 1 .. k : trail'[i] = trail[i]
    BY <1>1, Appended
  <1>3. \A i : i \in 1 .. (k + 1) <=> i \in 1 .. k \/ i = k + 1
    OBVIOUS
  <1>4. ChangesOf(s, u, n) \in SUBSET (1 .. k)
    BY <1>2 DEF ChangesOf
  <1>5. ChangesOf(s, u, n)' = IF Changing(e, s, u) THEN ChangesOf(s, u, n) \cup {k + 1} ELSE ChangesOf(s, u, n)
    BY <1>1, <1>2, <1>3 DEF ChangesOf, Changing, Concerns
  <1>6. (Changing(e, s, u)) \in BOOLEAN
    BY DEF Changing, Concerns
  <1> QED BY <1>4, <1>5, <1>6, CountMoves

LEMMA EventsMove ==
    ASSUME trail \in Seq(Event), NEW e, trail' = Append(trail, e), NEW a,
           NEW actions
    PROVE  Cardinality(EventsOn(a, actions)')
             = Cardinality(EventsOn(a, actions)) + (IF About(e, a, actions) THEN 1 ELSE 0)
  <1>1. PICK k \in Nat : k = Len(trail)
    BY Appended
  <1>2. /\ DOMAIN trail = 1 .. k /\ DOMAIN trail' = 1 .. (k + 1)
        /\ trail'[k + 1] = e /\ \A i \in 1 .. k : trail'[i] = trail[i]
    BY <1>1, Appended
  <1>3. \A i : i \in 1 .. (k + 1) <=> i \in 1 .. k \/ i = k + 1
    OBVIOUS
  <1>4. EventsOn(a, actions) \in SUBSET (1 .. k)
    BY <1>2 DEF EventsOn
  <1>5. EventsOn(a, actions)' = IF About(e, a, actions) THEN EventsOn(a, actions) \cup {k + 1} ELSE EventsOn(a, actions)
    BY <1>1, <1>2, <1>3 DEF EventsOn, About
  <1>6. (About(e, a, actions)) \in BOOLEAN
    BY DEF About
  <1> QED BY <1>4, <1>5, <1>6, CountMoves

\* An event that does not concern a member.
LEMMA ToldOther ==
    ASSUME MemberInv, NEW e, trail' = Append(trail, e), NEW s \in Spaces,
           NEW u \in Users, MemberTold(s, u), members'[s][u] = members[s][u],
           ~Joining(e, s, u), ~Leaving(e, s, u), ~Changing(e, s, u)
    PROVE  MemberTold(s, u)'
  <1>1. trail \in Seq(Event) /\ members[s][u] \in Membership
    BY DEF MemberInv, TypeInv, MembersOK
  <1>2. PICK n \in Nat : n = members[s][u].born
    BY <1>1 DEF Membership
  <1>3. n <= Len(trail) /\ n <= Len(trail')
    BY <1>1, <1>2, Appended DEF MemberTold
  <1>4. /\ Cardinality(JoinsOf(s, u)') = Cardinality(JoinsOf(s, u)) + 0
        /\ Cardinality(LeavesOf(s, u)') = Cardinality(LeavesOf(s, u)) + 0
        /\ Cardinality(ChangesOf(s, u, n)') = Cardinality(ChangesOf(s, u, n)) + 0
    BY <1>1, <1>3, JoinsMove, LeavesMove, ChangesMove
  <1>5. /\ Cardinality(JoinsOf(s, u)) \in Nat /\ Cardinality(LeavesOf(s, u)) \in Nat
        /\ Cardinality(ChangesOf(s, u, n)) \in Nat
    BY <1>1, TrailCounts
  <1>6. ChangesOf(s, u, members[s][u].born)' = ChangesOf(s, u, n)'
    BY <1>2 DEF ChangesOf
  <1> QED BY <1>2, <1>3, <1>4, <1>5, <1>6 DEF MemberTold

\* A membership is made: none of its changes is in the trail yet.
LEMMA ToldJoin ==
    ASSUME MemberInv, NEW e, trail' = Append(trail, e), NEW s \in Spaces,
           NEW u \in Users, MemberTold(s, u), members[s][u] = NoMember,
           members'[s][u] # NoMember, members'[s][u].version = 1,
           members'[s][u].born = Len(trail) + 1,
           Joining(e, s, u), ~Leaving(e, s, u)
    PROVE  MemberTold(s, u)'
  <1>1. trail \in Seq(Event) /\ 0 <= Len(trail)
    BY DEF MemberInv, TypeInv
  <1>2. /\ Cardinality(JoinsOf(s, u)') = Cardinality(JoinsOf(s, u)) + 1
        /\ Cardinality(LeavesOf(s, u)') = Cardinality(LeavesOf(s, u)) + 0
    BY <1>1, JoinsMove, LeavesMove, ChangesMove
  <1>3. Cardinality(JoinsOf(s, u)) \in Nat /\ Cardinality(LeavesOf(s, u)) \in Nat
    BY <1>1, TrailCounts
  <1>4. ChangesOf(s, u, members[s][u].born)' = {}
    BY <1>1, Appended DEF ChangesOf
  <1>5. Cardinality(ChangesOf(s, u, members[s][u].born)') = 0
    BY <1>4, FS_EmptySet
  <1>6. members'[s][u].born <= Len(trail')
    BY <1>1, Appended
  <1>7. members'[s][u].version = 1 + Cardinality(ChangesOf(s, u, members[s][u].born)')
    BY <1>5
  <1>8. (IF InitialMembers[s][u] = NoMember THEN 0 ELSE 1)
          + Cardinality(JoinsOf(s, u)') = Cardinality(LeavesOf(s, u)') + 1
    BY <1>2, <1>3 DEF MemberTold
  <1> QED BY <1>6, <1>7, <1>8 DEF MemberTold

LEMMA ToldLeave ==
    ASSUME MemberInv, NEW e, trail' = Append(trail, e), NEW s \in Spaces,
           NEW u \in Users, MemberTold(s, u), members[s][u] # NoMember,
           members'[s][u] = NoMember, Leaving(e, s, u), ~Joining(e, s, u)
    PROVE  MemberTold(s, u)'
  <1>1. trail \in Seq(Event) /\ 0 <= Len(trail)
    BY DEF MemberInv, TypeInv
  <1>2. /\ Cardinality(JoinsOf(s, u)') = Cardinality(JoinsOf(s, u)) + 0
        /\ Cardinality(LeavesOf(s, u)') = Cardinality(LeavesOf(s, u)) + 1
    BY <1>1, JoinsMove, LeavesMove, ChangesMove
  <1>3. Cardinality(JoinsOf(s, u)) \in Nat /\ Cardinality(LeavesOf(s, u)) \in Nat
    BY <1>1, TrailCounts
  <1>4. members'[s][u].born <= Len(trail')
    BY <1>1, Appended DEF NoMember
  <1>5. (IF InitialMembers[s][u] = NoMember THEN 0 ELSE 1)
          + Cardinality(JoinsOf(s, u)') = Cardinality(LeavesOf(s, u)') + 0
    BY <1>2, <1>3 DEF MemberTold
  <1> QED BY <1>4, <1>5 DEF MemberTold

\* A role changes: the event comes after the one that made the membership.
LEMMA ToldChange ==
    ASSUME MemberInv, NEW e, trail' = Append(trail, e), NEW s \in Spaces,
           NEW u \in Users, MemberTold(s, u), members[s][u] # NoMember,
           members'[s][u] # NoMember,
           members'[s][u].version = members[s][u].version + 1,
           members'[s][u].born = members[s][u].born,
           Changing(e, s, u), ~Joining(e, s, u), ~Leaving(e, s, u)
    PROVE  MemberTold(s, u)'
  <1>1. trail \in Seq(Event) /\ members[s][u] \in Membership
    BY DEF MemberInv, TypeInv, MembersOK
  <1>2. PICK n \in Nat : n = members[s][u].born
    BY <1>1 DEF Membership
  <1>3. n <= Len(trail) /\ n <= Len(trail')
    BY <1>1, <1>2, Appended DEF MemberTold
  <1>4. /\ Cardinality(JoinsOf(s, u)') = Cardinality(JoinsOf(s, u)) + 0
        /\ Cardinality(LeavesOf(s, u)') = Cardinality(LeavesOf(s, u)) + 0
        /\ Cardinality(ChangesOf(s, u, n)') = Cardinality(ChangesOf(s, u, n)) + 1
    BY <1>1, <1>3, JoinsMove, LeavesMove, ChangesMove
  <1>5. /\ Cardinality(JoinsOf(s, u)) \in Nat /\ Cardinality(LeavesOf(s, u)) \in Nat
        /\ Cardinality(ChangesOf(s, u, n)) \in Nat
    BY <1>1, TrailCounts
  <1>6. ChangesOf(s, u, members[s][u].born)' = ChangesOf(s, u, n)'
    BY <1>2 DEF ChangesOf
  <1>7. members[s][u].version = 1 + Cardinality(ChangesOf(s, u, n))
    BY <1>2 DEF MemberTold
  <1>8. members'[s][u].version = 1 + Cardinality(ChangesOf(s, u, members[s][u].born)')
    BY <1>4, <1>5, <1>6, <1>7
  <1> QED BY <1>2, <1>3, <1>4, <1>5, <1>8 DEF MemberTold

LinkActions == {"asset.credential.link", "asset.credential.unlink"}

\* An event that is not about an asset, or about another one.
LEMMA ToldNoAsset ==
    ASSUME trail \in Seq(Event), NEW e, trail' = Append(trail, e), NEW a \in Ids,
           ~About(e, a, RowActions), AssetTold(a), assets'[a] = assets[a]
    PROVE  AssetTold(a)'
  <1>1. Cardinality(EventsOn(a, RowActions)') = Cardinality(EventsOn(a, RowActions)) + 0
    BY EventsMove
  <1>2. Cardinality(EventsOn(a, RowActions)) \in Nat
    BY TrailCounts
  <1> QED BY <1>1, <1>2 DEF AssetTold

LEMMA ToldAsset ==
    ASSUME MemberInv, NEW e, trail' = Append(trail, e), NEW a \in Ids,
           About(e, a, RowActions), AssetTold(a), assets'[a] # NoAsset,
           assets'[a].version = IF assets[a] = NoAsset THEN 1 ELSE assets[a].version + 1
    PROVE  AssetTold(a)'
  <1>0. trail \in Seq(Event) /\ assets[a] \in Asset \cup {NoAsset}
    BY DEF MemberInv, TypeInv, AssetsOK
  <1>1. Cardinality(EventsOn(a, RowActions)') = Cardinality(EventsOn(a, RowActions)) + 1
    BY <1>0, EventsMove
  <1>2. Cardinality(EventsOn(a, RowActions)) \in Nat
    BY <1>0, TrailCounts
  <1>3. assets[a] # NoAsset => assets[a].version \in Nat
    BY <1>0 DEF Asset
  <1> QED BY <1>1, <1>2, <1>3 DEF AssetTold

\* The event and the row of a transaction that makes, ends or changes a membership.
Tells(s, u, m, e) ==
    \/ /\ members[s][u] = NoMember /\ m.version = 1 /\ m.born = Len(trail) + 1
       /\ \/ e.action = "space.create" /\ e.actor = u
          \/ e.action = "membership.add" /\ e.id = u
    \/ /\ members[s][u] # NoMember /\ m = NoMember
       /\ e.action = "membership.remove" /\ e.id = u
    \/ /\ members[s][u] # NoMember /\ m.version = members[s][u].version + 1
       /\ m.born = members[s][u].born
       /\ e.action = "membership.role.change" /\ e.id = u

LEMMA MembershipTold ==
    ASSUME MemberInv, TrailInv, NEW s \in Spaces, NEW u \in Users, NEW m, NEW e,
           members' = [members EXCEPT ![s][u] = m], trail' = Append(trail, e),
           UNCHANGED assets, e.space = s, Tells(s, u, m, e)
    PROVE  TrailInv'
  <1>1. /\ members'[s][u] = m
        /\ \A t \in Spaces, x \in Users :
             t # s \/ x # u => members'[t][x] = members[t][x]
    BY DEF MemberInv, TypeInv, MembersOK
  <1>2. /\ trail \in Seq(Event) /\ members[s][u] \in Membership /\ MemberTold(s, u)
        /\ Len(trail) \in Nat
    BY DEF MemberInv, TypeInv, MembersOK, TrailInv
  <1>3. MemberTold(s, u)'
    <2>1. CASE /\ members[s][u] = NoMember /\ m.version = 1 /\ m.born = Len(trail) + 1
               /\ \/ e.action = "space.create" /\ e.actor = u
                  \/ e.action = "membership.add" /\ e.id = u
      <3>1. Joining(e, s, u) /\ ~Leaving(e, s, u)
        BY <2>1 DEF Joining, Leaving, Concerns
      <3>2. m # NoMember
        BY <2>1 DEF NoMember
      <3> QED BY <1>1, <1>2, <2>1, <3>1, <3>2, ToldJoin
    <2>2. CASE /\ members[s][u] # NoMember /\ m = NoMember
               /\ e.action = "membership.remove" /\ e.id = u
      <3>1. Leaving(e, s, u) /\ ~Joining(e, s, u)
        BY <2>2 DEF Joining, Leaving, Concerns
      <3> QED BY <1>1, <1>2, <2>2, <3>1, ToldLeave
    <2>3. CASE /\ members[s][u] # NoMember /\ m.version = members[s][u].version + 1
               /\ m.born = members[s][u].born
               /\ e.action = "membership.role.change" /\ e.id = u
      <3>1. Changing(e, s, u) /\ ~Joining(e, s, u) /\ ~Leaving(e, s, u)
        BY <2>3 DEF Joining, Leaving, Changing, Concerns
      <3>2. m # NoMember
        BY <1>2, <2>3 DEF NoMember, Membership
      <3> QED BY <1>1, <1>2, <2>3, <3>1, <3>2, ToldChange
    <2> QED BY <2>1, <2>2, <2>3 DEF Tells
  <1>4. ASSUME NEW t \in Spaces, NEW x \in Users, t # s \/ x # u
        PROVE  MemberTold(t, x)'
    <2>1. ~Joining(e, t, x) /\ ~Leaving(e, t, x) /\ ~Changing(e, t, x)
      BY <1>4 DEF Tells, Joining, Leaving, Changing, Concerns
    <2>2. MemberTold(t, x) /\ members'[t][x] = members[t][x]
      BY <1>1, <1>4 DEF TrailInv
    <2> QED BY <2>1, <2>2, ToldOther
  <1>5. ASSUME NEW a \in Ids PROVE AssetTold(a)'
    <2>1. ~About(e, a, RowActions)
      BY DEF Tells, About, RowActions
    <2>2. AssetTold(a)
      BY DEF TrailInv
    <2> QED BY <1>2, <2>1, <2>2, ToldNoAsset
  <1> QED BY <1>3, <1>4, <1>5 DEF TrailInv

LEMMA MemberEvent ==
    ASSUME MemberInv, TrailInv, NEW r \in Slots,
           \/ \E s \in Spaces : CreateAudited(r, s)
           \/ AddMemberAudited(r) \/ ChangeRoleAudited(r) \/ RemoveMemberAudited(r),
           UNCHANGED assetVars
    PROVE  TrailInv'
  <1>1. PICK q : q = slot[r].q
    OBVIOUS
  <1>2. /\ q \in Requests /\ q.actor \in Users /\ q.target \in Users
        /\ q.space \in Spaces /\ q.role \in SpaceRoles
    <2>1. slot[r].pc = "run"
      BY DEF CreateAudited, AddMemberAudited, ChangeRoleAudited, RemoveMemberAudited,
             Asks, At
    <2> QED BY <1>1, <2>1, SpaceRequestsAssumption DEF MemberInv, TypeInv, SlotsOK
  <1>3. UNCHANGED assets
    BY DEF assetVars
  <1>4. ASSUME NEW s \in Spaces, CreateAudited(r, s) PROVE TrailInv'
    <2>1. PICK m : m = newMembership("owner")
      OBVIOUS
    <2>2. PICK e : e = [action |-> "space.create", space |-> s, id |-> s,
                        actor |-> q.actor]
      OBVIOUS
    <2>3. s \notin spaces /\ members' = [members EXCEPT ![s][q.actor] = m]
          /\ trail' = Append(trail, e)
      BY <1>1, <1>4, <2>1, <2>2 DEF CreateAudited
    <2>4. members[s][q.actor] = NoMember
      BY <1>2, <2>3 DEF MemberInv, TypeInv, MembersOK
    <2>5. Tells(s, q.actor, m, e) /\ e.space = s
      BY <2>1, <2>2, <2>4 DEF Tells, newMembership
    <2> QED BY <1>2, <1>3, <2>3, <2>5, MembershipTold
  <1>5. ASSUME AddMemberAudited(r) PROVE TrailInv'
    <2>1. PICK m : m = newMembership(q.role)
      OBVIOUS
    <2>2. PICK e : e = [action |-> "membership.add", space |-> q.space,
                        id |-> q.target, actor |-> q.actor]
      OBVIOUS
    <2>3. /\ members[q.space][q.target] = NoMember
          /\ members' = [members EXCEPT ![q.space][q.target] = m]
          /\ trail' = Append(trail, e)
      BY <1>1, <1>5, <2>1, <2>2 DEF AddMemberAudited, appendMembershipAudit
    <2>5. Tells(q.space, q.target, m, e) /\ e.space = q.space
      BY <2>1, <2>2, <2>3 DEF Tells, newMembership
    <2> QED BY <1>2, <1>3, <2>3, <2>5, MembershipTold
  <1>6. ASSUME ChangeRoleAudited(r) PROVE TrailInv'
    <2>1. PICK m : m = changedMembership(members[q.space][q.target], q.role)
      OBVIOUS
    <2>2. PICK e : e = [action |-> "membership.role.change", space |-> q.space,
                        id |-> q.target, actor |-> q.actor]
      OBVIOUS
    <2>3. /\ members[q.space][q.target] # NoMember
          /\ members' = [members EXCEPT ![q.space][q.target] = m]
          /\ trail' = Append(trail, e)
      BY <1>1, <1>6, <2>1, <2>2 DEF ChangeRoleAudited, appendMembershipAudit
    <2>4. members[q.space][q.target] \in Membership
      BY <1>2 DEF MemberInv, TypeInv, MembersOK
    <2>5. Tells(q.space, q.target, m, e) /\ e.space = q.space
      BY <2>1, <2>2, <2>3, <2>4 DEF Tells, changedMembership, Membership
    <2> QED BY <1>2, <1>3, <2>3, <2>5, MembershipTold
  <1>7. ASSUME RemoveMemberAudited(r) PROVE TrailInv'
    <2>2. PICK e : e = [action |-> "membership.remove", space |-> q.space,
                        id |-> q.target, actor |-> q.actor]
      OBVIOUS
    <2>3. /\ members[q.space][q.target] # NoMember
          /\ members' = [members EXCEPT ![q.space][q.target] = NoMember]
          /\ trail' = Append(trail, e)
      BY <1>1, <1>7, <2>2 DEF RemoveMemberAudited, appendMembershipAudit
    <2>5. Tells(q.space, q.target, NoMember, e) /\ e.space = q.space
      BY <2>2, <2>3 DEF Tells
    <2> QED BY <1>2, <1>3, <2>3, <2>5, MembershipTold
  <1> QED BY <1>4, <1>5, <1>6, <1>7

LEMMA AssetEvent ==
    ASSUME MemberInv, TrailInv, NEW r \in Slots,
           \/ \E a \in Ids : Create(r, a)
           \/ Update(r) \/ Delete(r) \/ LinkCredential(r) \/ UnlinkCredential(r)
    PROVE  TrailInv'
  <1>1. PICK q : q = slot[r].q
    OBVIOUS
  <1>2. q \in Requests /\ q.asset \in Ids
    <2>1. slot[r].pc = "run"
      BY DEF Create, Update, Delete, LinkCredential, UnlinkCredential, Asks, At
    <2> QED BY <1>1, <2>1, InitialAssetsAssumption DEF MemberInv, TypeInv, SlotsOK
  <1>3. trail \in Seq(Event) /\ assets \in [Ids -> Asset \cup {NoAsset}]
    BY DEF MemberInv, TypeInv, AssetsOK
  <1>4. ASSUME NEW e, trail' = Append(trail, e), UNCHANGED members,
               e.action \in RowActions \cup LinkActions
        PROVE  \A s \in Spaces, u \in Users : MemberTold(s, u)'
    <2>1. \A s, u : ~Joining(e, s, u) /\ ~Leaving(e, s, u) /\ ~Changing(e, s, u)
      BY <1>4 DEF RowActions, LinkActions, Joining, Leaving, Changing
    <2> QED BY <1>4, <2>1, ToldOther DEF TrailInv
  \* A step on the row of an asset.
  <1>5. ASSUME NEW a \in Ids, NEW row \in Asset, NEW e, trail' = Append(trail, e),
               UNCHANGED members, assets' = [assets EXCEPT ![a] = row],
               row.version = IF assets[a] = NoAsset THEN 1 ELSE assets[a].version + 1,
               e.action \in RowActions, e.id = a
        PROVE  TrailInv'
    <2>1. \A s \in Spaces, u \in Users : MemberTold(s, u)'
      BY <1>4, <1>5
    <2>2. assets'[a] = row /\ row # NoAsset
      BY <1>3, <1>5, InitialAssetsAssumption
    <2>3. AssetTold(a)'
      <3>1. About(e, a, RowActions) /\ AssetTold(a)
        BY <1>5 DEF About, TrailInv
      <3> QED BY <1>5, <2>2, <3>1, ToldAsset
    <2>4. ASSUME NEW b \in Ids, b # a PROVE AssetTold(b)'
      <3>1. ~About(e, b, RowActions) /\ AssetTold(b) /\ assets'[b] = assets[b]
        BY <1>3, <1>5, <2>4 DEF About, TrailInv
      <3> QED BY <1>3, <1>5, <3>1, ToldNoAsset
    <2> QED BY <1>5, <2>1, <2>3, <2>4 DEF TrailInv
  \* A step on a link.
  <1>6. ASSUME NEW e, trail' = Append(trail, e), UNCHANGED <<members, assets>>,
               e.action \in LinkActions
        PROVE  TrailInv'
    <2>2. \A s \in Spaces, u \in Users : MemberTold(s, u)'
      BY <1>4, <1>6
    <2>3. ASSUME NEW b \in Ids PROVE AssetTold(b)'
      <3>1. ~About(e, b, RowActions) /\ AssetTold(b) /\ assets'[b] = assets[b]
        BY <1>6 DEF About, RowActions, LinkActions, TrailInv
      <3> QED BY <1>3, <1>6, <3>1, ToldNoAsset
    <2> QED BY <2>2, <2>3 DEF TrailInv
  <1>7. ASSUME NEW a \in Ids, Create(r, a) PROVE TrailInv'
    <2>1. PICK e : e = [action |-> "asset.create", space |-> q.space, id |-> a,
                        actor |-> q.actor]
      OBVIOUS
    <2>2. PICK row : row = [space |-> q.space, labels |-> q.labels, version |-> 1,
                            live |-> TRUE]
      OBVIOUS
    <2>3. row \in Asset /\ row.version = 1 /\ e.action \in RowActions /\ e.id = a
      BY <1>2, <2>1, <2>2, SpaceRequestsAssumption DEF Asset, RowActions
    <2>4. /\ trail' = Append(trail, e) /\ UNCHANGED members
          /\ assets' = [assets EXCEPT ![a] = row] /\ assets[a] = NoAsset
      BY <1>1, <1>7, <2>1, <2>2 DEF Create, Commits, appendAuditTx, Request
    <2> QED BY <1>5, <2>3, <2>4
  <1>8. ASSUME Update(r) \/ Delete(r) PROVE TrailInv'
    <2>1. assets[q.asset] \in Asset
      BY <1>1, <1>2, <1>3, <1>8 DEF Update, Delete, CurrentVersion, Live, Request
    <2>2. PICK v \in Nat : v = assets[q.asset].version + 1
      BY <2>1 DEF Asset
    <2>3. PICK action \in RowActions, row \in Asset :
             /\ trail' = Append(trail, [action |-> action, space |-> q.space,
                                        id |-> q.asset, actor |-> q.actor])
             /\ assets' = [assets EXCEPT ![q.asset] = row] /\ row.version = v
      <3>1. ASSUME Update(r)
            PROVE  \E action \in RowActions, row \in Asset :
                     /\ trail' = Append(trail, [action |-> action, space |-> q.space,
                                                id |-> q.asset, actor |-> q.actor])
                     /\ assets' = [assets EXCEPT ![q.asset] = row] /\ row.version = v
        <4>1. PICK row : row = [assets[q.asset] EXCEPT !.labels = q.labels, !.version = v]
          OBVIOUS
        <4>2. row \in Asset /\ row.version = v
          BY <1>2, <2>1, <4>1, SpaceRequestsAssumption DEF Asset
        <4>3. assets' = [assets EXCEPT ![q.asset] = row]
          BY <1>1, <1>2, <1>3, <2>1, <2>2, <3>1, <4>1 DEF Update, Request, Asset
        <4>4. trail' = Append(trail, [action |-> "asset.update", space |-> q.space,
                                      id |-> q.asset, actor |-> q.actor])
          BY <1>1, <3>1 DEF Update, Commits, appendAuditTx, Request
        <4>5. "asset.update" \in RowActions
          BY DEF RowActions
        <4> QED BY <4>2, <4>3, <4>4, <4>5
      <3>2. ASSUME Delete(r)
            PROVE  \E action \in RowActions, row \in Asset :
                     /\ trail' = Append(trail, [action |-> action, space |-> q.space,
                                                id |-> q.asset, actor |-> q.actor])
                     /\ assets' = [assets EXCEPT ![q.asset] = row] /\ row.version = v
        <4>1. PICK row : row = [assets[q.asset] EXCEPT !.live = FALSE, !.version = v]
          OBVIOUS
        <4>2. row \in Asset /\ row.version = v
          BY <2>1, <4>1 DEF Asset
        <4>3. assets' = [assets EXCEPT ![q.asset] = row]
          BY <1>1, <1>2, <1>3, <2>1, <2>2, <3>2, <4>1 DEF Delete, Request, Asset
        <4>4. trail' = Append(trail, [action |-> "asset.delete", space |-> q.space,
                                      id |-> q.asset, actor |-> q.actor])
          BY <1>1, <3>2 DEF Delete, Commits, appendAuditTx, Request
        <4>5. "asset.delete" \in RowActions
          BY DEF RowActions
        <4> QED BY <4>2, <4>3, <4>4, <4>5
      <3> QED BY <1>8, <3>1, <3>2
    <2>4. PICK e : e = [action |-> action, space |-> q.space, id |-> q.asset,
                        actor |-> q.actor]
      OBVIOUS
    <2>5. UNCHANGED members /\ assets[q.asset] # NoAsset
      BY <1>8, <2>1, InitialAssetsAssumption DEF Update, Delete, Commits
    <2>6. e.action \in RowActions /\ e.id = q.asset /\ trail' = Append(trail, e)
      BY <2>3, <2>4
    <2> QED BY <1>2, <1>5, <2>2, <2>3, <2>5, <2>6
  <1>9. ASSUME LinkCredential(r) PROVE TrailInv'
    <2>1. PICK e : e = [action |-> "asset.credential.link", space |-> q.space,
                        id |-> q.asset, actor |-> q.actor]
      OBVIOUS
    <2>2. trail' = Append(trail, e) /\ UNCHANGED <<members, assets>>
      BY <1>1, <1>9, <2>1 DEF LinkCredential, Commits, appendAuditTx, Request
    <2> QED BY <1>6, <2>1, <2>2 DEF LinkActions
  <1>10. ASSUME UnlinkCredential(r) PROVE TrailInv'
    <2>1. PICK e : e = [action |-> "asset.credential.unlink", space |-> q.space,
                        id |-> q.asset, actor |-> q.actor]
      OBVIOUS
    <2>2. trail' = Append(trail, e) /\ UNCHANGED <<members, assets>>
      BY <1>1, <1>10, <2>1 DEF UnlinkCredential, Commits, appendAuditTx, Request
    <2> QED BY <1>6, <2>1, <2>2 DEF LinkActions
  <1> QED BY <1>7, <1>8, <1>9, <1>10

LEMMA NothingTold ==
    ASSUME TrailInv, UNCHANGED <<members, trail, assets>>
    PROVE  TrailInv'
  <1>1. \A s, u, n, a, actions :
          /\ JoinsOf(s, u)' = JoinsOf(s, u) /\ LeavesOf(s, u)' = LeavesOf(s, u)
          /\ ChangesOf(s, u, n)' = ChangesOf(s, u, n)
          /\ EventsOn(a, actions)' = EventsOn(a, actions)
    BY DEF JoinsOf, LeavesOf, ChangesOf, EventsOn
  <1>2. ASSUME NEW s \in Spaces, NEW u \in Users PROVE MemberTold(s, u)'
    <2>1. MemberTold(s, u)
      BY DEF TrailInv
    <2>2. ChangesOf(s, u, members[s][u].born)' = ChangesOf(s, u, members[s][u].born)
      BY DEF ChangesOf
    <2> QED BY <1>1, <2>1, <2>2 DEF MemberTold
  <1>3. ASSUME NEW a \in Ids PROVE AssetTold(a)'
    <2>1. AssetTold(a)
      BY DEF TrailInv
    <2> QED BY <1>1, <2>1 DEF AssetTold
  <1> QED BY <1>2, <1>3 DEF TrailInv

LEMMA TrailStep ==
    ASSUME MemberInv, TrailInv, [Next]_vars
    PROVE  TrailInv'
  <1>1. ASSUME SpacesNext, UNCHANGED assetVars PROVE TrailInv'
    <2>1. ASSUME NEW r \in Slots,
                 \/ \E q \in Requests : Arrive(r, q)
                 \/ ArriveAgain(r) \/ Returns(r) \/ ListMembers(r)
          PROVE  TrailInv'
      <3>1. UNCHANGED <<members, trail, assets>>
        BY <1>1, <2>1 DEF assetVars, Arrive, ArriveAgain, Returns, ListMembers
      <3> QED BY <3>1, NothingTold
    <2>2. ASSUME NEW r \in Slots,
                 \/ \E s \in Spaces : CreateAudited(r, s)
                 \/ AddMemberAudited(r) \/ ChangeRoleAudited(r)
                 \/ RemoveMemberAudited(r)
          PROVE  TrailInv'
      BY <1>1, <2>2, MemberEvent
    <2>3. ASSUME NEW u \in Users, Login(u) PROVE TrailInv'
      <3>1. UNCHANGED <<members, trail, assets>>
        BY <1>1, <2>3 DEF assetVars, Login
      <3> QED BY <3>1, NothingTold
    <2> QED BY <1>1, <2>1, <2>2, <2>3 DEF SpacesNext
  <1>2. ASSUME NEW r \in Slots,
               \/ \E a \in Ids : Create(r, a)
               \/ Update(r) \/ Delete(r) \/ LinkCredential(r) \/ UnlinkCredential(r)
        PROVE  TrailInv'
    BY <1>2, AssetEvent
  <1>3. ASSUME \/ \E r \in Slots :
                    GetRow(r) \/ GetTags(r) \/ ResolveAuthorizationPrincipal(r)
               \/ CredentialStep
               \/ \E q \in Listings : ListBegin(q)
               \/ ListPage \/ ListRows \/ ListTags \/ ListEnd
               \/ UNCHANGED vars
        PROVE  TrailInv'
    <2>1. UNCHANGED <<members, trail, assets>>
      BY <1>3, CredentialFrame DEF GetRow, GetTags, ResolveAuthorizationPrincipal, ListBegin,
                  ListPage, ListRows, ListTags, ListEnd, vars, spaceVars, assetVars
    <2> QED BY <2>1, NothingTold
  <1> QED BY <1>1, <1>2, <1>3 DEF Next, CredentialStep

LEMMA TrailBegins == ASSUME Init PROVE TrailInv
  <1> USE DEF Init, SpacesInit
  <1>1. DOMAIN trail = {} /\ Len(trail) = 0
    OBVIOUS
  <1>2. \A s, u, n, a, actions :
          /\ JoinsOf(s, u) = {} /\ LeavesOf(s, u) = {} /\ ChangesOf(s, u, n) = {}
          /\ EventsOn(a, actions) = {}
    BY <1>1 DEF JoinsOf, LeavesOf, ChangesOf, EventsOn
  <1>3. Cardinality({}) = 0
    BY FS_EmptySet
  <1>4. ASSUME NEW s \in Spaces, NEW u \in Users PROVE MemberTold(s, u)
    <2>1. /\ members[s][u] = InitialMembers[s][u]
          /\ members[s][u] # NoMember =>
               members[s][u].version = 1 /\ members[s][u].born = 0
      BY InitialSpacesAssumption
    <2>2. members[s][u].born = 0
      BY <2>1 DEF NoMember
    <2>3. /\ Cardinality(JoinsOf(s, u)) = 0 /\ Cardinality(LeavesOf(s, u)) = 0
          /\ Cardinality(ChangesOf(s, u, members[s][u].born)) = 0
      BY <1>2, <1>3, Zenon
    <2> QED BY <1>1, <2>1, <2>2, <2>3 DEF MemberTold
  <1>5. ASSUME NEW a \in Ids PROVE AssetTold(a)
    <2>1. Cardinality(EventsOn(a, RowActions)) = 0
      BY <1>2, <1>3, Zenon
    <2> QED BY <2>1, InitialAssetsAssumption DEF AssetTold
  <1> QED BY <1>4, <1>5 DEF TrailInv

LEMMA TrailTold == Spec => [](MemberInv /\ TrailInv)
  <1>1. Init => TrailInv
    BY TrailBegins
  <1>2. MemberInv /\ TrailInv /\ [Next]_vars => TrailInv'
    BY TrailStep
  <1> QED BY <1>1, <1>2, Invariance, PTL DEF Spec

LEMMA TrailInvTells == ASSUME MemberInv, TrailInv PROVE TrailTellsTables
  <1>1. trail \in Seq(Event)
    BY DEF MemberInv, TypeInv
  <1>2. TrailTellsMembers
    <2>1. ASSUME NEW s \in Spaces, NEW u \in Users
          PROVE  LET before == IF InitialMembers[s][u] = NoMember THEN 0 ELSE 1
                     m == members[s][u]
                 IN  /\ (m # NoMember) <=> before + Cardinality(JoinsOf(s, u))
                                             = Cardinality(LeavesOf(s, u)) + 1
                     /\ (m = NoMember) <=> before + Cardinality(JoinsOf(s, u))
                                             = Cardinality(LeavesOf(s, u))
                     /\ m # NoMember =>
                          m.version = 1 + Cardinality(ChangesOf(s, u, m.born))
      <3>1. Cardinality(JoinsOf(s, u)) \in Nat /\ Cardinality(LeavesOf(s, u)) \in Nat
        BY <1>1, TrailCounts
      <3>2. MemberTold(s, u)
        BY DEF TrailInv
      <3> QED BY <3>1, <3>2 DEF MemberTold
    <2>2. ASSUME NEW s \in Spaces, NEW u \in Users
          PROVE  LET m == members[s][u]
                     Joins(i) ==
                       \/ trail[i].action = "space.create" /\ trail[i].space = s
                          /\ trail[i].actor = u
                       \/ trail[i].action = "membership.add" /\ Concerns(trail[i], s, u)
                     Leaves(i) ==
                       trail[i].action = "membership.remove" /\ Concerns(trail[i], s, u)
                     Changes(i) == /\ trail[i].action = "membership.role.change"
                                   /\ Concerns(trail[i], s, u) /\ i > m.born
                 IN  /\ Count(Joins) = Cardinality(JoinsOf(s, u))
                     /\ Count(Leaves) = Cardinality(LeavesOf(s, u))
                     /\ Count(Changes) = Cardinality(ChangesOf(s, u, m.born))
      <3>1. JoinsOf(s, u) = {i \in DOMAIN trail :
              \/ trail[i].action = "space.create" /\ trail[i].space = s
                 /\ trail[i].actor = u
              \/ trail[i].action = "membership.add" /\ Concerns(trail[i], s, u)}
        BY DEF JoinsOf, Joining
      <3>2. LeavesOf(s, u) = {i \in DOMAIN trail :
              trail[i].action = "membership.remove" /\ Concerns(trail[i], s, u)}
        BY DEF LeavesOf, Leaving
      <3>3. ChangesOf(s, u, members[s][u].born) = {i \in DOMAIN trail :
              /\ trail[i].action = "membership.role.change"
              /\ Concerns(trail[i], s, u) /\ i > members[s][u].born}
        BY DEF ChangesOf, Changing
      <3> QED BY <3>1, <3>2, <3>3, Zenon DEF Count
    <2> QED BY <2>1, <2>2, Zenon DEF TrailTellsMembers
  <1>3. ASSUME NEW a \in Ids
        PROVE  (IF InitialAssets[a] = NoAsset THEN 0 ELSE 1)
                 + Cardinality(EventsOn(a, RowActions))
                 = IF assets[a] = NoAsset THEN 0 ELSE assets[a].version
    BY DEF TrailInv, AssetTold
  <1> QED BY <1>2, <1>3 DEF TrailTellsTables, EventsOn, RowActions, About

\* The audit trail and the tables agree at every moment, for any number of
\* requests in progress: who joined and did not leave is a member, at the version
\* its role changes give, and each asset is at the version its events give (the
\* audit append inside every transaction of the spaces and assets services).  The
\* links are not told: the credential service replaces them (replaceAssetLinks).
THEOREM TrailAndTablesAgree == Spec => []TrailTellsTables
  <1>1. MemberInv /\ TrailInv => TrailTellsTables
    BY TrailInvTells
  <1> QED BY <1>1, TrailTold, PTL

-----------------------------------------------------------------------------
(***************************************************************************)
(* What a client saw.  A row that is still at the version that was seen is *)
(* the row that was seen: every change makes a new version, and a          *)
(* membership that is made again is told from the first by its event.      *)
(***************************************************************************)
Settled == {"again", "resolve", "run"}
AssetOps == {"asset_update", "asset_delete"}

\* x is what a slot holds.
SeesMember(x) ==
    (x.pc \in Settled /\ x.q.op \in {"change", "remove"}) =>
      /\ x.seen.born <= Len(trail)
      /\ (/\ members[x.q.space][x.q.target] # NoMember
          /\ members[x.q.space][x.q.target].born = x.seen.born)
         => /\ members[x.q.space][x.q.target].version >= x.seen.version
            /\ members[x.q.space][x.q.target].version = x.seen.version
               => members[x.q.space][x.q.target].role = x.seen.role

\* Row and tags are read in two steps: the tags are those of the version that was
\* seen, or the row has gone on to another.
SeesAsset(x) ==
    /\ x.pc = "tags" => x.q.op \in AssetOps
    /\ (x.pc \in Settled \cup {"tags"} /\ x.q.op \in AssetOps) =>
         /\ assets[x.q.asset] # NoAsset
         /\ assets[x.q.asset].version >= x.seen.version
         /\ (x.pc # "tags" /\ assets[x.q.asset].version = x.seen.version)
            => assets[x.q.asset].labels = x.labels

SeenInv == \A r \in Slots : SeesMember(slot[r]) /\ SeesAsset(slot[r])

\* What a step may do to the row of a member, and of an asset.
MemberForward(s, u) ==
    \/ members'[s][u] \in {members[s][u], NoMember}
    \/ members'[s][u].born = Len(trail) + 1
    \/ /\ members[s][u] # NoMember /\ members'[s][u].born = members[s][u].born
       /\ members'[s][u].version = members[s][u].version + 1
AssetForward(a) ==
    assets[a] # NoAsset =>
      /\ assets'[a] # NoAsset /\ assets'[a].space = assets[a].space
      /\ \/ assets'[a] = assets[a]
         \/ assets'[a].version = assets[a].version + 1

LEMMA MembersForward ==
    ASSUME MemberInv, [Next]_vars
    PROVE  /\ Len(trail) <= Len(trail')
           /\ \A s \in Spaces, u \in Users : MemberForward(s, u)
  <1>1. trail \in Seq(Event) /\ members \in [Spaces -> [Users -> Membership]]
    BY DEF MemberInv, TypeInv, MembersOK
  <1>2. ASSUME NEW e, trail' = Append(trail, e) PROVE Len(trail) <= Len(trail')
    BY <1>1, <1>2, Appended
  <1>3. ASSUME NEW r \in Slots,
               \/ \E s \in Spaces : CreateAudited(r, s)
               \/ AddMemberAudited(r) \/ ChangeRoleAudited(r) \/ RemoveMemberAudited(r)
        PROVE  /\ Len(trail) <= Len(trail')
               /\ \A s \in Spaces, u \in Users : MemberForward(s, u)
    <2>1. PICK q : q = slot[r].q
      OBVIOUS
    <2>2. q \in Requests /\ q.actor \in Users /\ q.target \in Users /\ q.space \in Spaces
      <3>1. slot[r].pc = "run"
        BY <1>3 DEF CreateAudited, AddMemberAudited, ChangeRoleAudited,
                    RemoveMemberAudited, Asks, At
      <3> QED BY <2>1, <3>1, SpaceRequestsAssumption DEF MemberInv, TypeInv, SlotsOK
    <2>3. PICK e : trail' = Append(trail, e)
      BY <1>3 DEF CreateAudited, AddMemberAudited, ChangeRoleAudited,
                  RemoveMemberAudited, appendMembershipAudit
    <2>4. ASSUME NEW s \in Spaces, NEW u \in Users, NEW m,
                 members' = [members EXCEPT ![s][u] = m],
                 \/ m = NoMember \/ m.born = Len(trail) + 1
                 \/ /\ members[s][u] # NoMember /\ m.born = members[s][u].born
                    /\ m.version = members[s][u].version + 1
          PROVE  \A t \in Spaces, x \in Users : MemberForward(t, x)
      BY <1>1, <2>4 DEF MemberForward
    <2>5. ASSUME NEW s \in Spaces, CreateAudited(r, s)
          PROVE  \A t \in Spaces, x \in Users : MemberForward(t, x)
      <3>1. PICK m : m = newMembership("owner")
        OBVIOUS
      <3>2. members' = [members EXCEPT ![s][q.actor] = m] /\ m.born = Len(trail) + 1
        BY <2>1, <2>5, <3>1 DEF CreateAudited, newMembership
      <3> QED BY <2>2, <2>4, <3>2
    <2>6. ASSUME AddMemberAudited(r)
          PROVE  \A t \in Spaces, x \in Users : MemberForward(t, x)
      <3>1. PICK m : m = newMembership(q.role)
        OBVIOUS
      <3>2. /\ members' = [members EXCEPT ![q.space][q.target] = m]
            /\ m.born = Len(trail) + 1
        BY <2>1, <2>6, <3>1 DEF AddMemberAudited, newMembership
      <3> QED BY <2>2, <2>4, <3>2
    <2>7. ASSUME ChangeRoleAudited(r)
          PROVE  \A t \in Spaces, x \in Users : MemberForward(t, x)
      <3>1. PICK m : m = changedMembership(members[q.space][q.target], q.role)
        OBVIOUS
      <3>2. /\ members' = [members EXCEPT ![q.space][q.target] = m]
            /\ members[q.space][q.target] # NoMember
        BY <2>1, <2>7, <3>1 DEF ChangeRoleAudited
      <3>3. members[q.space][q.target] \in Membership
        BY <1>1, <2>2
      <3>4. /\ m.born = members[q.space][q.target].born
            /\ m.version = members[q.space][q.target].version + 1
        BY <3>1, <3>3 DEF changedMembership, Membership
      <3> QED BY <2>2, <2>4, <3>2, <3>4
    <2>8. ASSUME RemoveMemberAudited(r)
          PROVE  \A t \in Spaces, x \in Users : MemberForward(t, x)
      <3>1. members' = [members EXCEPT ![q.space][q.target] = NoMember]
        BY <2>1, <2>8 DEF RemoveMemberAudited
      <3> QED BY <2>2, <2>4, <3>1
    <2> QED BY <1>2, <1>3, <2>3, <2>5, <2>6, <2>7, <2>8
  <1>4. ASSUME UNCHANGED members, UNCHANGED trail \/ \E e : trail' = Append(trail, e)
        PROVE  /\ Len(trail) <= Len(trail')
               /\ \A s \in Spaces, u \in Users : MemberForward(s, u)
    BY <1>1, <1>2, <1>4 DEF MemberForward
  <1>5. ASSUME NEW r \in Slots,
               \/ \E q \in Requests : Arrive(r, q)
               \/ ArriveAgain(r) \/ Returns(r) \/ ListMembers(r)
               \/ GetRow(r) \/ GetTags(r) \/ ResolveAuthorizationPrincipal(r)
               \/ \E a \in Ids : Create(r, a)
               \/ Update(r) \/ Delete(r) \/ LinkCredential(r) \/ UnlinkCredential(r)
        PROVE  UNCHANGED members /\ (UNCHANGED trail \/ \E e : trail' = Append(trail, e))
    BY <1>5 DEF Arrive, ArriveAgain, Returns, ListMembers, GetRow, GetTags,
                ResolveAuthorizationPrincipal, Create, Update, Delete, LinkCredential,
                UnlinkCredential, Commits, appendAuditTx
  <1>6. ASSUME \/ \E u \in Users : Login(u)
               \/ CredentialStep
               \/ \E q \in Listings : ListBegin(q)
               \/ ListPage \/ ListRows \/ ListTags \/ ListEnd
               \/ UNCHANGED vars
        PROVE  UNCHANGED <<members, trail>>
    BY <1>6, CredentialFrame DEF Login, ListBegin, ListPage, ListRows, ListTags, ListEnd,
                vars, spaceVars
  <1> QED BY <1>3, <1>4, <1>5, <1>6 DEF Next, CredentialStep, SpacesNext

LEMMA AssetsForward ==
    ASSUME MemberInv, [Next]_vars
    PROVE  \A a \in Ids : AssetForward(a)
  <1>1. assets \in [Ids -> Asset \cup {NoAsset}] /\ NoAsset \notin Asset
    BY InitialAssetsAssumption DEF MemberInv, TypeInv, AssetsOK
  <1>2. ASSUME NEW r \in Slots, NEW a \in Ids, Create(r, a)
        PROVE  \A b \in Ids : AssetForward(b)
    BY <1>1, <1>2 DEF Create, AssetForward
  <1>3. ASSUME NEW r \in Slots, Update(r) \/ Delete(r)
        PROVE  \A b \in Ids : AssetForward(b)
    <2>1. PICK a : a = slot[r].q.asset
      OBVIOUS
    <2>2. a \in Ids
      BY <1>3, <2>1, InitialAssetsAssumption
      DEF Update, Delete, Asks, At, MemberInv, TypeInv, SlotsOK
    <2>3. assets[a] \in Asset
      BY <1>1, <1>3, <2>1, <2>2 DEF Update, Delete, CurrentVersion, Live, Request
    <2>4. PICK v \in Nat : v = assets[a].version + 1
      BY <2>3 DEF Asset
    <2>5. assets'[a].version = v /\ assets'[a] # NoAsset
          /\ assets'[a].space = assets[a].space
          /\ \A b \in Ids \ {a} : assets'[b] = assets[b]
      <3>1. CASE Update(r)
        <4>1. PICK row : row = [assets[a] EXCEPT !.labels = slot[r].q.labels,
                                                 !.version = v]
          OBVIOUS
        <4>2. slot[r].q.labels \in SUBSET Labels
          BY <3>1, SpaceRequestsAssumption
          DEF Update, Asks, At, MemberInv, TypeInv, SlotsOK
        <4>3. row \in Asset /\ row.version = v /\ row.space = assets[a].space
          BY <2>3, <4>1, <4>2 DEF Asset
        <4>4. assets' = [assets EXCEPT ![a] = row]
          BY <1>1, <2>1, <2>2, <2>3, <2>4, <3>1, <4>1 DEF Update, Request, Asset
        <4> QED BY <1>1, <2>2, <4>3, <4>4
      <3>2. CASE Delete(r)
        <4>1. PICK row : row = [assets[a] EXCEPT !.live = FALSE, !.version = v]
          OBVIOUS
        <4>3. row \in Asset /\ row.version = v /\ row.space = assets[a].space
          BY <2>3, <4>1 DEF Asset
        <4>4. assets' = [assets EXCEPT ![a] = row]
          BY <1>1, <2>1, <2>2, <2>3, <2>4, <3>2, <4>1 DEF Delete, Request, Asset
        <4> QED BY <1>1, <2>2, <4>3, <4>4
      <3> QED BY <1>3, <3>1, <3>2
    <2> QED BY <2>2, <2>4, <2>5 DEF AssetForward
  <1>4. ASSUME UNCHANGED assets PROVE \A b \in Ids : AssetForward(b)
    BY <1>4 DEF AssetForward
  <1>5. ASSUME \/ SpacesNext /\ UNCHANGED assetVars
               \/ \E r \in Slots :
                    \/ GetRow(r) \/ GetTags(r) \/ ResolveAuthorizationPrincipal(r)
                    \/ LinkCredential(r) \/ UnlinkCredential(r)
               \/ CredentialStep
               \/ \E q \in Listings : ListBegin(q)
               \/ ListPage \/ ListRows \/ ListTags \/ ListEnd
               \/ UNCHANGED vars
        PROVE  UNCHANGED assets
    BY <1>5, CredentialFrame DEF assetVars, vars, GetRow, GetTags, ResolveAuthorizationPrincipal,
                LinkCredential, UnlinkCredential, ListBegin, ListPage,
                ListRows, ListTags, ListEnd
  <1> QED BY <1>2, <1>3, <1>4, <1>5 DEF Next, CredentialStep

\* What was seen stays so, whatever a step does to the tables.
LEMMA StillSeen ==
    ASSUME MemberInv, [Next]_vars, NEW x \in Slot, x.pc # "free" => x.q \in Requests,
           SeesMember(x), SeesAsset(x)
    PROVE  SeesMember(x)' /\ SeesAsset(x)'
  <1>1. MemberInv'
    BY Inductive
  <1>2. SeesMember(x)'
    <2>1. SUFFICES ASSUME x.pc \in Settled, x.q.op \in {"change", "remove"}
                   PROVE  SeesMember(x)'
      BY DEF SeesMember
    <2>2. PICK s \in Spaces, u \in Users : s = x.q.space /\ u = x.q.target
      BY <2>1, SpaceRequestsAssumption DEF Settled
    <2>3. /\ members[s][u] \in Membership /\ members'[s][u] \in Membership
          /\ x.seen \in Membership /\ Len(trail) \in Nat /\ Len(trail') \in Nat
      BY <1>1 DEF MemberInv, TypeInv, MembersOK, Slot
    <2>4. MemberForward(s, u) /\ Len(trail) <= Len(trail')
      BY MembersForward
    <2>5. /\ x.seen.born <= Len(trail)
          /\ (members[s][u] # NoMember /\ members[s][u].born = x.seen.born)
             => /\ members[s][u].version >= x.seen.version
                /\ members[s][u].version = x.seen.version
                   => members[s][u].role = x.seen.role
      BY <2>1, <2>2 DEF SeesMember
    <2>6. /\ x.seen.born <= Len(trail')
          /\ (members'[s][u] # NoMember /\ members'[s][u].born = x.seen.born)
             => /\ members'[s][u].version >= x.seen.version
                /\ members'[s][u].version = x.seen.version
                   => members'[s][u].role = x.seen.role
      BY <2>3, <2>4, <2>5 DEF MemberForward, Membership
    <2> QED BY <2>2, <2>6 DEF SeesMember
  <1>3. SeesAsset(x)'
    <2>1. SUFFICES ASSUME x.pc \in Settled \cup {"tags"}, x.q.op \in AssetOps
                   PROVE  SeesAsset(x)'
      BY DEF SeesAsset
    <2>2. PICK a \in Ids : a = x.q.asset
      BY <2>1, InitialAssetsAssumption DEF Settled
    <2>3. /\ assets[a] \in Asset /\ x.seen.version \in Nat
          /\ assets[a].version >= x.seen.version
          /\ (x.pc # "tags" /\ assets[a].version = x.seen.version)
             => assets[a].labels = x.labels
      <3>1. assets[a] # NoAsset /\ assets[a] \in Asset \cup {NoAsset}
        BY <2>1, <2>2 DEF SeesAsset, MemberInv, TypeInv, AssetsOK
      <3> QED BY <2>1, <2>2, <3>1 DEF SeesAsset, Slot, Membership
    <2>4. AssetForward(a)
      BY AssetsForward
    <2>5. assets[a].version \in Nat /\ assets[a] # NoAsset
      BY <2>3, InitialAssetsAssumption DEF Asset
    <2>6. /\ assets'[a] # NoAsset /\ assets'[a].version >= x.seen.version
          /\ (x.pc # "tags" /\ assets'[a].version = x.seen.version)
             => assets'[a].labels = x.labels
      BY <2>3, <2>4, <2>5 DEF AssetForward
    <2> QED BY <2>1, <2>2, <2>6 DEF SeesAsset
  <1> QED BY <1>2, <1>3

\* What a step may do to what a slot holds.
Keeps(r) ==
    /\ slot'[r].q = slot[r].q /\ slot'[r].seen = slot[r].seen
    /\ slot'[r].labels = slot[r].labels
    /\ slot'[r].pc = slot[r].pc \/ {slot[r].pc, slot'[r].pc} \subseteq Settled
Begins(r) ==
    \/ slot'[r].pc \in {"free", "read"}
    \/ slot'[r].pc \in {"run", "resolve"} /\ slot'[r].q.op \notin ReadFirst
SeesARow(r) ==
    /\ slot'[r].q = slot[r].q /\ slot[r].q \in Requests
    /\ UNCHANGED <<members, trail, assets>>
    /\ \/ /\ slot'[r].pc = "again" /\ slot[r].q.op \in {"change", "remove"}
          /\ slot'[r].seen = members[slot[r].q.space][slot[r].q.target]
       \/ /\ slot'[r].pc = "tags" /\ slot[r].q.op \in AssetOps
          /\ assets[slot[r].q.asset] # NoAsset
          /\ slot'[r].seen.version = assets[slot[r].q.asset].version
       \/ /\ slot[r].pc = "tags" /\ slot'[r].pc = "again"
          /\ slot'[r].seen = slot[r].seen
          /\ slot'[r].labels = assets[slot[r].q.asset].labels

LEMMA OneSlotMoves ==
    ASSUME SlotsOK, NEW r \in Slots, NEW y, slot' = [slot EXCEPT ![r] = y],
           NEW x \in Slots, x # r
    PROVE  Keeps(x)
  BY DEF SlotsOK, Keeps

LEMMA DoneMoves ==
    ASSUME SlotsOK, NEW r \in Slots, NEW ms, Done(r, ms), NEW x \in Slots
    PROVE  /\ slot'[x] = Free \/ Keeps(x)
           /\ slot[x].pc # "free" /\ slot'[x].pc = "free" => x = r
  <1>1. \/ slot'[x] = Free /\ (x = r \/ slot[x].pc = "free")
        \/ slot'[x] = [slot[x] EXCEPT !.held = slot[x].held \cup {RoleIn(ms, slot[x].q)}]
    BY DEF Done, At
  <1>2. CASE slot'[x] = Free /\ (x = r \/ slot[x].pc = "free")
    BY <1>2
  <1>3. CASE slot'[x] = [slot[x] EXCEPT !.held =
                           slot[x].held \cup {RoleIn(ms, slot[x].q)}]
    BY <1>3 DEF Keeps, SlotsOK, Slot
  <1> QED BY <1>1, <1>2, <1>3

LEMMA ReadingMoves ==
    ASSUME MemberInv, NEW r \in Slots, UNCHANGED assets,
           \/ \E q \in Requests : Arrive(r, q)
           \/ ArriveAgain(r) \/ Returns(r) \/ ListMembers(r),
           NEW x \in Slots
    PROVE  Keeps(x) \/ Begins(x) \/ SeesARow(x)
  <1>0. SlotsOK
    BY DEF MemberInv, TypeInv
  <1>1. ASSUME NEW y, slot' = [slot EXCEPT ![r] = y]
        PROVE  slot'[r] = y /\ (x # r => Keeps(x))
    BY <1>0, <1>1, OneSlotMoves DEF SlotsOK
  <1>2. ASSUME NEW q \in Requests, Arrive(r, q)
        PROVE  Keeps(x) \/ Begins(x)
    <2>1. CASE q.op \in ReadFirst
      <3>1. slot' = [slot EXCEPT ![r] = Fresh(q)]
        BY <1>2, <2>1 DEF Arrive
      <3>2. slot'[r].pc = "read" /\ (x # r => Keeps(x))
        BY <1>1, <3>1, FreshType
      <3> QED BY <3>2 DEF Begins
    <2>2. CASE q.op \notin ReadFirst
      <3>1. PICK y : y = [Fresh(q) EXCEPT
                            !.pc = IF q.op \in MemberOps THEN "run" ELSE "resolve",
                            !.held = {RoleIn(members, q)}]
        OBVIOUS
      <3>2. y.pc \in {"run", "resolve"} /\ y.q = q
        BY <3>1, FreshType DEF Slot
      <3>3. slot' = [slot EXCEPT ![r] = y]
        BY <1>2, <2>2, <3>1, FreshType DEF Arrive, Authenticated
      <3>4. slot'[r] = y /\ (x # r => Keeps(x))
        BY <1>1, <3>3
      <3> QED BY <2>2, <3>2, <3>4 DEF Begins
    <2> QED BY <2>1, <2>2
  <1>3. ASSUME ArriveAgain(r) PROVE Keeps(x)
    <2>1. PICK y : y = [slot[r] EXCEPT
                          !.pc = IF slot[r].q.op \in MemberOps THEN "run" ELSE "resolve",
                          !.held = {RoleIn(members, slot[r].q)}]
      OBVIOUS
    <2>2. slot' = [slot EXCEPT ![r] = y] /\ slot[r].pc = "again"
      BY <1>3, <2>1 DEF ArriveAgain, Authenticated, At
    <2>3. /\ y.pc \in {"run", "resolve"} /\ y.q = slot[r].q /\ y.seen = slot[r].seen
          /\ y.labels = slot[r].labels
      BY <1>0, <2>1 DEF SlotsOK, Slot
    <2>4. slot'[r] = y /\ (x # r => Keeps(x))
      BY <1>1, <2>2
    <2> QED BY <2>2, <2>3, <2>4 DEF Keeps, Settled
  <1>4. ASSUME Returns(r) PROVE Keeps(x) \/ Begins(x)
    <2>1. slot'[r] = Free /\ (x # r => Keeps(x))
      BY <1>1, <1>4 DEF Returns
    <2> QED BY <2>1, FreeType DEF Begins
  <1>5. ASSUME ListMembers(r) PROVE Keeps(x) \/ SeesARow(x)
    <2>1. PICK y : y = [slot[r] EXCEPT !.pc = "again",
                          !.seen = members[slot[r].q.space][slot[r].q.target]]
      OBVIOUS
    <2>2. /\ slot' = [slot EXCEPT ![r] = y] /\ slot[r].q.op \in {"change", "remove"}
          /\ slot[r].q \in Requests /\ UNCHANGED <<members, trail>>
      BY <1>0, <1>5, <2>1 DEF ListMembers, At, SlotsOK, Slot
    <2>3. /\ y.pc = "again" /\ y.q = slot[r].q
          /\ y.seen = members[slot[r].q.space][slot[r].q.target]
      BY <1>0, <2>1 DEF SlotsOK, Slot
    <2>4. slot'[r] = y /\ (x # r => Keeps(x))
      BY <1>1, <2>2
    <2> QED BY <2>2, <2>3, <2>4 DEF SeesARow
  <1> QED BY <1>2, <1>3, <1>4, <1>5

LEMMA ResolvingMoves ==
    ASSUME MemberInv, NEW r \in Slots,
           GetRow(r) \/ GetTags(r) \/ ResolveAuthorizationPrincipal(r),
           NEW x \in Slots
    PROVE  Keeps(x) \/ SeesARow(x)
  <1>0. SlotsOK
    BY DEF MemberInv, TypeInv
  <1>1. ASSUME NEW y, slot' = [slot EXCEPT ![r] = y]
        PROVE  slot'[r] = y /\ (x # r => Keeps(x))
    BY <1>0, <1>1, OneSlotMoves DEF SlotsOK
  <1>2. slot[r] \in Slot /\ slot[r].q \in Requests /\ UNCHANGED <<members, trail, assets>>
    BY <1>0 DEF GetRow, GetTags, ResolveAuthorizationPrincipal, At, SlotsOK, assetVars
  <1>3. ASSUME GetRow(r) PROVE Keeps(x) \/ SeesARow(x)
    <2>0. PICK seen : seen = [NoMember EXCEPT !.version = assets[slot[r].q.asset].version]
      OBVIOUS
    <2>1. PICK y : y = [slot[r] EXCEPT !.pc = "tags",
                          !.role = RoleIn(members, slot[r].q), !.seen = seen]
      OBVIOUS
    <2>2. /\ slot' = [slot EXCEPT ![r] = y] /\ slot[r].q.op \in AssetOps
          /\ assets[slot[r].q.asset] # NoAsset
      BY <1>0, <1>3, <2>0, <2>1 DEF GetRow, Request, Live, AssetOps, SlotsOK, Slot
    <2>3. y.pc = "tags" /\ y.q = slot[r].q /\ y.seen = seen
      BY <1>2, <2>1 DEF Slot
    <2>4. seen.version = assets[slot[r].q.asset].version
      BY <2>0 DEF NoMember
    <2>5. slot'[r] = y /\ (x # r => Keeps(x))
      BY <1>1, <2>2
    <2> QED BY <1>2, <2>2, <2>3, <2>4, <2>5 DEF SeesARow
  <1>4. ASSUME GetTags(r) PROVE Keeps(x) \/ SeesARow(x)
    <2>1. PICK y : y = [slot[r] EXCEPT !.pc = "again",
                          !.labels = assets[slot[r].q.asset].labels]
      OBVIOUS
    <2>2. slot' = [slot EXCEPT ![r] = y] /\ slot[r].pc = "tags"
      BY <1>0, <1>4, <2>1 DEF GetTags, Request, At, SlotsOK, Slot
    <2>3. /\ y.pc = "again" /\ y.q = slot[r].q /\ y.seen = slot[r].seen
          /\ y.labels = assets[slot[r].q.asset].labels
      BY <1>2, <2>1 DEF Slot
    <2>4. slot'[r] = y /\ (x # r => Keeps(x))
      BY <1>1, <2>2
    <2> QED BY <1>2, <2>2, <2>3, <2>4 DEF SeesARow
  <1>5. ASSUME ResolveAuthorizationPrincipal(r) PROVE Keeps(x)
    <2>1. PICK y : y = [slot[r] EXCEPT !.pc = "run",
                          !.role = RoleIn(members, slot[r].q)]
      OBVIOUS
    <2>2. slot' = [slot EXCEPT ![r] = y] /\ slot[r].pc = "resolve"
      BY <1>0, <1>5, <2>1 DEF ResolveAuthorizationPrincipal, Request, At, SlotsOK, Slot
    <2>3. /\ y.pc = "run" /\ y.q = slot[r].q /\ y.seen = slot[r].seen
          /\ y.labels = slot[r].labels
      BY <1>2, <2>1 DEF Slot
    <2>4. slot'[r] = y /\ (x # r => Keeps(x))
      BY <1>1, <2>2
    <2> QED BY <2>2, <2>3, <2>4 DEF Keeps, Settled
  <1> QED BY <1>3, <1>4, <1>5

\* The steps that change a table end the request that takes them, and no other.
Commit(r) ==
    \/ \E s \in Spaces : CreateAudited(r, s)
    \/ AddMemberAudited(r) \/ ChangeRoleAudited(r) \/ RemoveMemberAudited(r)
    \/ \E a \in Ids : Create(r, a)
    \/ Update(r) \/ Delete(r) \/ LinkCredential(r) \/ UnlinkCredential(r)

LEMMA CommitMoves ==
    ASSUME MemberInv, NEW r \in Slots, Commit(r), NEW x \in Slots
    PROVE  /\ slot'[x] = Free \/ Keeps(x)
           /\ slot[x].pc # "free" /\ slot'[x].pc = "free" => x = r
  <1>1. SlotsOK
    BY DEF MemberInv, TypeInv
  <1>2. Done(r, members) \/ Done(r, members')
    BY DEF Commit, CreateAudited, AddMemberAudited, ChangeRoleAudited,
           RemoveMemberAudited, Create, Update, Delete, LinkCredential,
           UnlinkCredential, Commits
  <1>3. PICK ms : Done(r, ms)
    BY <1>2
  <1> QED BY <1>1, <1>3, DoneMoves

LEMMA SlotMoves ==
    ASSUME MemberInv, [Next]_vars, NEW x \in Slots
    PROVE  Keeps(x) \/ Begins(x) \/ SeesARow(x)
  <1>1. ASSUME NEW r \in Slots, Commit(r) PROVE Keeps(x) \/ Begins(x)
    BY <1>1, CommitMoves, FreeType DEF Begins
  <1>2. ASSUME NEW r \in Slots, UNCHANGED assetVars,
               \/ \E q \in Requests : Arrive(r, q)
               \/ ArriveAgain(r) \/ Returns(r) \/ ListMembers(r)
        PROVE  Keeps(x) \/ Begins(x) \/ SeesARow(x)
    BY <1>2, ReadingMoves DEF assetVars
  <1>3. ASSUME NEW r \in Slots,
               GetRow(r) \/ GetTags(r) \/ ResolveAuthorizationPrincipal(r)
        PROVE  Keeps(x) \/ SeesARow(x)
    BY <1>3, ResolvingMoves
  <1>4. ASSUME \/ \E u \in Users : Login(u)
               \/ CredentialStep
               \/ \E q \in Listings : ListBegin(q)
               \/ ListPage \/ ListRows \/ ListTags \/ ListEnd
               \/ UNCHANGED vars
        PROVE  Keeps(x)
    <2>1. UNCHANGED slot
      BY <1>4, CredentialFrame DEF Login, ListBegin, ListPage, ListRows, ListTags, ListEnd,
                  vars, spaceVars
    <2> QED BY <2>1 DEF Keeps
  <1> QED BY <1>1, <1>2, <1>3, <1>4 DEF Next, CredentialStep, SpacesNext, Commit

LEMMA SeenStep ==
    ASSUME MemberInv, TrailInv, SeenInv, [Next]_vars
    PROVE  SeenInv'
  <1>1. SUFFICES ASSUME NEW r \in Slots
                 PROVE  SeesMember(slot[r])' /\ SeesAsset(slot[r])'
    BY DEF SeenInv
  <1>2. PICK x : x = slot[r]
    OBVIOUS
  <1>3. PICK y : y = slot'[r]
    OBVIOUS
  <1>4. /\ x \in Slot
        /\ x.pc # "free" => x.q \in Requests
        /\ SeesMember(x) /\ SeesAsset(x)
    BY <1>2 DEF MemberInv, TypeInv, SlotsOK, SeenInv
  <1>5. SeesMember(x)' /\ SeesAsset(x)'
    BY <1>4, StillSeen
  <1>6. SeesMember(y)' /\ SeesAsset(y)'
    <2>1. CASE Keeps(r)
      <3>1. /\ y.q = x.q /\ y.seen = x.seen /\ y.labels = x.labels
            /\ y.pc = x.pc \/ {x.pc, y.pc} \subseteq Settled
        BY <1>2, <1>3, <2>1 DEF Keeps
      <3>2. /\ y.pc \in Settled <=> x.pc \in Settled
            /\ y.pc = "tags" <=> x.pc = "tags"
        BY <3>1 DEF Settled
      <3>3. SeesMember(y)'
        BY <1>5, <3>1, <3>2 DEF SeesMember
      <3>4. SeesAsset(y)'
        BY <1>5, <3>1, <3>2 DEF SeesAsset
      <3> QED BY <3>3, <3>4
    <2>2. CASE Begins(r)
      <3>1. \/ y.pc \in {"free", "read"}
            \/ y.pc \in {"run", "resolve"} /\ y.q.op \notin ReadFirst
        BY <1>3, <2>2 DEF Begins
      <3> QED BY <3>1 DEF SeesMember, SeesAsset, Settled, ReadFirst, AssetOps
    <2>3. CASE SeesARow(r)
      <3>1. /\ y.q = x.q /\ x.q \in Requests /\ UNCHANGED <<members, trail, assets>>
            /\ \/ /\ y.pc = "again" /\ x.q.op \in {"change", "remove"}
                  /\ y.seen = members[x.q.space][x.q.target]
               \/ /\ y.pc = "tags" /\ x.q.op \in AssetOps
                  /\ assets[x.q.asset] # NoAsset
                  /\ y.seen.version = assets[x.q.asset].version
               \/ /\ x.pc = "tags" /\ y.pc = "again" /\ y.seen = x.seen
                  /\ y.labels = assets[x.q.asset].labels
        BY <1>2, <1>3, <2>3 DEF SeesARow
      <3>2. CASE /\ y.pc = "again" /\ x.q.op \in {"change", "remove"}
                 /\ y.seen = members[x.q.space][x.q.target]
        <4>1. PICK s \in Spaces, u \in Users : s = x.q.space /\ u = x.q.target
          BY <3>1, SpaceRequestsAssumption
        <4>2. members[s][u] \in Membership /\ members[s][u].born <= Len(trail)
          BY DEF MemberInv, TypeInv, MembersOK, TrailInv, MemberTold
        <4>3. members[s][u].version \in Nat
          BY <4>2 DEF Membership
        <4>4. SeesMember(y)'
          BY <3>1, <3>2, <4>1, <4>2, <4>3 DEF SeesMember
        <4>5. SeesAsset(y)'
          BY <3>1, <3>2 DEF SeesAsset, AssetOps
        <4> QED BY <4>4, <4>5
      <3>3. CASE /\ y.pc = "tags" /\ x.q.op \in AssetOps
                 /\ assets[x.q.asset] # NoAsset
                 /\ y.seen.version = assets[x.q.asset].version
        <4>1. PICK a \in Ids : a = x.q.asset
          BY <3>1, InitialAssetsAssumption
        <4>2. assets[a].version \in Nat
          BY <3>3, <4>1 DEF MemberInv, TypeInv, AssetsOK, Asset
        <4>3. SeesAsset(y)'
          BY <3>1, <3>3, <4>1, <4>2 DEF SeesAsset
        <4>4. SeesMember(y)'
          BY <3>3 DEF SeesMember, Settled
        <4> QED BY <4>3, <4>4
      <3>4. CASE /\ x.pc = "tags" /\ y.pc = "again" /\ y.seen = x.seen
                 /\ y.labels = assets[x.q.asset].labels
        <4>1. x.q.op \in AssetOps
          BY <1>4, <3>4 DEF SeesAsset
        <4>2. /\ assets[x.q.asset] # NoAsset
              /\ assets[x.q.asset].version >= x.seen.version
          BY <1>4, <3>4, <4>1 DEF SeesAsset
        <4>3. SeesAsset(y)'
          BY <3>1, <3>4, <4>2 DEF SeesAsset
        <4>4. SeesMember(y)'
          BY <3>1, <4>1 DEF SeesMember, AssetOps
        <4> QED BY <4>3, <4>4
      <3> QED BY <3>1, <3>2, <3>3, <3>4
    <2> QED BY <2>1, <2>2, <2>3, SlotMoves
  <1> QED BY <1>3, <1>6

\* Who changes a row while request r ends is request r.
LEMMA OwnStep ==
    ASSUME MemberInv, [Next]_vars, NEW r \in Slots, slot[r].pc = "run",
           slot'[r].pc = "free", members' # members \/ assets' # assets
    PROVE  Commit(r)
  <1>1. ASSUME NEW x \in Slots, Commit(x) PROVE Commit(r)
    BY <1>1, CommitMoves
  <1>2. ASSUME \/ \E x \in Slots :
                    \/ \E q \in Requests : Arrive(x, q)
                    \/ ArriveAgain(x) \/ Returns(x) \/ ListMembers(x)
               \/ \E u \in Users : Login(u),
               UNCHANGED assetVars
        PROVE  FALSE
    BY <1>2 DEF assetVars, Arrive, ArriveAgain, Returns, ListMembers, Login
  <1>3. ASSUME \/ \E x \in Slots :
                    GetRow(x) \/ GetTags(x) \/ ResolveAuthorizationPrincipal(x)
               \/ CredentialStep
               \/ \E q \in Listings : ListBegin(q)
               \/ ListPage \/ ListRows \/ ListTags \/ ListEnd
               \/ UNCHANGED vars
        PROVE  FALSE
    BY <1>3, CredentialFrame DEF GetRow, GetTags, ResolveAuthorizationPrincipal, ListBegin,
                ListPage, ListRows, ListTags, ListEnd, vars, spaceVars, assetVars
  <1>4. \/ \E x \in Slots : Commit(x)
        \/ /\ \/ \E x \in Slots :
                    \/ \E q \in Requests : Arrive(x, q)
                    \/ ArriveAgain(x) \/ Returns(x) \/ ListMembers(x)
              \/ \E u \in Users : Login(u)
           /\ UNCHANGED assetVars
        \/ \E x \in Slots : GetRow(x) \/ GetTags(x) \/ ResolveAuthorizationPrincipal(x)
        \/ CredentialStep
        \/ \E q \in Listings : ListBegin(q)
        \/ ListPage \/ ListRows \/ ListTags \/ ListEnd
        \/ UNCHANGED vars
    BY DEF Next, CredentialStep, SpacesNext, Commit
  <1> QED BY <1>1, <1>2, <1>3, <1>4

LEMMA StepMeetsSeen ==
    ASSUME MemberInv, SeenInv, [Next]_vars
    PROVE  \A r \in Slots : MemberMeetsSeen(r) /\ AssetMeetsSeen(r)
  <1>1. ASSUME NEW r \in Slots PROVE MemberMeetsSeen(r)
    <2>1. SUFFICES ASSUME Asks(r, "change") \/ Asks(r, "remove"),
                          slot'[r].pc = "free", members' # members,
                          members[slot[r].q.space][slot[r].q.target].born
                            = slot[r].seen.born
                   PROVE  members[slot[r].q.space][slot[r].q.target].role
                            = slot[r].seen.role
      BY DEF MemberMeetsSeen
    <2>2. Commit(r)
      BY <2>1, OwnStep DEF Asks, At
    <2>3. ChangeRoleAudited(r) \/ RemoveMemberAudited(r)
      BY <2>1, <2>2 DEF Commit, CreateAudited, AddMemberAudited, Create, Update, Delete,
                        LinkCredential, UnlinkCredential, Asks
    <2>4. /\ members[slot[r].q.space][slot[r].q.target] # NoMember
          /\ members[slot[r].q.space][slot[r].q.target].version = slot[r].seen.version
      BY <2>3 DEF ChangeRoleAudited, RemoveMemberAudited
    <2>5. slot[r].pc \in Settled /\ slot[r].q.op \in {"change", "remove"}
      BY <2>1 DEF Asks, At, Settled
    <2> QED BY <2>1, <2>4, <2>5 DEF SeenInv, SeesMember
  <1>2. ASSUME NEW r \in Slots PROVE AssetMeetsSeen(r)
    <2>1. SUFFICES ASSUME Asks(r, "asset_update") \/ Asks(r, "asset_delete"),
                          slot'[r].pc = "free", assets' # assets
                   PROVE  assets[slot[r].q.asset].labels = slot[r].labels
      BY DEF AssetMeetsSeen, Request
    <2>2. Commit(r)
      BY <2>1, OwnStep DEF Asks, At
    <2>3. Update(r) \/ Delete(r)
      BY <2>1, <2>2 DEF Commit, CreateAudited, AddMemberAudited, ChangeRoleAudited,
                        RemoveMemberAudited, Create, LinkCredential, UnlinkCredential,
                        Asks
    <2>4. assets[slot[r].q.asset].version = slot[r].seen.version
      BY <2>3 DEF Update, Delete, CurrentVersion, Request
    <2>5. slot[r].pc \in Settled /\ slot[r].q.op \in AssetOps
      BY <2>1 DEF Asks, At, Settled, AssetOps
    <2>6. slot[r].pc # "tags"
      BY <2>1 DEF Asks, At
    <2> QED BY <2>4, <2>5, <2>6 DEF SeenInv, SeesAsset
  <1> QED BY <1>1, <1>2

LEMMA SeenBegins == ASSUME Init PROVE SeenInv
  <1>1. \A r \in Slots : slot[r].pc = "free"
    BY FreeType DEF Init, SpacesInit
  <1> QED BY <1>1 DEF SeenInv, SeesMember, SeesAsset, Settled

\* However many clients change members and assets at once, a transaction that goes
\* through meets the role or the tags that its client saw, or the membership was
\* made again meanwhile: the version column guards both, although an asset's row
\* and its tags are read in two statements (ChangeRoleAudited,
\* RemoveMemberAudited, Update and Delete with the expected version).
THEOREM ChangesMeetWhatWasSeen == Spec => ChangeMeetsSeen
  <1>1. Init => SeenInv
    BY SeenBegins
  <1>2. MemberInv /\ TrailInv /\ SeenInv /\ [Next]_vars => SeenInv'
    BY SeenStep
  <1>3. MemberInv /\ SeenInv /\ [Next]_vars
          => [\A r \in Slots : MemberMeetsSeen(r) /\ AssetMeetsSeen(r)]_vars
    BY StepMeetsSeen
  <1> QED BY <1>1, <1>2, <1>3, TrailTold, PTL DEF Spec, ChangeMeetsSeen

-----------------------------------------------------------------------------
(***************************************************************************)
(* Sequences in increasing order.                                          *)
(***************************************************************************)
Up(s) == \A i, j \in 1..Len(s) : i < j => s[i] < s[j]

LEMMA InRange ==
    ASSUME NEW s \in Seq(Nat)
    PROVE  /\ \A x : x \in Range(s) <=> \E i \in 1..Len(s) : x = s[i]
           /\ Range(s) \subseteq Nat
  BY DEF Range

\* Equally many ranks as elements, and no two elements of one rank: every rank is
\* taken, and InOrder finds an element for each place.
LEMMA InOrderIs ==
    ASSUME NEW S \in SUBSET Nat, IsFiniteSet(S), NEW s, s = InOrder(S)
    PROVE  s \in Seq(Nat) /\ Len(s) = Cardinality(S) /\ Up(s) /\ Range(s) = S
  <1> DEFINE Below(i) == {j \in S : j < i}
             rank == [i \in S |-> Cardinality(Below(i))]
  <1>1. PICK n \in Nat : n = Cardinality(S)
    BY FS_CardinalityType
  <1>2. ASSUME NEW i \in S
        PROVE  /\ IsFiniteSet(Below(i)) /\ Cardinality(Below(i)) \in Nat
               /\ Cardinality(Below(i)) < n
    <2>1. Below(i) \in SUBSET S /\ i \notin Below(i)
      OBVIOUS
    <2>2. PICK B : B = Below(i)
      OBVIOUS
    <2>3. B \in SUBSET S /\ B # S
      BY <2>1, <2>2
    <2>4. IsFiniteSet(B) /\ Cardinality(B) <= n /\ (n = Cardinality(B) => S = B)
      BY <1>1, <2>3, FS_Subset
    <2>5. Cardinality(B) \in Nat
      BY <2>4, FS_CardinalityType
    <2> QED BY <2>2, <2>3, <2>4, <2>5
  <1>3. ASSUME NEW i \in S, NEW j \in S, i < j
        PROVE  Cardinality(Below(i)) < Cardinality(Below(j))
    <2>1. PICK B, C : B = Below(i) /\ C = Below(j)
      OBVIOUS
    <2>2. B \in SUBSET C /\ B # C
      <3>1. i \in Nat /\ j \in Nat /\ S \subseteq Nat
        OBVIOUS
      <3>2. i \in C /\ i \notin B
        BY <1>3, <2>1, <3>1
      <3>3. \A k \in B : k \in C
        BY <1>3, <2>1, <3>1
      <3> QED BY <3>2, <3>3
    <2>3. IsFiniteSet(C) /\ Cardinality(B) \in Nat /\ Cardinality(C) \in Nat
      BY <1>2, <2>1
    <2>4. Cardinality(B) <= Cardinality(C) /\ (Cardinality(C) = Cardinality(B) => C = B)
      BY <2>2, <2>3, FS_Subset
    <2> QED BY <2>1, <2>2, <2>3, <2>4
  <1>4. rank \in Surjection(S, 0..(n - 1))
    <2>1. rank \in [S -> 0..(n - 1)]
      BY <1>2
    <2>2. ASSUME NEW i \in S, NEW j \in S, rank[i] = rank[j] PROVE i = j
      BY <1>2, <1>3, <2>2
    <2> HIDE DEF rank
    <2>3. rank \in Injection(S, 0..(n - 1))
      BY <2>1, <2>2 DEF Injection, IsInjective
    <2>4. IsFiniteSet(0..(n - 1)) /\ Cardinality(0..(n - 1)) = n
      BY FS_Interval
    <2>5. PICK T : T = 0..(n - 1)
      OBVIOUS
    <2> QED BY <1>1, <2>3, <2>4, <2>5, FS_Injection
  <1>5. s = [k \in 1..n |-> CHOOSE i \in S : Cardinality(Below(i)) = k - 1]
    BY <1>1 DEF InOrder
  <1>6. ASSUME NEW k \in 1..n PROVE s[k] \in S /\ Cardinality(Below(s[k])) = k - 1
    <2>1. k - 1 \in 0..(n - 1)
      OBVIOUS
    <2>2. PICK i \in S : rank[i] = k - 1
      <3> HIDE DEF rank
      <3> QED BY <1>4, <2>1 DEF Surjection
    <2>3. Cardinality(Below(i)) = k - 1
      BY <2>2
    <2> QED BY <1>5, <2>3
  <1> HIDE DEF Below
  <1>7. s \in Seq(Nat) /\ Len(s) = n
    <2>1. s \in [1..n -> Nat]
      BY <1>5, <1>6
    <2> QED BY <2>1
  <1>8. Up(s)
    <2>1. SUFFICES ASSUME NEW i \in 1..n, NEW j \in 1..n, i < j PROVE s[i] < s[j]
      BY <1>7 DEF Up
    <2>2. s[i] \in Nat /\ s[j] \in Nat /\ s[i] \in S /\ s[j] \in S
      BY <1>6
    <2>3. Cardinality(Below(s[i])) = i - 1 /\ Cardinality(Below(s[j])) = j - 1
      BY <1>6
    <2>4. CASE s[j] < s[i]
      BY <1>3, <2>1, <2>2, <2>3, <2>4
    <2>5. CASE s[j] = s[i]
      BY <2>1, <2>3, <2>5
    <2> QED BY <2>2, <2>4, <2>5
  <1>9. ASSUME NEW x \in S PROVE \E k \in 1..n : x = s[k]
    <2>1. PICK k \in 1..n : k = Cardinality(Below(x)) + 1
      BY <1>2
    <2>2. s[k] \in S /\ Cardinality(Below(s[k])) = Cardinality(Below(x))
      BY <1>2, <1>6, <2>1
    <2>3. x \in Nat /\ s[k] \in Nat /\ Cardinality(Below(x)) \in Nat
      BY <1>2, <2>2
    <2>4. ~(x < s[k]) /\ ~(s[k] < x)
      BY <1>3, <2>2, <2>3
    <2> QED BY <2>3, <2>4
  <1>10. Range(s) = S
    <2>1. \A x : x \in Range(s) <=> \E k \in 1..n : x = s[k]
      BY <1>7, InRange
    <2> QED BY <1>6, <1>9, <2>1
  <1> QED BY <1>1, <1>7, <1>8, <1>10

\* p is the first m of s.
First(s, m, p) ==
    /\ p \in Seq(Nat) /\ Len(p) = m /\ Up(p)
    /\ \A i \in 1..m : p[i] = s[i]
    /\ Range(p) \subseteq Range(s)

LEMMA FirstOf ==
    ASSUME NEW s \in Seq(Nat), Up(s), NEW m \in 0..Len(s), NEW p, p = SubSeq(s, 1, m)
    PROVE  First(s, m, p)
  <1>1. p \in Seq(Nat) /\ Len(p) = m /\ \A i \in 1..m : p[i] = s[i]
    OBVIOUS
  <1>2. Up(p)
    BY <1>1 DEF Up
  <1>3. Range(p) \subseteq Range(s)
    <2>1. \A x : x \in Range(p) <=> \E i \in 1..m : x = p[i]
      <3>1. \A x : x \in Range(p) <=> \E i \in 1..Len(p) : x = p[i]
        BY <1>1, InRange, Zenon
      <3> QED BY <1>1, <3>1
    <2>2. \A x : x \in Range(s) <=> \E i \in 1..Len(s) : x = s[i]
      BY InRange
    <2> QED BY <1>1, <2>1, <2>2
  <1> QED BY <1>1, <1>2, <1>3 DEF First

Before(s, t) == \A x \in Range(s), y \in Range(t) : x < y

Joined(s, t, u) ==
    /\ u \in Seq(Nat) /\ Len(u) = Len(s) + Len(t) /\ Up(u)
    /\ Range(u) = Range(s) \cup Range(t)
    /\ \A i \in 1..Len(s) : u[i] = s[i]
    /\ \A i \in 1..Len(t) : u[Len(s) + i] = t[i]

LEMMA JoinUp ==
    ASSUME NEW s \in Seq(Nat), NEW t \in Seq(Nat), Up(s), Up(t), Before(s, t),
           NEW u, u = s \o t
    PROVE  Joined(s, t, u)
  <1>1. PICK a \in Nat, b \in Nat : a = Len(s) /\ b = Len(t)
    OBVIOUS
  <1>2. /\ u \in Seq(Nat) /\ Len(u) = a + b
        /\ \A i \in 1..a : u[i] = s[i]
        /\ \A i \in 1..b : u[a + i] = t[i]
    BY <1>1
  <1>3. \A i \in 1..(a + b) : i \in 1..a \/ (\E k \in 1..b : i = a + k)
    <2>1. SUFFICES ASSUME NEW i \in 1..(a + b), i > a PROVE \E k \in 1..b : i = a + k
      OBVIOUS
    <2>2. i - a \in 1..b /\ i = a + (i - a)
      BY <2>1
    <2> QED BY <2>2
  <1>4. Range(u) = Range(s) \cup Range(t)
    <2>1. ASSUME NEW x \in Range(u) PROVE x \in Range(s) \cup Range(t)
      <3>1. PICK i \in 1..(a + b) : x = u[i]
        <4>1. \E i \in 1..Len(u) : x = u[i]
          <5>1. u \in Seq(Nat) /\ x \in Range(u)
            BY <1>2, <2>1, Zenon
          <5> QED BY <5>1, InRange, Zenon
        <4> QED BY <1>2, <4>1
      <3> QED BY <1>1, <1>2, <1>3, <3>1, InRange
    <2>2. ASSUME NEW x \in Range(s) PROVE x \in Range(u)
      <3>1. PICK i \in 1..a : x = s[i]
        BY <1>1, <2>2, InRange
      <3>2. i \in 1..Len(u) /\ x = u[i]
        BY <1>2, <3>1
      <3> QED BY <1>2, <3>2, InRange
    <2>3. ASSUME NEW x \in Range(t) PROVE x \in Range(u)
      <3>1. PICK i \in 1..b : x = t[i]
        BY <1>1, <2>3, InRange
      <3>2. a + i \in 1..Len(u) /\ x = u[a + i]
        BY <1>2, <3>1
      <3> QED BY <1>2, <3>2, InRange
    <2> QED BY <2>1, <2>2, <2>3
  <1>5. Up(u)
    <2>1. SUFFICES ASSUME NEW i \in 1..(a + b), NEW j \in 1..(a + b), i < j
                   PROVE  u[i] < u[j]
      BY <1>2 DEF Up
    <2>2. CASE i \in 1..a /\ j \in 1..a
      BY <1>1, <1>2, <2>1, <2>2 DEF Up
    <2>3. CASE i \in 1..a /\ j \notin 1..a
      <3>1. PICK k \in 1..b : j = a + k
        BY <1>3, <2>3
      <3>2. s[i] \in Range(s) /\ t[k] \in Range(t)
        BY <1>1, <2>3, InRange
      <3>3. s[i] < t[k]
        BY <3>2 DEF Before
      <3> QED BY <1>2, <2>3, <3>1, <3>3
    <2>4. CASE i \notin 1..a
      <3>1. PICK k \in 1..b, m \in 1..b : i = a + k /\ j = a + m
        BY <1>3, <2>1, <2>4
      <3>2. t[k] < t[m]
        BY <1>1, <2>1, <3>1 DEF Up
      <3> QED BY <1>2, <3>1, <3>2
    <2> QED BY <2>2, <2>3, <2>4
  <1> QED BY <1>1, <1>2, <1>4, <1>5 DEF Joined

-----------------------------------------------------------------------------
(***************************************************************************)
(* Listings.                                                               *)
(***************************************************************************)
Reading == {"scan", "tags"}
ListRec == [pc : {"off", "page", "done"} \cup Reading, q : Listings \cup {NoRequest},
            cursor : Nat, after : Nat, scanned : Nat, rows : Seq(Nat), acc : Seq(Nat),
            got : Seq(Nat), stable : SUBSET Nat]
Batch(l) == Min({ListScanBatch, MaxListScan - l.scanned})

\* What a listing l has found so far is in order: the pages before end at the
\* cursor, this page has come as far as after, and the batch lies beyond.
Ordered(l) ==
    /\ Up(l.got) /\ Up(l.acc) /\ Up(l.rows)
    /\ l.pc # "done" => \A x \in Range(l.got) : x <= l.cursor
    /\ l.pc \in Reading =>
         /\ l.cursor <= l.after /\ l.scanned < MaxListScan /\ Len(l.acc) <= Limit
         /\ \A x \in Range(l.acc) : l.cursor < x /\ x <= l.after
    /\ l.pc = "tags" => \A x \in Range(l.rows) : l.after < x

\* Nothing that was there all the time has been passed over.
Covers(l) ==
    /\ l.pc # "done" => \A x \in l.stable : x <= l.cursor => x \in Range(l.got)
    /\ l.pc \in Reading =>
         \A x \in l.stable : l.cursor < x /\ x <= l.after => x \in Range(l.acc)
    /\ l.pc = "tags" =>
         \A x \in l.stable : l.after < x =>
           \/ x \in Range(l.rows)
           \/ Len(l.rows) >= Batch(l) /\ \A y \in Range(l.rows) : y < x
    /\ l.pc = "done" => l.stable \subseteq Range(l.got)

OneSpace(l) ==
    l.pc # "off" /\ l.q.what = "links" =>
      \A c \in Range(l.got) \cup Range(l.acc) \cup Range(l.rows) :
        CredentialSpace[c] = l.q.space

ListOK(l) == l \in ListRec /\ Ordered(l) /\ Covers(l) /\ OneSpace(l)

LEMMA BatchIs ==
    ASSUME NEW l \in ListRec, l.scanned < MaxListScan
    PROVE  Batch(l) \in Nat \ {0}
  <1>1. PICK a \in Nat \ {0}, b \in Nat \ {0} :
          a = ListScanBatch /\ b = MaxListScan - l.scanned
    <2>1. l.scanned \in Nat /\ MaxListScan \in Nat /\ ListScanBatch \in Nat \ {0}
      BY ListingsAssumption DEF ListRec
    <2> QED BY <2>1
  <1>2. \E x \in {a, b} : \A y \in {a, b} : x =< y
    OBVIOUS
  <1> QED BY <1>1, <1>2 DEF Batch, Min

LEMMA MinOf ==
    ASSUME NEW a \in Int, NEW b \in Int
    PROVE  Min({a, b}) = IF a <= b THEN a ELSE b
  <1>1. \E x \in {a, b} : \A y \in {a, b} : x =< y
    OBVIOUS
  <1> QED BY <1>1 DEF Min

\* The empty batch and the empty page.
LEMMA NothingIn == <<>> \in Seq(Nat) /\ Up(<<>>) /\ Range(<<>>) = {} /\ Len(<<>>) = 0
  BY DEF Up, Range

LEMMA OffOK == ListOK(NotListing)
  <1>1. NotListing \in ListRec
    BY NothingIn DEF NotListing, ListRec, Reading
  <1>2. Ordered(NotListing) /\ Covers(NotListing) /\ OneSpace(NotListing)
    BY NothingIn DEF NotListing, Ordered, Covers, OneSpace, Reading
  <1> QED BY <1>1, <1>2 DEF ListOK

\* Others change the tables: less may be expected of the listing.
LEMMA StillOK ==
    ASSUME NEW l, ListOK(l), NEW T, NEW m, m = [l EXCEPT !.stable = @ \cap T]
    PROVE  ListOK(m)
  <1>1. /\ m \in ListRec /\ m.stable \subseteq l.stable /\ m.pc = l.pc /\ m.q = l.q
        /\ m.cursor = l.cursor /\ m.after = l.after /\ m.scanned = l.scanned
        /\ m.rows = l.rows /\ m.acc = l.acc /\ m.got = l.got
    BY DEF ListOK, ListRec
  <1>2. Batch(m) = Batch(l)
    BY <1>1 DEF Batch
  <1>3. Ordered(m)
    BY <1>1 DEF ListOK, Ordered
  <1>4. Covers(m)
    BY <1>1, <1>2 DEF ListOK, Covers
  <1>5. OneSpace(m)
    BY <1>1 DEF ListOK, OneSpace
  <1> QED BY <1>1, <1>3, <1>4, <1>5 DEF ListOK

LEMMA BeginOK ==
    ASSUME NEW q \in Listings, NEW T \in SUBSET (Nat \ {0}),
           NEW m, m = [NotListing EXCEPT !.pc = "page", !.q = q, !.stable = T]
    PROVE  ListOK(m)
  <1>1. /\ m.stable = T /\ m.pc = "page" /\ m.q = q
        /\ m.cursor = 0 /\ m.after = 0 /\ m.scanned = 0
        /\ m.rows = <<>> /\ m.acc = <<>> /\ m.got = <<>>
    BY DEF NotListing
  <1>2. m \in ListRec
    BY NothingIn DEF NotListing, ListRec, Reading
  <1>3. Ordered(m) /\ Covers(m) /\ OneSpace(m)
    BY <1>1, NothingIn DEF Ordered, Covers, OneSpace, Reading
  <1> QED BY <1>2, <1>3 DEF ListOK

LEMMA PageOK ==
    ASSUME NEW l, ListOK(l), l.pc = "page",
           NEW m, m = [l EXCEPT !.pc = "scan", !.after = l.cursor, !.scanned = 0,
                                !.acc = <<>>]
    PROVE  ListOK(m)
  <1>1. /\ m.stable = l.stable /\ m.pc = "scan" /\ m.q = l.q
        /\ m.cursor = l.cursor /\ m.after = l.cursor /\ m.scanned = 0
        /\ m.rows = l.rows /\ m.acc = <<>> /\ m.got = l.got /\ m \in ListRec
    BY NothingIn DEF ListOK, ListRec, Reading
  <1>2. /\ l.cursor \in Nat /\ MaxListScan \in Nat \ {0} /\ Limit \in Nat \ {0}
        /\ l.stable \subseteq Nat
    BY ListingsAssumption DEF ListOK, ListRec
  <1>3. Ordered(m)
    BY <1>1, <1>2, NothingIn DEF ListOK, Ordered, Reading
  <1>4. Covers(m)
    BY <1>1, <1>2 DEF ListOK, Covers, Reading
  <1>5. OneSpace(m)
    BY <1>1, NothingIn DEF ListOK, OneSpace
  <1> QED BY <1>1, <1>3, <1>4, <1>5 DEF ListOK

\* p is the first b of a sequence: what is missing comes after them.
Few(s, b, p) ==
    /\ p \in Seq(Nat) /\ Up(p) /\ Range(p) \subseteq Range(s)
    /\ \A x \in Range(s) : x \in Range(p)
                           \/ (Len(p) >= b /\ \A y \in Range(p) : y < x)

LEMMA FirstFew ==
    ASSUME NEW s \in Seq(Nat), Up(s), NEW b \in Nat, NEW p,
           p = SubSeq(s, 1, Min({b, Len(s)}))
    PROVE  Few(s, b, p)
  <1>1. PICK n \in Nat : n = Len(s)
    OBVIOUS
  <1>2. PICK k \in 0..n : k = Min({b, n}) /\ (k = n \/ k = b)
    <2>1. Min({b, n}) = IF b <= n THEN b ELSE n
      BY <1>1, MinOf
    <2> QED BY <1>1, <2>1
  <1>3. p = SubSeq(s, 1, k)
    BY <1>1, <1>2
  <1>4. k \in 0..Len(s)
    BY <1>1, <1>2
  <1>5. /\ p \in Seq(Nat) /\ Len(p) = k /\ Up(p) /\ Range(p) \subseteq Range(s)
        /\ \A i \in 1..k : p[i] = s[i]
    <2>1. First(s, k, p)
      BY <1>3, <1>4, FirstOf, Zenon
    <2> QED BY <2>1, Zenon DEF First
  <1>6. ASSUME NEW x \in Range(s), x \notin Range(p)
        PROVE  Len(p) >= b /\ \A y \in Range(p) : y < x
    <2>1. PICK i \in 1..n : x = s[i]
      BY <1>1, InRange
    <2>2. i > k
      <3>1. i \in 1..k => p[i] \in Range(p)
        BY <1>5, InRange
      <3>2. i \notin 1..k
        BY <1>5, <1>6, <2>1, <3>1, Zenon
      <3>3. k \in Nat /\ i \in Nat \ {0}
        BY <1>1, <1>2, <2>1
      <3> QED BY <3>2, <3>3
    <2>3. k = b
      BY <1>2, <2>1, <2>2
    <2>4. ASSUME NEW y \in Range(p) PROVE y < x
      <3>1. PICK j \in 1..k : y = p[j]
        <4>1. \E j \in 1..Len(p) : y = p[j]
          BY <1>5, <2>4, InRange, Zenon
        <4> QED BY <1>5, <4>1
      <3>2. y = s[j]
        BY <1>5, <3>1, Zenon
      <3>3. j < i /\ j \in 1..n /\ i \in 1..n
        BY <1>1, <1>2, <2>1, <2>2, <3>1
      <3>4. s[j] < s[i]
        BY <1>1, <3>3 DEF Up
      <3> QED BY <2>1, <3>2, <3>4
    <2>5. Len(p) >= b
      <3>1. Len(p) = b
        BY <1>5, <2>3, Zenon
      <3>2. b >= b
        OBVIOUS
      <3> QED BY <3>1, <3>2, Zenon
    <2> QED BY <2>4, <2>5
  <1> QED BY <1>5, <1>6 DEF Few

\* A batch p of the rows T beyond the place reached so far.
LEMMA BatchOK ==
    ASSUME NEW l, ListOK(l), l.pc = "scan", NEW T \in SUBSET Nat,
           \A x \in T : x > l.after, \A x \in l.stable : x > l.after => x \in T,
           l.q.what = "links" => \A c \in T : CredentialSpace[c] = l.q.space,
           NEW p \in Seq(Nat), Up(p), Range(p) \subseteq T,
           \A x \in T : x \in Range(p)
                        \/ (Len(p) >= Batch(l) /\ \A y \in Range(p) : y < x),
           NEW m, m = [l EXCEPT !.pc = "tags", !.rows = p]
    PROVE  ListOK(m)
  <1>1. /\ m.stable = l.stable /\ m.pc = "tags" /\ m.q = l.q
        /\ m.cursor = l.cursor /\ m.after = l.after /\ m.scanned = l.scanned
        /\ m.rows = p /\ m.acc = l.acc /\ m.got = l.got /\ m \in ListRec
    BY DEF ListOK, ListRec, Reading
  <1>2. Batch(m) = Batch(l)
    BY <1>1 DEF Batch
  <1>3. Ordered(m)
    BY <1>1 DEF ListOK, Ordered, Reading
  <1>4. Covers(m)
    BY <1>1, <1>2 DEF ListOK, Covers, Reading
  <1>5. OneSpace(m)
    BY <1>1 DEF ListOK, OneSpace
  <1> QED BY <1>1, <1>3, <1>4, <1>5 DEF ListOK

\* The end of a batch: V are the rows of it that may be seen.
Found(l, V) ==
    LET visible == InOrder(V)
        room == Limit + 1 - Len(l.acc)
    IN  l.acc \o SubSeq(visible, 1, Min({room, Len(visible)}))
Full(l, V) == Len(InOrder(V)) >= Limit + 1 - Len(l.acc)
Reached(l, V) ==
    IF Full(l, V) THEN Last(Found(l, V))
    ELSE IF l.rows = <<>> THEN l.after ELSE Last(l.rows)

\* What is found is in order and lies between the cursor and the place reached,
\* and up to that place everything is found.
LEMMA FoundOK ==
    ASSUME NEW l, ListOK(l), l.pc = "tags", NEW V \in SUBSET Range(l.rows), IsFiniteSet(V),
           \A x \in l.stable : x \in Range(l.rows) => x \in V,
           NEW acc, acc = Found(l, V), NEW after, after = Reached(l, V)
    PROVE  /\ acc \in Seq(Nat) /\ Up(acc) /\ after \in Nat /\ l.after <= after
           /\ Range(acc) \subseteq Range(l.acc) \cup Range(l.rows)
           /\ \A x \in Range(acc) : l.cursor < x /\ x <= after
           /\ \A x \in l.stable : l.cursor < x /\ x <= after => x \in Range(acc)
           /\ Full(l, V) => Len(acc) = Limit + 1
           /\ ~Full(l, V) => Len(acc) <= Limit
           /\ ~Full(l, V) /\ Len(l.rows) > 0 => l.after < after
           /\ ~Full(l, V) /\ Len(l.rows) < Batch(l) =>
                \A x \in l.stable : l.cursor < x => x \in Range(acc)
  <1>1. /\ l.rows \in Seq(Nat) /\ l.acc \in Seq(Nat) /\ l.after \in Nat /\ l.cursor \in Nat
        /\ l.stable \subseteq Nat /\ Limit \in Nat \ {0} /\ Up(l.acc) /\ Up(l.rows)
        /\ l.cursor <= l.after /\ Len(l.acc) <= Limit /\ Batch(l) \in Nat \ {0}
        /\ \A x \in Range(l.acc) : l.cursor < x /\ x <= l.after
        /\ \A x \in Range(l.rows) : l.after < x
    <2>1. l \in ListRec /\ Ordered(l)
      BY DEF ListOK
    <2>2. Batch(l) \in Nat \ {0}
      BY <2>1, BatchIs DEF Ordered, Reading
    <2> QED BY <2>1, <2>2, ListingsAssumption DEF ListRec, Ordered, Reading
  <1>2. /\ \A x \in l.stable : l.cursor < x /\ x <= l.after => x \in Range(l.acc)
        /\ \A x \in l.stable : l.after < x =>
              \/ x \in Range(l.rows)
              \/ Len(l.rows) >= Batch(l) /\ \A y \in Range(l.rows) : y < x
    BY DEF ListOK, Covers, Reading
  <1>3. PICK v : v = InOrder(V)
    OBVIOUS
  <1>4. V \subseteq Nat /\ Range(l.rows) \subseteq Nat /\ Range(l.acc) \subseteq Nat
    BY <1>1, InRange
  <1>5. v \in Seq(Nat) /\ Up(v) /\ Range(v) = V /\ Len(v) = Cardinality(V)
    BY <1>3, <1>4, InOrderIs
  <1>20. PICK s \in Seq(Nat), t \in Seq(Nat) : s = l.acc /\ t = l.rows
    BY <1>1
  <1>21. PICK a \in Nat, c \in Nat, n \in Nat : a = Len(s) /\ c = Len(v) /\ n = Len(t)
    BY <1>5, <1>20
  <1>22. a <= Limit
    BY <1>1, <1>20, <1>21
  <1>6. PICK room \in Nat \ {0} : room = Limit + 1 - a
    BY <1>1, <1>22
  <1>7. PICK k \in 0..c : k = Min({room, c}) /\ k = (IF room <= c THEN room ELSE c)
    <2>1. room \in Int /\ c \in Int
      BY <1>6, <1>21
    <2>2. Min({room, c}) = IF room <= c THEN room ELSE c
      BY <2>1, MinOf
    <2> QED BY <1>6, <1>21, <2>2
  <1>8. PICK p : p = SubSeq(v, 1, k)
    OBVIOUS
  <1>9. /\ p \in Seq(Nat) /\ Len(p) = k /\ Up(p) /\ Range(p) \subseteq V
        /\ \A i \in 1..k : p[i] = v[i]
    <2>1. k \in 0..Len(v)
      BY <1>7, <1>21
    <2>2. First(v, k, p)
      BY <1>5, <1>8, <2>1, FirstOf, Zenon
    <2> QED BY <1>5, <2>2, Zenon DEF First
  <1>10. acc = s \o p
    BY <1>3, <1>6, <1>7, <1>8, <1>20, <1>21 DEF Found
  <1>11. Full(l, V) <=> c >= room
    BY <1>3, <1>6, <1>20, <1>21 DEF Full
  <1>12. \A x \in Range(l.acc), y \in Range(p) : x < y
    <2>1. SUFFICES ASSUME NEW x \in Range(l.acc), NEW y \in Range(p) PROVE x < y
      OBVIOUS
    <2>2. x \in Nat /\ y \in Nat /\ y \in Range(l.rows)
      BY <1>4, <1>9
    <2> QED BY <1>1, <2>2
  <1>13. /\ acc \in Seq(Nat) /\ Len(acc) = a + k /\ Up(acc)
         /\ Range(acc) = Range(l.acc) \cup Range(p)
         /\ \A i \in 1..k : acc[a + i] = p[i]
    <2>1. Up(s) /\ \A x \in Range(s), y \in Range(p) : x < y
      BY <1>1, <1>12, <1>20
    <2>2. /\ acc \in Seq(Nat) /\ Len(acc) = Len(s) + Len(p) /\ Up(acc)
          /\ Range(acc) = Range(s) \cup Range(p)
          /\ \A i \in 1..Len(p) : acc[Len(s) + i] = p[i]
      <3>1. s \in Seq(Nat) /\ p \in Seq(Nat) /\ Up(p)
        BY <1>9, <1>20
      <3>2. Before(s, p)
        BY <2>1 DEF Before
      <3>3. Up(s)
        BY <2>1
      <3>4. s \in Seq(Nat) /\ p \in Seq(Nat) /\ Up(s) /\ Up(p) /\ Before(s, p)
        BY <3>1, <3>2, <3>3
      <3>5. Joined(s, p, acc)
        BY <1>10, <3>4, JoinUp, Zenon
      <3> QED BY <3>5, Zenon DEF Joined
    <2> QED BY <1>9, <1>20, <1>21, <2>2
  <1>14. Range(acc) \subseteq Range(l.acc) \cup Range(l.rows)
    BY <1>9, <1>13
  <1>15. \A x \in Range(acc) : l.cursor < x
    <2>1. SUFFICES ASSUME NEW x \in Range(acc) PROVE l.cursor < x
      OBVIOUS
    <2>2. CASE x \in Range(l.acc)
      BY <1>1, <2>2
    <2>3. CASE x \in Range(l.rows)
      <3>1. x \in Nat /\ l.after < x
        BY <1>1, <1>4, <2>3
      <3> QED BY <1>1, <3>1
    <2> QED BY <1>14, <2>2, <2>3
  <1>16. CASE Full(l, V)
    <2>1. k = room /\ Len(acc) = Limit + 1 /\ k \in Nat \ {0}
      <3>1. c >= room
        BY <1>11, <1>16, Zenon
      <3>2. k = room
        BY <1>6, <1>7, <1>21, <3>1
      <3>3. a + k = Limit + 1
        <4>1. a \in Nat /\ Limit \in Nat /\ room = Limit + 1 - a
          BY <1>1, <1>6, <1>21
        <4> QED BY <3>2, <4>1
      <3> QED BY <1>6, <1>13, <3>2, <3>3, Zenon
    <2>2. after = acc[Limit + 1] /\ Limit + 1 = a + k
      <3>1. after = acc[Limit + 1]
        BY <1>16, <2>1 DEF Reached, Last
      <3> QED BY <1>1, <1>6, <2>1, <3>1
    <2>3. after = p[k] /\ after = v[k] /\ k \in 1..Len(v)
      <3>1. k \in 1..k
        BY <2>1
      <3>2. k \in 1..c
        BY <1>7, <1>21, <2>1
      <3> QED BY <1>9, <1>13, <1>21, <2>2, <3>1, <3>2, Zenon
    <2>4. after \in V /\ after \in Range(l.rows) /\ after \in Nat /\ l.after < after
      <3>1. v[k] \in Range(v)
        BY <1>5, <2>3, InRange
      <3>2. after \in V
        BY <1>5, <2>3, <3>1
      <3> QED BY <1>1, <1>4, <3>2
    <2>5. ASSUME NEW x \in Range(acc) PROVE x <= after
      <3>1. PICK i \in 1..(Limit + 1) : x = acc[i]
        <4>1. \E i \in 1..Len(acc) : x = acc[i]
          BY <1>13, <2>5, InRange, Zenon
        <4> QED BY <2>1, <4>1
      <3>2. i = Limit + 1 \/ acc[i] < acc[Limit + 1]
        <4>1. Up(acc) /\ Len(acc) = Limit + 1 /\ Limit \in Nat
          BY <1>1, <1>13, <2>1
        <4>2. \A e, f \in 1..(Limit + 1) : e < f => acc[e] < acc[f]
          BY <4>1 DEF Up
        <4> QED BY <3>1, <4>1, <4>2
      <3>3. x \in Nat
        BY <1>13, <2>5, InRange
      <3> QED BY <2>2, <2>4, <3>1, <3>2, <3>3
    <2>6. ASSUME NEW x \in l.stable, l.cursor < x, x <= after PROVE x \in Range(acc)
      <3>1. CASE x <= l.after
        BY <1>2, <1>13, <2>6, <3>1
      <3>2. CASE l.after < x
        <4>1. x \in Range(l.rows)
          <5>1. x \in Nat
            BY <1>1
          <5>2. ~(after < x)
            BY <2>4, <2>6, <5>1
          <5> QED BY <1>2, <2>4, <3>2, <5>2
        <4>2. PICK i \in 1..Len(v) : x = v[i]
          <5>1. x \in Range(v)
            BY <1>5, <4>1
          <5> QED BY <1>5, <5>1, InRange
        <4>3. i <= k
          <5>1. SUFFICES ASSUME i > k PROVE FALSE
            BY <1>7
          <5>2. v[k] < v[i]
            BY <1>5, <2>3, <4>2, <5>1 DEF Up
          <5>3. x \in Nat
            BY <1>1
          <5> QED BY <2>3, <2>4, <2>6, <4>2, <5>2, <5>3
        <4>4. x = p[i] /\ i \in 1..Len(p)
          BY <1>9, <4>2, <4>3
        <4>5. x \in Range(p)
          BY <1>9, <4>4, InRange
        <4> QED BY <1>13, <4>5
      <3>3. x \in Nat
        BY <1>1
      <3> QED BY <1>1, <3>1, <3>2, <3>3
    <2> QED BY <1>1, <1>13, <1>14, <1>15, <1>16, <2>1, <2>4, <2>5, <2>6
  <1>17. CASE ~Full(l, V)
    <2>1. k = Len(v) /\ Len(acc) <= Limit
      <3>1. k = c /\ c < room
        BY <1>6, <1>7, <1>11, <1>17
      <3>2. a + k <= Limit
        BY <1>1, <1>6, <1>22, <3>1
      <3> QED BY <1>13, <1>21, <3>1, <3>2
    <2>2. Range(p) = V
      <3>1. ASSUME NEW x \in V PROVE x \in Range(p)
        <4>1. PICK i \in 1..Len(v) : x = v[i]
          BY <1>5, <3>1, InRange
        <4>2. i \in 1..Len(p) /\ x = p[i]
          BY <1>9, <2>1, <4>1
        <4> QED BY <1>9, <4>2, InRange
      <3> QED BY <1>9, <3>1
    <2>3. /\ after \in Nat /\ l.after <= after
          /\ Len(l.rows) > 0 => l.after < after
          /\ \A x \in Range(l.rows) : x <= after
          /\ after \in Range(l.rows) \/ after = l.after
      <3>1. CASE l.rows = <<>>
        <4>1. after = l.after
          BY <1>17, <3>1 DEF Reached
        <4>2. Len(l.rows) = 0 /\ Range(l.rows) = {}
          BY <3>1, NothingIn
        <4> QED BY <1>1, <4>1, <4>2
      <3>2. CASE l.rows # <<>>
        <4>1. n \in Nat \ {0} /\ n = Len(l.rows)
          BY <1>20, <1>21, <3>2
        <4>2. after = l.rows[n]
          BY <1>17, <3>2, <4>1 DEF Reached, Last
        <4>3. after \in Range(l.rows)
          <5>1. n \in 1..Len(l.rows)
            BY <4>1
          <5> QED BY <1>1, <4>2, <5>1, InRange
        <4>4. after \in Nat /\ l.after < after
          BY <1>1, <1>4, <4>3
        <4>5. ASSUME NEW x \in Range(l.rows) PROVE x <= after
          <5>1. PICK i \in 1..Len(l.rows) : x = l.rows[i]
            BY <1>1, <4>5, InRange
          <5>2. i = n \/ l.rows[i] < l.rows[n]
            BY <1>1, <4>1, <5>1 DEF Up
          <5>3. x \in Nat
            BY <1>4
          <5> QED BY <4>2, <4>4, <5>1, <5>2, <5>3
        <4> QED BY <1>1, <4>3, <4>4, <4>5
      <3> QED BY <3>1, <3>2
    <2>4. ASSUME NEW x \in Range(acc) PROVE x <= after
      <3>1. CASE x \in Range(l.acc)
        <4>1. x \in Nat /\ x <= l.after
          BY <1>1, <1>4, <3>1
        <4> QED BY <1>1, <2>3, <4>1
      <3>2. CASE x \in Range(l.rows)
        BY <2>3, <3>2
      <3> QED BY <1>14, <2>4, <3>1, <3>2
    <2>5. ASSUME NEW x \in l.stable, l.cursor < x,
                 x <= after \/ Len(l.rows) < Batch(l)
          PROVE  x \in Range(acc)
      <3>0. x \in Nat
        BY <1>1
      <3>1. CASE x <= l.after
        BY <1>2, <1>13, <2>5, <3>1
      <3>2. CASE l.after < x
        <4>1. x \in Range(l.rows)
          <5>1. CASE Len(l.rows) < Batch(l)
            BY <1>1, <1>2, <3>2, <5>1
          <5>2. CASE x <= after
            <6>1. after \in Range(l.rows)
              BY <1>1, <2>3, <3>0, <3>2, <5>2
            <6>2. ~(after < x)
              BY <2>3, <3>0, <5>2
            <6> QED BY <1>2, <3>2, <6>1, <6>2
          <5> QED BY <2>5, <5>1, <5>2
        <4> QED BY <1>13, <2>2, <4>1
      <3> QED BY <1>1, <3>0, <3>1, <3>2
    <2> QED BY <1>1, <1>13, <1>14, <1>15, <1>17, <2>1, <2>3, <2>4, <2>5
  <1> QED BY <1>16, <1>17

\* The page and the cursor nc that follow from what was found: S, as far as it lies
\* between the old and the new cursor, is on the page.
PageFor(S, acc, after, cur, page, nc) ==
    /\ page \in Seq(Nat) /\ Up(page) /\ Range(page) \subseteq Range(acc)
    /\ nc \in Nat /\ \A x \in Range(page) : cur < x /\ x <= nc
    /\ \A x \in S : cur < x /\ x <= nc => x \in Range(page)
    /\ Len(acc) <= Limit => Range(page) = Range(acc) /\ nc = after
    /\ Len(acc) > Limit => cur < nc

LEMMA PageIs ==
    ASSUME NEW acc \in Seq(Nat), Up(acc), NEW after \in Nat, NEW cur \in Nat,
           NEW S \in SUBSET Nat, \A x \in Range(acc) : cur < x /\ x <= after,
           \A x \in S : cur < x /\ x <= after => x \in Range(acc),
           Len(acc) <= Limit + 1,
           NEW page, page = SubSeq(acc, 1, Min({Limit, Len(acc)})),
           NEW nc, nc = NextCursor(acc, after)
    PROVE  PageFor(S, acc, after, cur, page, nc)
  <1>1. PICK n \in Nat, lim \in Nat \ {0} : n = Len(acc) /\ lim = Limit
    BY ListingsAssumption
  <1>2. PICK k \in 0..n : k = Min({lim, n}) /\ k = (IF lim <= n THEN lim ELSE n)
    <2>1. lim \in Int /\ n \in Int
      BY <1>1
    <2>2. Min({lim, n}) = IF lim <= n THEN lim ELSE n
      BY <2>1, MinOf
    <2> QED BY <1>1, <2>2
  <1>3. n <= lim + 1 /\ Range(acc) \subseteq Nat
    BY <1>1, InRange
  <1>4. page = SubSeq(acc, 1, k)
    BY <1>1, <1>2
  <1>5. k \in 0..Len(acc)
    BY <1>1, <1>2
  <1>6. /\ page \in Seq(Nat) /\ Len(page) = k /\ Up(page)
        /\ Range(page) \subseteq Range(acc) /\ \A i \in 1..k : page[i] = acc[i]
    <2>1. First(acc, k, page)
      BY <1>4, <1>5, FirstOf, Zenon
    <2> QED BY <2>1, Zenon DEF First
  <1>7. CASE n <= lim
    <2>1. k = n
      BY <1>1, <1>2, <1>7
    <2>2. nc = after
      BY <1>1, <1>7 DEF NextCursor
    <2>3. Range(page) = Range(acc)
      <3>1. ASSUME NEW x \in Range(acc) PROVE x \in Range(page)
        <4>1. PICK i \in 1..n : x = acc[i]
          BY <1>1, <3>1, InRange
        <4>2. i \in 1..Len(page) /\ x = page[i]
          BY <1>6, <2>1, <4>1, Zenon
        <4> QED BY <1>6, <4>2, InRange, Zenon
      <3> QED BY <1>6, <3>1
    <2>4. ~(Len(acc) > Limit)
      BY <1>1, <1>7
    <2> QED BY <1>6, <2>2, <2>3, <2>4, Zenon DEF PageFor
  <1>8. CASE n > lim
    <2>1. k = lim /\ n = lim + 1
      BY <1>1, <1>2, <1>3, <1>8
    <2>2. nc = acc[lim] /\ lim \in 1..n
      <3>1. Len(acc) > Limit
        BY <1>1, <1>8
      <3>2. nc = acc[lim]
        BY <1>1, <3>1, Zenon DEF NextCursor
      <3> QED BY <1>1, <2>1, <3>2
    <2>3. nc \in Range(acc) /\ nc \in Nat
      <3>1. nc \in Range(acc)
        BY <1>1, <2>2, InRange
      <3> QED BY <1>3, <3>1
    <2>4. \A e, f \in 1..n : e < f => acc[e] < acc[f]
      BY <1>1 DEF Up
    <2>5. ASSUME NEW x \in Range(page) PROVE x <= nc
      <3>1. PICK i \in 1..k : x = page[i]
        <4>1. \E i \in 1..Len(page) : x = page[i]
          BY <1>6, <2>5, InRange, Zenon
        <4> QED BY <1>6, <4>1, Zenon
      <3>2. x = acc[i] /\ x \in Nat
        <4>1. x = acc[i]
          BY <1>6, <3>1, Zenon
        <4> QED BY <1>3, <1>6, <2>5, <4>1, Zenon
      <3>3. i \in 1..n /\ (i = lim \/ i < lim)
        BY <1>1, <2>1, <3>1
      <3>4. i = lim \/ acc[i] < acc[lim]
        BY <2>2, <2>4, <3>3
      <3> QED BY <2>2, <2>3, <3>2, <3>4
    <2>6. ASSUME NEW x \in S, cur < x, x <= nc PROVE x \in Range(page)
      <3>1. x \in Nat /\ nc <= after
        BY <2>3
      <3>2. x \in Range(acc)
        <4>1. x <= after
          BY <2>3, <2>6, <3>1
        <4> QED BY <2>6, <4>1, Zenon
      <3>3. PICK i \in 1..n : x = acc[i]
        BY <1>1, <3>2, InRange
      <3>4. ~(lim < i)
        <4>1. lim < i => acc[lim] < acc[i]
          BY <2>2, <2>4, <3>3
        <4>2. ~(nc < x)
          BY <2>3, <2>6, <3>1
        <4> QED BY <2>2, <3>3, <4>1, <4>2, Zenon
      <3>5. i \in 1..k
        BY <1>1, <2>1, <3>3, <3>4
      <3>6. i \in 1..Len(page) /\ x = page[i]
        BY <1>6, <3>3, <3>5, Zenon
      <3> QED BY <1>6, <3>6, InRange, Zenon
    <2>7. ~(Len(acc) <= Limit)
      BY <1>1, <1>8
    <2>8. cur < nc
      BY <2>3
    <2> QED BY <1>6, <2>3, <2>5, <2>6, <2>7, <2>8, Zenon DEF PageFor
  <1>9. n <= lim \/ n > lim
    BY <1>1
  <1> QED BY <1>7, <1>8, <1>9, Zenon

\* The next batch of the same page.
LEMMA MoreOK ==
    ASSUME NEW l, ListOK(l), l.pc = "tags", NEW V \in SUBSET Range(l.rows), IsFiniteSet(V),
           \A x \in l.stable : x \in Range(l.rows) => x \in V, ~Full(l, V),
           NEW sc \in Nat, sc < MaxListScan,
           NEW m, m = [l EXCEPT !.pc = "scan", !.rows = <<>>, !.acc = Found(l, V),
                                !.after = Reached(l, V), !.scanned = sc]
    PROVE  ListOK(m)
  <1>1. PICK acc, after : acc = Found(l, V) /\ after = Reached(l, V)
    OBVIOUS
  <1>2. /\ acc \in Seq(Nat) /\ Up(acc) /\ after \in Nat /\ l.after <= after
        /\ Range(acc) \subseteq Range(l.acc) \cup Range(l.rows)
        /\ \A x \in Range(acc) : l.cursor < x /\ x <= after
        /\ \A x \in l.stable : l.cursor < x /\ x <= after => x \in Range(acc)
        /\ Len(acc) <= Limit
    BY <1>1, FoundOK
  <1>3. /\ m.stable = l.stable /\ m.pc = "scan" /\ m.q = l.q
        /\ m.cursor = l.cursor /\ m.after = after /\ m.scanned = sc
        /\ m.rows = <<>> /\ m.acc = acc /\ m.got = l.got /\ m \in ListRec
    BY <1>1, <1>2, NothingIn DEF ListOK, ListRec, Reading
  <1>4. l.cursor <= after
    <2>1. l.cursor \in Nat /\ l.after \in Nat /\ l.cursor <= l.after
      BY DEF ListOK, ListRec, Ordered, Reading
    <2> QED BY <1>2, <2>1
  <1>5. Ordered(m)
    BY <1>2, <1>3, <1>4, NothingIn DEF ListOK, Ordered, Reading
  <1>6. Covers(m)
    BY <1>2, <1>3 DEF ListOK, Covers, Reading
  <1>7. OneSpace(m)
    BY <1>2, <1>3, NothingIn DEF ListOK, OneSpace
  <1> QED BY <1>3, <1>5, <1>6, <1>7 DEF ListOK

\* The end of a page, which is the last one if the table is exhausted.
LEMMA PageEndOK ==
    ASSUME NEW l, ListOK(l), l.pc = "tags", NEW V \in SUBSET Range(l.rows), IsFiniteSet(V),
           \A x \in l.stable : x \in Range(l.rows) => x \in V,
           NEW acc, acc = Found(l, V), NEW after, after = Reached(l, V),
           NEW page, page = SubSeq(acc, 1, Min({Limit, Len(acc)})),
           NEW e, e = (~Full(l, V) /\ Len(l.rows) < Batch(l)),
           NEW m, m = [l EXCEPT !.rows = <<>>, !.acc = <<>>, !.scanned = 0, !.got = @ \o page,
                          !.pc = IF e THEN "done" ELSE "page",
                          !.after = IF e THEN @ ELSE NextCursor(acc, after),
                          !.cursor = IF e THEN @ ELSE NextCursor(acc, after)]
    PROVE  ListOK(m) /\ (m.pc = "page" => m.cursor > l.cursor)
  <1>1. /\ acc \in Seq(Nat) /\ Up(acc) /\ after \in Nat /\ l.after <= after
        /\ Range(acc) \subseteq Range(l.acc) \cup Range(l.rows)
        /\ \A x \in Range(acc) : l.cursor < x /\ x <= after
        /\ \A x \in l.stable : l.cursor < x /\ x <= after => x \in Range(acc)
        /\ Full(l, V) => Len(acc) = Limit + 1
        /\ ~Full(l, V) => Len(acc) <= Limit
        /\ ~Full(l, V) /\ Len(l.rows) > 0 => l.after < after
        /\ e => \A x \in l.stable : l.cursor < x => x \in Range(acc)
    BY FoundOK
  <1>2. /\ l.cursor \in Nat /\ l.after \in Nat /\ l.cursor <= l.after /\ l.stable \subseteq Nat
        /\ l.got \in Seq(Nat) /\ Up(l.got) /\ \A x \in Range(l.got) : x <= l.cursor
        /\ Limit \in Nat \ {0} /\ Batch(l) \in Nat \ {0} /\ Len(l.rows) \in Nat
    <2>1. l \in ListRec /\ Ordered(l)
      BY DEF ListOK
    <2>2. Batch(l) \in Nat \ {0}
      BY <2>1, BatchIs DEF Ordered, Reading
    <2> QED BY <2>1, <2>2, ListingsAssumption DEF ListRec, Ordered, Reading
  <1>3. PICK nc : nc = NextCursor(acc, after)
    OBVIOUS
  <1>4. /\ page \in Seq(Nat) /\ Up(page) /\ Range(page) \subseteq Range(acc)
        /\ nc \in Nat /\ \A x \in Range(page) : l.cursor < x /\ x <= nc
        /\ \A x \in l.stable : l.cursor < x /\ x <= nc => x \in Range(page)
        /\ Len(acc) <= Limit => Range(page) = Range(acc) /\ nc = after
        /\ Len(acc) > Limit => l.cursor < nc
    <2>1. Len(acc) <= Limit + 1
      <3>1. Len(acc) \in Nat
        BY <1>1
      <3> QED BY <1>1, <1>2, <3>1
    <2>2. l.stable \in SUBSET Nat /\ l.cursor \in Nat
      BY <1>2
    <2>3. PageFor(l.stable, acc, after, l.cursor, page, nc)
      BY <1>1, <1>3, <2>1, <2>2, PageIs, Zenon
    <2> QED BY <2>3, Zenon DEF PageFor
  <1>5. ~e => l.cursor < nc
    <2>1. CASE Full(l, V)
      <3>1. Len(acc) > Limit
        BY <1>1, <1>2, <2>1
      <3> QED BY <1>4, <3>1
    <2>2. CASE ~Full(l, V)
      <3>1. nc = after
        BY <1>1, <1>4, <2>2
      <3>2. ~e => Len(l.rows) > 0
        <4>1. ~e => ~(Len(l.rows) < Batch(l))
          BY <2>2
        <4> QED BY <1>2, <4>1
      <3>3. ~e => l.after < after
        BY <1>1, <2>2, <3>2
      <3> QED BY <1>1, <1>2, <3>1, <3>3
    <2> QED BY <2>1, <2>2
  <1>6. PICK got : got = l.got \o page
    OBVIOUS
  <1>7. Joined(l.got, page, got)
    <2>1. Before(l.got, page)
      <3>1. SUFFICES ASSUME NEW x \in Range(l.got), NEW y \in Range(page) PROVE x < y
        BY DEF Before
      <3>2. x \in Nat /\ y \in Nat
        BY <1>2, <1>4, InRange
      <3>3. x <= l.cursor /\ l.cursor < y
        BY <1>2, <1>4
      <3> QED BY <1>2, <3>2, <3>3
    <2>2. l.got \in Seq(Nat) /\ page \in Seq(Nat) /\ Up(l.got) /\ Up(page)
      BY <1>2, <1>4
    <2> QED BY <1>6, <2>1, <2>2, JoinUp, Zenon
  <1>8. /\ got \in Seq(Nat) /\ Up(got) /\ Range(got) = Range(l.got) \cup Range(page)
    BY <1>7, Zenon DEF Joined
  <1>9. e \in BOOLEAN
    OBVIOUS
  <1>10. /\ m.stable = l.stable /\ m.pc = (IF e THEN "done" ELSE "page") /\ m.q = l.q
         /\ m.cursor = (IF e THEN l.cursor ELSE nc) /\ m.scanned = 0
         /\ m.rows = <<>> /\ m.acc = <<>> /\ m.got = got
    BY <1>3, <1>6 DEF ListOK, ListRec
  <1>11. m \in ListRec
    BY <1>2, <1>3, <1>4, <1>6, <1>8, <1>9, NothingIn DEF ListOK, ListRec, Reading
  <1>12. Range(got) \subseteq Nat /\ Range(l.got) \subseteq Nat
    BY <1>2, <1>8, InRange
  <1>14. OneSpace(m)
    <2>1. m.pc # "off" /\ l.pc # "off"
      BY <1>10
    <2>2. Range(m.got) \cup Range(m.acc) \cup Range(m.rows)
            \subseteq Range(l.got) \cup Range(l.acc) \cup Range(l.rows)
      BY <1>1, <1>4, <1>8, <1>10, NothingIn
    <2> QED BY <1>10, <2>1, <2>2 DEF ListOK, OneSpace
  <1>13. CASE e
    <2>1. m.pc = "done"
      BY <1>10, <1>13
    <2>2. Ordered(m)
      BY <1>8, <1>10, <2>1, NothingIn DEF Ordered, Reading
    <2>3. m.stable \subseteq Range(got)
      <3>1. SUFFICES ASSUME NEW x \in l.stable PROVE x \in Range(got)
        BY <1>10
      <3>2. CASE x <= l.cursor
        <4>1. x \in Range(l.got)
          BY <3>2 DEF ListOK, Covers
        <4> QED BY <1>8, <4>1
      <3>3. CASE l.cursor < x
        <4>1. x \in Range(acc)
          BY <1>1, <1>13, <3>3
        <4>2. Range(page) = Range(acc)
          BY <1>1, <1>4, <1>13
        <4> QED BY <1>8, <4>1, <4>2
      <3> QED BY <1>2, <3>2, <3>3
    <2>4. Covers(m)
      BY <1>10, <2>1, <2>3 DEF Covers, Reading
    <2> QED BY <1>11, <1>14, <2>1, <2>2, <2>4 DEF ListOK
  <1>15. CASE ~e
    <2>1. m.pc = "page" /\ m.cursor = nc /\ l.cursor < nc
      BY <1>5, <1>10, <1>15
    <2>2. \A x \in Range(got) : x <= nc
      <3>1. SUFFICES ASSUME NEW x \in Range(got) PROVE x <= nc
        OBVIOUS
      <3>2. x \in Nat /\ nc \in Nat /\ l.cursor \in Nat
        BY <1>2, <1>4, <1>12
      <3>3. CASE x \in Range(l.got)
        <4>1. x <= l.cursor
          BY <1>2, <3>3
        <4> QED BY <2>1, <3>2, <4>1
      <3>4. CASE x \in Range(page)
        BY <1>4, <3>4
      <3> QED BY <1>8, <3>1, <3>3, <3>4
    <2>3. Ordered(m)
      BY <1>8, <1>10, <2>1, <2>2, NothingIn DEF Ordered, Reading
    <2>4. \A x \in l.stable : x <= nc => x \in Range(got)
      <3>1. SUFFICES ASSUME NEW x \in l.stable, x <= nc PROVE x \in Range(got)
        OBVIOUS
      <3>2. CASE x <= l.cursor
        <4>1. x \in Range(l.got)
          BY <3>2 DEF ListOK, Covers
        <4> QED BY <1>8, <4>1
      <3>3. CASE l.cursor < x
        <4>1. x \in Range(page)
          BY <1>4, <3>1, <3>3
        <4> QED BY <1>8, <4>1
      <3> QED BY <1>2, <3>2, <3>3
    <2>5. Covers(m)
      BY <1>10, <2>1, <2>4 DEF Covers, Reading
    <2>6. m.cursor > l.cursor
      BY <1>2, <1>4, <2>1
    <2> QED BY <1>11, <1>14, <2>3, <2>5, <2>6 DEF ListOK
  <1> QED BY <1>13, <1>15

LEMMA RowsFinite ==
    ASSUME NEW s \in Seq(Nat)
    PROVE  IsFiniteSet(Range(s))
  <1>1. PICK n \in Nat : n = Len(s)
    OBVIOUS
  <1>2. \A x : x \in Range(s) <=> \E i \in 1..n : x = s[i]
    BY <1>1, InRange
  <1>3. s \in [1..n -> Range(s)] /\ \A x \in Range(s) : \E i \in 1..n : s[i] = x
    BY <1>1, <1>2
  <1>4. s \in Surjection(1..n, Range(s))
    BY <1>3, Zenon DEF Surjection
  <1>5. IsFiniteSet(1..n)
    BY FS_Interval
  <1> QED BY <1>4, <1>5, FS_Surjection, Zenon

-----------------------------------------------------------------------------
(***************************************************************************)
(* The listing in progress, in every state.                                *)
(***************************************************************************)
LinksInv ==
    \A x \in links : /\ x[1] \in Ids /\ assets[x[1]] # NoAsset
                     /\ CredentialSpace[x[2]] = assets[x[1]].space

\* What is expected of the listing is still there, and the asset whose
\* credentials are read is one of the Space.
WatchInv ==
    /\ lister.pc # "off" =>
         lister.q \in Listings /\ lister.stable \subseteq Visible(lister.q, assets, links, creds)
    /\ lister.pc \in Reading /\ lister.q.what = "links" =>
         assets[lister.q.asset] # NoAsset /\ assets[lister.q.asset].space = lister.q.space

ListInv == ListOK(lister) /\ WatchInv /\ LinksInv

LEMMA TableIs ==
    ASSUME NEW q \in Listings, NEW as, NEW ls, NEW rs
    PROVE  /\ TableOf(q, as, ls, rs) \in SUBSET (Nat \ {0})
           /\ IsFiniteSet(TableOf(q, as, ls, rs))
           /\ Visible(q, as, ls, rs) \in SUBSET TableOf(q, as, ls, rs)
  <1>1. /\ Ids \subseteq Nat \ {0} /\ IsFiniteSet(Ids)
        /\ DOMAIN CredentialSpace \subseteq Nat \ {0} /\ IsFiniteSet(DOMAIN CredentialSpace)
    BY ListingsAssumption, CredentialsAssumption
  <1>2. PICK T : T = TableOf(q, as, ls, rs)
    OBVIOUS
  <1>3. T \in SUBSET Ids \/ T \in SUBSET DOMAIN CredentialSpace
    BY <1>2 DEF TableOf
  <1>4. IsFiniteSet(T)
    BY <1>1, <1>3, FS_Subset
  <1>5. Visible(q, as, ls, rs) \in SUBSET T
    BY <1>2 DEF Visible
  <1> QED BY <1>1, <1>2, <1>3, <1>4, <1>5

LEMMA BeginStep ==
    ASSUME ListInv, NEW q \in Listings, ListBegin(q)
    PROVE  ListInv'
  <1>1. LinksInv'
    BY DEF ListInv, LinksInv, ListBegin
  <1>2. PICK T : T = Visible(q, assets, links, creds)
    OBVIOUS
  <1>3. T \in SUBSET (Nat \ {0})
    BY <1>2, TableIs
  <1>4. lister' = [NotListing EXCEPT !.pc = "page", !.q = q, !.stable = T]
    BY <1>2 DEF ListBegin
  <1>5. lister'.pc = "page" /\ lister'.q = q /\ lister'.stable = T
    BY <1>4 DEF NotListing
  <1>6. ListOK(lister')
    BY <1>3, <1>4, BeginOK
  <1>7. UNCHANGED <<assets, links, creds>>
    BY DEF ListBegin
  <1>8. WatchInv'
    BY <1>2, <1>5, <1>7 DEF WatchInv, Reading, Visible, TableOf, LabelsIn
  <1> QED BY <1>1, <1>6, <1>8 DEF ListInv, ListOK

LEMMA PageStep ==
    ASSUME ListInv, ListPage
    PROVE  ListInv'
  <1>1. LinksInv'
    BY DEF ListInv, LinksInv, ListPage
  <1>2. UNCHANGED <<assets, links, creds>> /\ lister.pc = "page"
    BY DEF ListPage
  <1>3. CASE lister' = NotListing
    <2>1. lister'.pc = "off"
      BY <1>3 DEF NotListing
    <2>2. WatchInv'
      BY <2>1 DEF WatchInv, Reading
    <2> QED BY <1>1, <1>3, <2>2, OffOK DEF ListInv
  <1>4. CASE /\ PageAllowed(lister.q)
             /\ lister' = [lister EXCEPT !.pc = "scan", !.after = lister.cursor,
                                         !.scanned = 0, !.acc = <<>>]
    <2>1. lister'.pc = "scan" /\ lister'.q = lister.q /\ lister'.stable = lister.stable
      BY <1>4 DEF ListInv, ListOK, ListRec
    <2>2. ListOK(lister')
      BY <1>2, <1>4, PageOK DEF ListInv
    <2>3. lister.q.what = "links" =>
            assets[lister.q.asset] # NoAsset /\ assets[lister.q.asset].space = lister.q.space
      BY <1>4 DEF PageAllowed, Live
    <2>4. lister.q \in Listings /\ lister.stable \subseteq Visible(lister.q, assets, links, creds)
      BY <1>2 DEF ListInv, WatchInv
    <2>5. WatchInv'
      BY <1>2, <2>1, <2>3, <2>4 DEF WatchInv, Visible, TableOf, LabelsIn
    <2> QED BY <1>1, <2>2, <2>5 DEF ListInv
  <1> QED BY <1>3, <1>4 DEF ListPage

LEMMA RowsStep ==
    ASSUME ListInv, ListRows
    PROVE  ListInv'
  <1>1. LinksInv'
    BY DEF ListInv, LinksInv, ListRows
  <1>2. UNCHANGED <<assets, links, creds>> /\ lister.pc = "scan"
    BY DEF ListRows
  <1>3. PICK T : T = {i \in TableOf(lister.q, assets, links, creds) : i > lister.after}
    OBVIOUS
  <1>4. /\ lister.q \in Listings /\ lister \in ListRec /\ lister.after \in Nat
        /\ lister.scanned < MaxListScan
        /\ lister.stable \subseteq Visible(lister.q, assets, links, creds)
    BY <1>2 DEF ListInv, WatchInv, ListOK, ListRec, Ordered, Reading
  <1>5. PICK table : table = TableOf(lister.q, assets, links, creds)
    OBVIOUS
  <1>6. table \in SUBSET Nat /\ IsFiniteSet(table) /\ lister.stable \subseteq table
    BY <1>4, <1>5, TableIs
  <1>7. T \in SUBSET table /\ T \in SUBSET Nat /\ IsFiniteSet(T)
    <2>1. T \in SUBSET table
      BY <1>3, <1>5
    <2> QED BY <1>6, <2>1, FS_Subset
  <1>8. PICK s : s = InOrder(T)
    OBVIOUS
  <1>9. s \in Seq(Nat) /\ Up(s) /\ Range(s) = T
    BY <1>7, <1>8, InOrderIs
  <1>10. PICK b \in Nat : b = Batch(lister)
    BY <1>4, BatchIs
  <1>11. PICK p : p = SubSeq(s, 1, Min({b, Len(s)}))
    OBVIOUS
  <1>12. /\ p \in Seq(Nat) /\ Up(p) /\ Range(p) \subseteq T
         /\ \A x \in T : x \in Range(p) \/ (Len(p) >= b /\ \A y \in Range(p) : y < x)
    <2>1. Few(s, b, p)
      BY <1>9, <1>10, <1>11, FirstFew, Zenon
    <2> QED BY <1>9, <2>1, Zenon DEF Few
  <1>13. lister' = [lister EXCEPT !.pc = "tags", !.rows = p]
    BY <1>3, <1>8, <1>10, <1>11 DEF ListRows, BatchLimit, Batch
  <1>14. /\ \A x \in T : x > lister.after
         /\ \A x \in lister.stable : x > lister.after => x \in T
    BY <1>3, <1>5, <1>6
  <1>15. lister.q.what = "links" => \A c \in T : CredentialSpace[c] = lister.q.space
    <2>1. SUFFICES ASSUME lister.q.what = "links", NEW c \in T
                   PROVE  CredentialSpace[c] = lister.q.space
      OBVIOUS
    <2>2. <<lister.q.asset, c>> \in links
      BY <1>5, <1>7, <2>1 DEF TableOf
    <2>3. assets[lister.q.asset].space = lister.q.space
      BY <1>2, <2>1 DEF ListInv, WatchInv, Reading
    <2>4. PICK x \in links : x = <<lister.q.asset, c>>
      BY <2>2
    <2>5. x[1] = lister.q.asset /\ x[2] = c
      BY <2>4
    <2> QED BY <2>3, <2>5 DEF ListInv, LinksInv
  <1>16. ListOK(lister')
    <2>1. ListOK(lister)
      BY DEF ListInv
    <2>2. \A x \in T : x \in Range(p)
                       \/ (Len(p) >= Batch(lister) /\ \A y \in Range(p) : y < x)
      BY <1>10, <1>12
    <2> QED BY <1>2, <1>7, <1>12, <1>13, <1>14, <1>15, <2>1, <2>2, BatchOK
  <1>17. lister'.pc = "tags" /\ lister'.q = lister.q /\ lister'.stable = lister.stable
    BY <1>4, <1>13 DEF ListRec
  <1>18. WatchInv'
    BY <1>2, <1>17 DEF ListInv, WatchInv, Reading, Visible, TableOf, LabelsIn
  <1> QED BY <1>1, <1>16, <1>18 DEF ListInv

LEMMA TagsStep ==
    ASSUME ListInv, ListTags
    PROVE  ListInv' /\ (lister'.pc = "page" => lister'.cursor > lister.cursor)
  <1>1. LinksInv'
    BY DEF ListInv, LinksInv, ListTags
  <1>2. UNCHANGED <<assets, links, creds>> /\ lister.pc = "tags"
    BY DEF ListTags
  <1>3. PICK l : l = lister
    OBVIOUS
  <1>4. /\ ListOK(l) /\ l.pc = "tags" /\ l \in ListRec /\ l.q \in Listings
        /\ l.rows \in Seq(Nat) /\ l.scanned \in Nat
        /\ l.stable \subseteq Visible(l.q, assets, links, creds)
    BY <1>2, <1>3 DEF ListInv, WatchInv, ListOK, ListRec
  <1>5. PICK V : V = {i \in Range(l.rows) : authorizeRow(l.q, LabelsIn(l.q, assets, creds, i))}
    OBVIOUS
  <1>6. /\ V \in SUBSET Range(l.rows) /\ IsFiniteSet(V) /\ IsFiniteSet(Range(l.rows))
        /\ \A x \in l.stable : x \in Range(l.rows) => x \in V
    <2>1. V \in SUBSET Range(l.rows)
      BY <1>5
    <2>2. IsFiniteSet(Range(l.rows))
      BY <1>4, RowsFinite
    <2>3. \A x \in l.stable : authorizeRow(l.q, LabelsIn(l.q, assets, creds, x))
      BY <1>4 DEF Visible
    <2>4. \A x \in l.stable : x \in Range(l.rows) => x \in V
      BY <1>5, <2>3
    <2> QED BY <2>1, <2>2, <2>4, FS_Subset
  <1>7. PICK acc, after, page : /\ acc = Found(l, V) /\ after = Reached(l, V)
                                /\ page = SubSeq(acc, 1, Min({Limit, Len(acc)}))
    OBVIOUS
  <1>8. PICK e : e = (~Full(l, V) /\ Len(l.rows) < Batch(l))
    OBVIOUS
  <1>9. PICK sc : sc = l.scanned + Cardinality({i \in Range(l.rows) : i <= after})
    OBVIOUS
  <1>10. sc \in Nat
    <2>1. PICK R : R = {i \in Range(l.rows) : i <= after}
      OBVIOUS
    <2>2. R \in SUBSET Range(l.rows)
      BY <2>1
    <2>3. Cardinality(R) \in Nat
      BY <1>6, <2>2, FS_Subset, FS_CardinalityType
    <2> QED BY <1>4, <1>9, <2>1, <2>3
  <1> DEFINE More == [l EXCEPT !.pc = "scan", !.rows = <<>>, !.acc = acc,
                               !.after = after, !.scanned = sc]
             End == [l EXCEPT !.rows = <<>>, !.acc = <<>>, !.scanned = 0, !.got = @ \o page,
                          !.pc = IF e THEN "done" ELSE "page",
                          !.after = IF e THEN @ ELSE NextCursor(acc, after),
                          !.cursor = IF e THEN @ ELSE NextCursor(acc, after)]
  <1>11. \/ lister' = More /\ ~Full(l, V) /\ sc < MaxListScan
         \/ lister' = End
    BY <1>3, <1>5, <1>7, <1>8, <1>9, Zenon
    DEF ListTags, Found, Reached, Full, BatchLimit, Batch
  <1>12. CASE lister' = More /\ ~Full(l, V) /\ sc < MaxListScan
    <2>1. /\ lister'.pc = "scan" /\ lister'.q = lister.q
          /\ lister'.stable = lister.stable
      BY <1>3, <1>4, <1>12 DEF ListRec
    <2>2. ListOK(lister')
      BY <1>4, <1>6, <1>7, <1>10, <1>12, MoreOK
    <2>3. WatchInv'
      BY <1>2, <2>1 DEF ListInv, WatchInv, Reading, Visible, TableOf, LabelsIn
    <2> QED BY <1>1, <2>1, <2>2, <2>3 DEF ListInv
  <1>13. CASE lister' = End
    <2>1. /\ lister'.pc \in {"page", "done"} /\ lister'.q = lister.q
          /\ lister'.stable = lister.stable
      BY <1>3, <1>4, <1>13 DEF ListRec
    <2>2. ListOK(lister') /\ (lister'.pc = "page" => lister'.cursor > l.cursor)
      BY <1>4, <1>6, <1>7, <1>8, <1>13, PageEndOK
    <2>3. WatchInv'
      BY <1>2, <2>1 DEF ListInv, WatchInv, Reading, Visible, TableOf, LabelsIn
    <2> QED BY <1>1, <1>3, <2>2, <2>3 DEF ListInv
  <1> QED BY <1>11, <1>12, <1>13

\* The transactions of others, which the listing takes note of.
LEMMA WatchedStep ==
    ASSUME ListInv, Watched, LinksInv', MemberInv,
           \A a \in Ids : AssetForward(a)
    PROVE  ListInv'
  <1>1. CASE lister.pc = "off"
    <2>1. lister' = lister
      BY <1>1 DEF Watched
    <2>2. WatchInv'
      BY <1>1, <2>1 DEF WatchInv, Reading
    <2> QED BY <2>1, <2>2 DEF ListInv
  <1>2. CASE lister.pc # "off"
    <2>1. PICK T : T = Visible(lister.q, assets', links', creds')
      OBVIOUS
    <2>2. lister' = [lister EXCEPT !.stable = @ \cap T]
      BY <1>2, <2>1 DEF Watched
    <2>3. ListOK(lister')
      BY <2>2, StillOK DEF ListInv
    <2>4. lister'.pc = lister.pc /\ lister'.q = lister.q /\ lister'.stable \subseteq T
      BY <2>2 DEF ListInv, ListOK, ListRec
    <2>5. lister.q \in Listings /\ lister.q.asset \in Ids
      BY <1>2, ListingsAssumption DEF ListInv, WatchInv, Listing
    <2>6. lister.pc \in Reading /\ lister.q.what = "links" =>
            assets'[lister.q.asset] # NoAsset /\ assets'[lister.q.asset].space = lister.q.space
      BY <2>5 DEF ListInv, WatchInv, AssetForward
    <2>7. WatchInv'
      BY <2>1, <2>4, <2>5, <2>6 DEF WatchInv, Visible, TableOf, LabelsIn
    <2> QED BY <2>3, <2>7 DEF ListInv
  <1> QED BY <1>1, <1>2

LEMMA ListStep ==
    ASSUME MemberInv, ListInv, [Next]_vars
    PROVE  ListInv'
  <1>1. \A a \in Ids : AssetForward(a)
    BY AssetsForward
  <1>2. ASSUME links' \subseteq links PROVE LinksInv'
    BY <1>1, <1>2 DEF ListInv, LinksInv, AssetForward
  <1>3. ASSUME NEW r \in Slots,
               (\E a \in Ids : Create(r, a)) \/ Update(r) \/ Delete(r) \/ UnlinkCredential(r)
        PROVE  ListInv'
    <2>1. Watched /\ links' \subseteq links
      BY <1>3 DEF Create, Update, Delete, UnlinkCredential, Commits
    <2> QED BY <1>1, <1>2, <2>1, WatchedStep
  <1>4. ASSUME NEW r \in Slots, LinkCredential(r) PROVE ListInv'
    <2>1. PICK a, c : a = Request(r).asset /\ c = Request(r).cred
      OBVIOUS
    <2>2. /\ Watched /\ links' = links \cup {<<a, c>>} /\ assets' = assets
          /\ assets[a] # NoAsset /\ CredentialSpace[c] = assets[a].space
      BY <1>4, <2>1 DEF LinkCredential, Commits, MayLink, Live
    <2>3. a \in Ids
      BY <1>4, <2>1, InitialAssetsAssumption
      DEF LinkCredential, Asks, At, Request, MemberInv, TypeInv, SlotsOK
    <2>4. PICK x : x = <<a, c>> /\ x[1] = a /\ x[2] = c
      <3>1. <<a, c>>[1] = a /\ <<a, c>>[2] = c
        OBVIOUS
      <3> QED BY <3>1, Zenon
    <2>5. links' = links \cup {x}
      BY <2>2, <2>4
    <2>6. LinksInv'
      BY <2>2, <2>3, <2>4, <2>5 DEF ListInv, LinksInv
    <2> QED BY <1>1, <2>2, <2>6, WatchedStep
  <1>5. ASSUME CredentialStep PROVE ListInv'
    <2>1. Watched /\ assets' = assets
      BY <1>5, CredentialFrame
    <2>2. ASSUME NEW w \in CredentialWrites, NEW from, Write(w, from) PROVE LinksInv'
      <3>1. CASE w.assets = Absent
        BY <1>2, <2>2, <3>1 DEF Write
      <3>2. CASE w.assets # Absent
        <4>1. PICK c, new : c = w.cred /\ new = {<<a, c>> : a \in w.assets}
          OBVIOUS
        <4>2. /\ \A a \in w.assets : a \in Ids /\ Linkable(c, a)
              /\ links' \subseteq links \cup new
          BY <2>2, <3>2, <4>1, CredentialsAssumption
          DEF Write, LinksOfOthers, CredentialWrite
        <4>3. ASSUME NEW x \in new
              PROVE  x[1] \in Ids /\ assets[x[1]] # NoAsset
                     /\ CredentialSpace[x[2]] = assets[x[1]].space
          <5>1. PICK a \in w.assets : x = <<a, c>>
            BY <4>1, <4>3
          <5>2. x[1] = a /\ x[2] = c
            BY <5>1
          <5> QED BY <4>2, <5>1, <5>2 DEF Linkable, Live
        <4> QED BY <2>1, <4>2, <4>3 DEF ListInv, LinksInv
      <3> QED BY <3>1, <3>2
    <2>3. ASSUME NEW c, DeleteCredential(c) \/ RestoreCredential(c) \/ PurgeCredential(c)
          PROVE  LinksInv'
      <3>1. links' \subseteq links
        BY <2>3 DEF DeleteCredential, RestoreCredential, PurgeCredential, LinksOfOthers
      <3> QED BY <1>2, <3>1
    <2>4. LinksInv'
      BY <1>5, <2>2, <2>3 DEF CredentialStep, CreateCredential, UpdateCredential
    <2> QED BY <1>1, <2>1, <2>4, WatchedStep
  <1>6. ASSUME UNCHANGED assetVars PROVE ListInv'
    <2>1. ListOK(lister') /\ LinksInv'
      BY <1>6 DEF ListInv, LinksInv, assetVars
    <2>2. WatchInv'
      BY <1>6 DEF ListInv, WatchInv, assetVars, Visible, TableOf, LabelsIn
    <2> QED BY <2>1, <2>2 DEF ListInv
  <1>7. ASSUME NEW r \in Slots,
               GetRow(r) \/ GetTags(r) \/ ResolveAuthorizationPrincipal(r)
        PROVE  UNCHANGED assetVars
    BY <1>7 DEF GetRow, GetTags, ResolveAuthorizationPrincipal
  <1>8. ASSUME ListEnd PROVE ListInv'
    <2>1. lister' = NotListing /\ lister'.pc = "off"
      BY <1>8 DEF ListEnd, NotListing
    <2>2. LinksInv'
      BY <1>2, <1>8 DEF ListEnd
    <2>3. WatchInv'
      BY <2>1 DEF WatchInv, Reading
    <2> QED BY <2>1, <2>2, <2>3, OffOK DEF ListInv
  <1>9. ASSUME (\E q \in Listings : ListBegin(q)) \/ ListPage \/ ListRows \/ ListTags
        PROVE  ListInv'
    BY <1>9, BeginStep, PageStep, RowsStep, TagsStep
  <1>10. ASSUME UNCHANGED vars PROVE UNCHANGED assetVars
    BY <1>10 DEF vars
  <1> QED
    BY <1>3, <1>4, <1>5, <1>6, <1>7, <1>8, <1>9, <1>10
    DEF Next, CredentialStep

LEMMA ListBegins == ASSUME Init PROVE ListInv
  <1>1. lister = NotListing /\ lister.pc = "off"
    BY DEF Init, NotListing
  <1>2. LinksInv
    BY CredentialsAssumption DEF Init, LinksInv
  <1> QED BY <1>1, <1>2, OffOK DEF ListInv, WatchInv, Reading

\* Only the end of a page leads from the tags of a batch to the next page.
LEMMA CursorMoves ==
    ASSUME ListInv, [Next]_vars
    PROVE  [(lister.pc = "tags" /\ lister'.pc = "page")
               => lister'.cursor > lister.cursor]_lister
  <1>1. SUFFICES ASSUME lister.pc = "tags", lister'.pc = "page"
                 PROVE  lister'.cursor > lister.cursor
    OBVIOUS
  <1>2. CASE ListTags
    BY <1>1, <1>2, TagsStep
  <1>3. ASSUME ListPage \/ ListRows \/ ListEnd \/ \E q \in Listings : ListBegin(q)
        PROVE  FALSE
    BY <1>1, <1>3 DEF ListPage, ListRows, ListEnd, ListBegin
  <1>4. ASSUME lister' = lister \/ Watched PROVE lister'.pc = lister.pc
    BY <1>4 DEF Watched, ListInv, ListOK, ListRec
  <1>5. ASSUME NEW r \in Slots,
               \/ \E a \in Ids : Create(r, a)
               \/ Update(r) \/ Delete(r) \/ LinkCredential(r) \/ UnlinkCredential(r)
        PROVE  Watched
    BY <1>5 DEF Create, Update, Delete, LinkCredential, UnlinkCredential, Commits
  <1>6. ASSUME NEW r \in Slots,
               GetRow(r) \/ GetTags(r) \/ ResolveAuthorizationPrincipal(r)
        PROVE  lister' = lister
    BY <1>6 DEF GetRow, GetTags, ResolveAuthorizationPrincipal, assetVars
  <1>7. ASSUME (SpacesNext /\ UNCHANGED assetVars) \/ UNCHANGED vars
        PROVE  lister' = lister
    BY <1>7 DEF vars, assetVars
  <1>8. ASSUME CredentialStep PROVE Watched
    BY <1>8, CredentialFrame
  <1> QED BY <1>1, <1>2, <1>3, <1>4, <1>5, <1>6, <1>7, <1>8
          DEF Next, CredentialStep

\* Whatever is created, updated, deleted, linked, relabelled or recycled between
\* the pages and the batches of a listing, it returns nothing twice, nothing out of
\* order and no credential of another Space; its last page comes when everything that was there
\* and visible from the beginning has been returned; and every page before it moves
\* the cursor (List, ListCredentialMetadata, listBatch and the cursors they return),
\* for every limit of a page, of a batch and of the rows a page may scan.
THEOREM ListingsAreExact == Spec => ListingExact
  <1> DEFINE Exact ==
        /\ \A i, j \in DOMAIN lister.got : i < j => lister.got[i] < lister.got[j]
        /\ (lister.pc # "off" /\ lister.q.what = "links") =>
             \A c \in Range(lister.got) : CredentialSpace[c] = lister.q.space
        /\ lister.pc = "done" => lister.stable \subseteq Range(lister.got)
  <1>1. ListInv => Exact
    <2>1. SUFFICES ASSUME ListInv PROVE Exact
      OBVIOUS
    <2>2. lister.got \in Seq(Nat) /\ Up(lister.got) /\ Covers(lister) /\ OneSpace(lister)
      BY <2>1 DEF ListInv, ListOK, ListRec, Ordered
    <2>3. DOMAIN lister.got = 1..Len(lister.got)
      BY <2>2
    <2>4. \A i, j \in DOMAIN lister.got : i < j => lister.got[i] < lister.got[j]
      BY <2>2, <2>3 DEF Up
    <2> QED BY <2>2, <2>4 DEF Covers, OneSpace
  <1>2. Init => ListInv
    BY ListBegins
  <1>3. MemberInv /\ ListInv /\ [Next]_vars => ListInv'
    BY ListStep
  <1>4. ListInv /\ [Next]_vars
          => [(lister.pc = "tags" /\ lister'.pc = "page")
                 => lister'.cursor > lister.cursor]_lister
    BY CursorMoves
  <1> HIDE DEF Exact
  <1>5. Spec => []Exact /\ [][(lister.pc = "tags" /\ lister'.pc = "page")
                                 => lister'.cursor > lister.cursor]_lister
    BY <1>1, <1>2, <1>3, <1>4, Invariance, PTL DEF Spec
  <1> QED BY <1>5 DEF ListingExact, Exact
=============================================================================
