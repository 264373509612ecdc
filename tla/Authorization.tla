--------------------------- MODULE Authorization ---------------------------
(***************************************************************************)
(* The authorization policy of internal/authorization/policy.go: pure      *)
(* decisions for a human principal and for an agent principal.             *)
(*                                                                         *)
(* A label map is the set of its key/value pairs, so that the loop of      *)
(* labelsMatch over the required pairs is set inclusion.  A human and an   *)
(* agent share one record type; the fields of the other kind are empty.    *)
(***************************************************************************)
EXTENDS FiniteSets

CONSTANTS
    Spaces,     \* the Space identifiers
    Labels,     \* the key/value pairs a credential or a grant may carry
    Users,      \* user identifiers
    Agents      \* agent identifiers

\* A label is a pair <<key, value>>; the empty key is the string "".
ASSUME LabelsArePairs == \A l \in Labels : DOMAIN l = {1, 2}

(***************************************************************************)
(* The actions of the policy.                                              *)
(***************************************************************************)

CredentialActions ==
    { "credential.list", "credential.read", "credential.create",
      "credential.update", "credential.delete", "credential.restore",
      "credential.purge", "credential.totp.generate" }

AssetActions ==
    { "asset.list", "asset.read", "asset.create", "asset.update",
      "asset.delete", "asset.credential.link" }

MemberActions ==
    { "membership.list", "membership.manage", "membership.add",
      "membership.role.change", "membership.remove" }

AgentActions ==
    { "agent.list", "agent.read", "agent.create", "agent.update",
      "agent.delete", "agent.token.issue", "agent.token.revoke" }

SystemActions ==
    { "backup.list", "backup.create", "backup.restore", "settings.read",
      "settings.update", "settings.users.manage", "settings.health.read" }

SpaceScopedActions ==
    CredentialActions \cup AssetActions \cup MemberActions
        \cup { "agent.grant.manage", "audit.list", "audit.purge" }

AllActions ==
    SpaceScopedActions \cup AgentActions \cup SystemActions
        \cup { "space.create", "space.list" }

\* The request strings the policy may be asked about: an unknown one too.
Actions == AllActions \cup { "unknown" }

(***************************************************************************)
(* Roles and scopes.                                                       *)
(***************************************************************************)

SystemRoles == { "system_owner", "system_admin", "member", "none" }
SpaceRoles == { "owner", "editor", "reader", "none" }

ScopeForAction ==
    [ a \in { "credential.list", "credential.read",
              "credential.totp.generate", "credential.create",
              "credential.update", "credential.delete",
              "asset.list", "asset.read" }
        |-> IF a = "credential.totp.generate" THEN "credential.read" ELSE a ]

AllScopes == { ScopeForAction[a] : a \in DOMAIN ScopeForAction }

systemAdminAllows(a) ==
    a \in { "credential.restore", "audit.list", "audit.purge",
            "agent.grant.manage" } \cup AgentActions \cup SystemActions

ReaderActions ==
    { "credential.list", "credential.read", "credential.totp.generate",
      "asset.list", "asset.read", "membership.list" }

EditorActions ==
    ReaderActions \cup
    { "credential.create", "credential.update", "credential.delete",
      "asset.create", "asset.update", "asset.delete",
      "asset.credential.link" }

roleAllows(role, a) ==
    \/ role = "owner"
       /\ a \in SpaceScopedActions \ { "credential.purge", "audit.purge" }
    \/ role = "editor" /\ a \in EditorActions
    \/ role = "reader" /\ a \in ReaderActions

(***************************************************************************)
(* Principals and resources.  NoSpace is the empty SpaceID of a resource.  *)
(***************************************************************************)

CONSTANT NoSpace
ASSUME NoSpaceAssumption == NoSpace \notin Spaces

Grant == [space : Spaces, scopes : SUBSET AllScopes, labels : SUBSET Labels]

Resource == [space : Spaces \cup { NoSpace }, labels : SUBSET Labels]

Principal ==
    [ kind : { "human", "agent" }, id : Users \cup Agents,
      authenticated : BOOLEAN, system : SystemRoles,
      roles : [Spaces -> SpaceRoles], grants : SUBSET Grant ]

ValidateGrant(g) == \A l \in g.labels : l[1] # ""

\* The label sets that are maps: one value for a key.
LabelMaps ==
    { L \in SUBSET Labels : \A l, m \in L : l[1] = m[1] => l = m }

\* Mutant: the comparison the wrong way round.
labelsMatch_Reversed(required, actual) == actual \subseteq required

labelsMatch(required, actual) == required \subseteq actual

(***************************************************************************)
(* The two decisions.                                                      *)
(***************************************************************************)

\* Mutant: someone who is not a member is told that the Space exists.
DecisionForHuman_Forbidden(p, res, a) ==
    IF a \notin AllActions THEN "invalid_action"
    ELSE IF ~p.authenticated THEN "unauthenticated"
    ELSE IF \/ p.system = "system_owner"
            \/ a \in { "space.create", "space.list" }
            \/ p.system = "system_admin" /\ systemAdminAllows(a)
         THEN "allowed"
    ELSE IF res.space = NoSpace THEN "concealed_not_found"
    ELSE IF roleAllows(p.roles[res.space], a) THEN "allowed"
    ELSE "forbidden"

DecisionForHuman(p, res, a) ==
    CASE a \notin AllActions -> "invalid_action"
      [] a \in AllActions /\ ~p.authenticated -> "unauthenticated"
      [] a = "agent.grant.manage" /\ p.authenticated /\ res.space = NoSpace ->
            "concealed_not_found"
      [] OTHER ->
            IF \/ p.system = "system_owner"
               \/ a \in { "space.create", "space.list" }
               \/ p.system = "system_admin" /\ systemAdminAllows(a)
            THEN "allowed"
            ELSE IF a \notin SpaceScopedActions THEN "forbidden"
            ELSE IF \/ res.space = NoSpace
                    \/ p.roles[res.space] = "none" THEN "concealed_not_found"
            ELSE IF roleAllows(p.roles[res.space], a) THEN "allowed"
            ELSE "forbidden"

\* Some valid grant of the agent covers the resource for the action.
GrantCovers(g, res, a) ==
    /\ ValidateGrant(g)
    /\ g.space = res.space
    /\ ScopeForAction[a] \in g.scopes
    /\ labelsMatch(g.labels, res.labels)

DecisionForAgent(p, res, a) ==
    IF ~p.authenticated THEN "unauthenticated"
    ELSE IF /\ a \in DOMAIN ScopeForAction
            /\ res.space # NoSpace
            /\ \E g \in p.grants : GrantCovers(g, res, a)
         THEN "allowed"
         ELSE "concealed_not_found"

Decision(p, res, a) ==
    IF p.kind = "human" THEN DecisionForHuman(p, res, a)
                        ELSE DecisionForAgent(p, res, a)
=============================================================================
