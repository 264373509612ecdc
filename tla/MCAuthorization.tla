-------------------------- MODULE MCAuthorization --------------------------
(***************************************************************************)
(* Two Spaces, three labels on two keys and one with the empty key; humans *)
(* of every role, agents with no, one or two grants.                       *)
(***************************************************************************)
EXTENDS AuthorizationQueries, TLC

CONSTANTS s1, s2, u1, g1

dev == << "environment", "dev" >>
prod == << "environment", "prod" >>
nokey == << "", "dev" >>

MCLabels == { dev, prod, nokey }

SpaceSymmetry == Permutations(Spaces)

Humans ==
    { [ kind |-> "human", id |-> u1, authenticated |-> auth, system |-> system,
        roles |-> roles, grants |-> {} ] :
      auth \in BOOLEAN, system \in SystemRoles, roles \in [Spaces -> SpaceRoles] }

SomeGrants ==
    { [space |-> s, scopes |-> scopes, labels |-> L] :
      s \in Spaces, L \in LabelMaps,
      scopes \in { AllScopes, { "credential.read" } } }

AgentPrincipals ==
    { [ kind |-> "agent", id |-> g1, authenticated |-> TRUE,
        system |-> "none", roles |-> [s \in Spaces |-> "none"],
        grants |-> grants ] :
      grants \in { {} } \cup { { g, h } : g, h \in SomeGrants } }

MCPrincipals == Humans \cup AgentPrincipals
=============================================================================
