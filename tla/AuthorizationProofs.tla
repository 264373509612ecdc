------------------------ MODULE AuthorizationProofs ------------------------
(***************************************************************************)
(* Proofs about the policy: its answers are consistent with one another    *)
(* for every set of Spaces, labels, users, agents and callers.             *)
(***************************************************************************)
EXTENDS AuthorizationQueries, TLAPS

QueryOK == query \in Queries

\* Every query is one of the enumerated ones.
LEMMA QueriesOnly == Spec => []QueryOK
  <1>1. Init => QueryOK
    BY DEF Init, QueryOK
  <1>2. QueryOK /\ [Next]_query => QueryOK'
    <2> SUFFICES ASSUME QueryOK, [Next]_query PROVE QueryOK'
      OBVIOUS
    <2>1. CASE UNCHANGED query
      BY <2>1 DEF QueryOK
    <2>2. ASSUME NEW a \in Actions, Ask(a) PROVE QueryOK'
      BY <2>2 DEF QueryOK, Queries, Ask
    <2> QED
      BY <2>1, <2>2 DEF Next
  <1> QED
    BY <1>1, <1>2, PTL DEF Spec

\* The fields of a query.
LEMMA QueryFields ==
    ASSUME QueryOK
    PROVE  /\ query.p \in Principals /\ query.p \in Principal
           /\ query.res.space \in Spaces \cup { NoSpace }
           /\ query.res.labels \in SUBSET Labels
           /\ query.a \in Actions
  BY PrincipalsAssumption DEF QueryOK, Queries, LabelMaps

\* A narrower grant covers nothing that the grant does not cover.
LEMMA NarrowerCovers ==
    ASSUME NEW g \in Grant, NEW l \in Labels, NEW res, NEW a,
           GrantCovers([g EXCEPT !.labels = @ \cup { l }], res, a)
    PROVE  GrantCovers(g, res, a)
  BY DEF Grant, GrantCovers, ValidateGrant, labelsMatch

\* A label condition only narrows a grant (LabelsOnlyNarrow).
THEOREM LabelsNarrow == Spec => []LabelsOnlyNarrow
  <1>1. QueryOK => LabelsOnlyNarrow
    <2> SUFFICES ASSUME QueryOK, query.p.kind = "agent",
                        NEW g \in query.p.grants, NEW l \in Labels
                 PROVE  LET n == [g EXCEPT !.labels = @ \cup { l }]
                            q == [query.p EXCEPT
                                    !.grants = (@ \ { g }) \cup { n }]
                        IN  Allowed(q, query.res, query.a) =>
                                Allowed(query.p, query.res, query.a)
      BY DEF LabelsOnlyNarrow
    <2> DEFINE n == [g EXCEPT !.labels = @ \cup { l }]
               q == [query.p EXCEPT !.grants = (@ \ { g }) \cup { n }]
    <2>1. query.p \in Principal /\ g \in Grant
      BY QueryFields DEF Principal
    <2>2. /\ q.kind = "agent" /\ q.authenticated = query.p.authenticated
          /\ q.grants = (query.p.grants \ { g }) \cup { n }
      BY <2>1 DEF Principal
    <2>3. GrantCovers(n, query.res, query.a) => GrantCovers(g, query.res, query.a)
      BY <2>1, NarrowerCovers
    <2> HIDE DEF n, q
    <2>4. (\E h \in q.grants : GrantCovers(h, query.res, query.a)) =>
            (\E h \in query.p.grants : GrantCovers(h, query.res, query.a))
      BY <2>2, <2>3
    <2>5. Allowed(q, query.res, query.a) => Allowed(query.p, query.res, query.a)
      BY <2>2, <2>4, Zenon DEF Allowed, Decision, DecisionForAgent
    <2> QED
      BY <2>5 DEF n, q
  <1> QED
    BY <1>1, QueriesOnly, PTL

\* The answer to an agent without a grant for the Space.
LEMMA AgentOutside ==
    ASSUME NEW p, p.kind = "agent", NEW res, NEW a, Outsider(p, res.space)
    PROVE  Decision(p, res, a) = IF ~ p.authenticated THEN "unauthenticated"
                                 ELSE "concealed_not_found"
  BY DEF Decision, DecisionForAgent, GrantCovers, Outsider

\* The answer to a human without a part in the Space.
LEMMA HumanOutside ==
    ASSUME NEW p \in Principal, p.kind = "human", NEW a,
           NEW res, res.space \in Spaces \cup { NoSpace },
           Outsider(p, res.space)
    PROVE  Decision(p, res, a) =
             IF a \notin AllActions THEN "invalid_action"
             ELSE IF ~ p.authenticated THEN "unauthenticated"
             ELSE IF a \in { "space.create", "space.list" } THEN "allowed"
             ELSE IF a \notin SpaceScopedActions THEN "forbidden"
             ELSE "concealed_not_found"
  <1>1. Decision(p, res, a) = DecisionForHuman(p, res, a)
    BY DEF Decision
  <1>2. p.system \notin { "system_owner", "system_admin" }
        /\ (res.space = NoSpace \/ p.roles[res.space] = "none")
    BY DEF Outsider
  <1>3. "agent.grant.manage" \in SpaceScopedActions
        /\ "agent.grant.manage" \in AllActions
        /\ "agent.grant.manage" \notin { "space.create", "space.list" }
    BY DEF SpaceScopedActions, AllActions
  <1>4. CASE a \notin AllActions
    BY <1>1, <1>3, <1>4 DEF DecisionForHuman
  <1>5. CASE a \in AllActions /\ ~ p.authenticated
    BY <1>1, <1>5 DEF DecisionForHuman
  <1>6. CASE a \in AllActions /\ p.authenticated
    BY <1>1, <1>2, <1>3, <1>6 DEF DecisionForHuman
  <1> QED
    BY <1>4, <1>5, <1>6

\* Who is outside a Space learns nothing of it (OutsiderLearnsNothing).
THEOREM Concealment == Spec => []OutsiderLearnsNothing
  <1>1. QueryOK => OutsiderLearnsNothing
    <2> SUFFICES ASSUME QueryOK, Outsider(query.p, query.res.space),
                        NEW space \in Spaces \cup { NoSpace },
                        Outsider(query.p, space)
                 PROVE  Decision(query.p, [space |-> space, labels |-> {}], query.a)
                          = Decision(query.p, query.res, query.a)
      BY DEF OutsiderLearnsNothing
    <2> DEFINE res == [space |-> space, labels |-> {}]
    <2>1. query.p \in Principal /\ query.res.space \in Spaces \cup { NoSpace }
      BY QueryFields
    <2>2. res.space = space
      OBVIOUS
    <2>3. query.p.kind \in { "human", "agent" }
      BY <2>1 DEF Principal
    <2> HIDE DEF res
    <2>4. CASE query.p.kind = "agent"
      BY <2>2, <2>4, AgentOutside DEF res
    <2>5. CASE query.p.kind = "human"
      BY <2>1, <2>2, <2>5, HumanOutside DEF res
    <2> QED
      BY <2>3, <2>4, <2>5
  <1> QED
    BY <1>1, QueriesOnly, PTL
=============================================================================
