------------------------ MODULE AuthorizationQueries ------------------------
(***************************************************************************)
(* The policy of module Authorization as the services use it: a caller     *)
(* tries one action after the other on a resource.  The properties compare *)
(* the answer with those to other queries, which no single answer shows.   *)
(***************************************************************************)
EXTENDS Authorization

CONSTANT Principals     \* the callers, a subset of Principal

ASSUME PrincipalsAssumption ==
    /\ Principals \subseteq Principal
    /\ \A p \in Principals : p.kind = "human" => p.grants = {}

VARIABLE query

Queries ==
    [ p : Principals,
      res : [space : Spaces \cup { NoSpace }, labels : LabelMaps],
      a : Actions ]

Init == query \in { q \in Queries : q.a = "space.list" }

Ask(a) == query' = [query EXCEPT !.a = a]

Next == \E a \in Actions : Ask(a)

Spec == Init /\ [][Next]_query

-----------------------------------------------------------------------------

Allowed(p, res, a) == Decision(p, res, a) = "allowed"

\* DecisionForAgent: a label condition only narrows a grant.  Adding a label
\* to any grant of an agent never allows it something new (design document,
\* line 221).
LabelsOnlyNarrow ==
    LET p == query.p
    IN  p.kind = "agent" =>
          \A g \in p.grants : \A l \in Labels :
            LET narrower == [g EXCEPT !.labels = @ \cup { l }]
                q == [p EXCEPT !.grants = (@ \ { g }) \cup { narrower }]
            IN  Allowed(q, query.res, query.a) => Allowed(p, query.res, query.a)

\* The caller has no part in the Space, nor a role above all Spaces.
Outsider(p, space) ==
    IF p.kind = "agent" THEN \A g \in p.grants : g.space # space
    ELSE p.system \notin { "system_owner", "system_admin" }
            /\ (space \in Spaces => p.roles[space] = "none")

\* Concealment of DecisionForHuman and DecisionForAgent: someone outside a
\* Space gets the same answer whatever Space is asked about, the empty one
\* included, so the answer does not tell which Spaces or labels exist.
OutsiderLearnsNothing ==
    LET p == query.p
        res == query.res
    IN  Outsider(p, res.space) =>
          \A space \in Spaces \cup { NoSpace } :
            Outsider(p, space) =>
              Decision(p, [space |-> space, labels |-> {}], query.a)
                = Decision(p, res, query.a)
=============================================================================
