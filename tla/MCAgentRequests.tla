-------------------------- MODULE MCAgentRequests --------------------------
(***************************************************************************)
(* One agent with a grant, whose token is issued, used, and revoked while  *)
(* the grant is narrowed; every managing call comes under one key.         *)
(***************************************************************************)
EXTENDS AgentRequests, TLC

CONSTANTS s1, g1, g2, t1, t2, m1, m2, r1, r2

Access(scopes) == [space |-> s1, scopes |-> scopes, labels |-> {}]
MCGrants == [g \in Agents |-> IF g = g1 THEN
               {Access({"credential.list", "credential.read", "credential.update"})}
             ELSE {}]

Ask(op) == [op |-> op, key |-> "k", agent |-> g1, token |-> NoToken,
            expires |-> 0, grant |-> Access({})]
MCCalls == { Ask("create"), [Ask("issue") EXCEPT !.expires = 2],
             [Ask("revoke") EXCEPT !.token = t1],
             [Ask("grant") EXCEPT !.grant = Access({"credential.list"})] }

Wish(via, tool) == [via |-> via, tool |-> tool, token |-> t1]
MCWishes == { Wish("mcp", "totp"), Wish("rest", "list"),
              [Wish("mcp", "write") EXCEPT !.token = t2] }
SlotSymmetry == Permutations({r1, r2}) \cup Permutations({m1, m2})
=============================================================================
