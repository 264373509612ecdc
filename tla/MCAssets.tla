------------------------------ MODULE MCAssets ------------------------------
(***************************************************************************)
(* A Space with two owners and four identifiers, of which three are assets *)
(* at the start, and two credentials, one of them in another Space; a third*)
(* may be made.  The agent may see what has the label "web".               *)
(***************************************************************************)
EXTENDS Assets

CONSTANTS s1, s2, u1, u2

Web == <<"tier", "web">>
MCLabels == {Web}
Owner == [role |-> "owner", version |-> 1, born |-> 0]
MCMembers == [s \in Spaces |-> [u \in Users |-> IF s = s1 THEN Owner ELSE NoMember]]
MCSystemRoles == [u \in Users |-> "member"]

Row(labels) == [space |-> s1, labels |-> labels, version |-> 1, live |-> TRUE]
MCAssets == [a \in Ids |-> CASE a \in {1, 2} -> Row({})
                             [] a = 4 -> Row({Web}) [] OTHER -> NoAsset]
MCCredentialSpace == [c \in 1..3 |-> IF c = 2 THEN s2 ELSE s1]
MCCredentials == [c \in 1..3 |-> [labels |-> IF c = 1 THEN {Web} ELSE {},
                                  state |-> IF c = 3 THEN "none" ELSE "live"]]
MCLinks == {<<2, 1>>, <<4, 1>>}
MCWrites == { [cred |-> 1, labels |-> {}, assets |-> {4}],
              [cred |-> 2, labels |-> Absent, assets |-> {2}],
              [cred |-> 3, labels |-> {Web}, assets |-> {2, 4}] }
MCAgentGrants == {[space |-> s1, scopes |-> {"asset.list", "asset.read", "credential.list"},
                    labels |-> {Web}]}

Ask(op, actor) ==
    [op |-> op, actor |-> actor, space |-> s1, target |-> u1, role |-> "reader",
     asset |-> 2, cred |-> 1, labels |-> {}]
MCRequests ==
    { Ask("create_space", u1),
      [Ask("add", u2) EXCEPT !.role = "editor"], Ask("change", u2),
      Ask("remove", u1), Ask("remove", u2), [Ask("change", u1) EXCEPT !.target = u2],
      Ask("asset_create", u1), [Ask("asset_update", u1) EXCEPT !.labels = {Web}],
      Ask("asset_delete", u2),
      Ask("link", u1), Ask("unlink", u2) }
MCListings == { [who |-> "agent", space |-> s1, what |-> "assets", asset |-> 2],
                [who |-> "agent", space |-> s1, what |-> "links", asset |-> 4],
                [who |-> u1, space |-> s1, what |-> "links", asset |-> 2] }
=============================================================================
