--------------------------- MODULE MCCredentials ---------------------------
(***************************************************************************)
(* The instances of Credentials that TLC checks: principals of every kind  *)
(* and, for each run, the requests that make its question arise.           *)
(***************************************************************************)
EXTENDS Credentials, TLC

CONSTANTS s1, s2, c1, c2, pA, pB, k1, k2, a1, a2, r1, r2, u1, g1

dev == << "environment", "dev" >>
prod == << "environment", "prod" >>
owned == << "owner", "ops" >>

MCAssetSpace == [a \in Assets |-> IF a = a1 THEN s1 ELSE s2]

MCLabels == { dev, prod, owned }

ReqSymmetry == Permutations(Reqs)

\* An agent that manages the credentials labelled dev of space s1.
DevAgent ==
    [ kind |-> "agent", id |-> g1, authenticated |-> TRUE, system |-> "none",
      roles |-> [s \in Spaces |-> "none"],
      grants |-> {[ space |-> s1, scopes |-> AllScopes, labels |-> { dev } ]} ]

Human(system, role) ==
    [ kind |-> "human", id |-> u1, authenticated |-> TRUE, system |-> system,
      roles |-> [s \in Spaces |-> IF s = s1 THEN role ELSE "none"],
      grants |-> {} ]

Editor == Human("member", "editor")
Reader == Human("member", "reader")
Outsider == Human("member", "none")
SystemOwner == Human("system_owner", "none")

\* A request of operation op on credential c at version v, changing nothing.
Req(p, op, c, v, key) ==
    [ p |-> p, op |-> op, cred |-> c, space |-> s1, ver |-> v,
      labels |-> Keep, links |-> Keep, payload |-> Keep, key |-> key ]

CreateReq(p, labels, links, payload, key) ==
    [ Req(p, "create", NoCred, 0, key) EXCEPT
        !.labels = labels, !.links = links, !.payload = payload ]

DevCredential == CreateReq(Editor, { dev }, {}, pA, NoKey)

\* An agent retries a create, an update and a delete, each under one key, and
\* sends another input under the key of the update.
Retries ==
    { CreateReq(DevAgent, { dev }, {}, pA, k1),
      [Req(DevAgent, "update", c1, 1, k1) EXCEPT !.payload = pB],
      [Req(DevAgent, "update", c1, 2, k1) EXCEPT !.payload = pB],
      Req(DevAgent, "delete", c1, 1, k1) }

\* Relabelling and a new payload race reads and updates by callers of every
\* kind, and the passage of the credential through the recycle bin; the assets
\* linked are of the Space and of another one.
AccessRequests ==
    { CreateReq(Editor, { dev }, { a1 }, pA, NoKey),
      Req(DevAgent, "get", c1, 0, NoKey),
      Req(Outsider, "get", c1, 0, NoKey),
      Req(DevAgent, "update", c1, 1, k1),
      [Req(DevAgent, "update", c1, 1, k1) EXCEPT !.labels = { prod }],
      [Req(Editor, "update", c1, 1, NoKey) EXCEPT !.labels = { prod },
                                                  !.payload = pB],
      [Req(Editor, "update", c1, 1, NoKey) EXCEPT !.links = { a2 }],
      Req(Reader, "restore", c1, 1, NoKey),
      Req(Editor, "delete", c1, 1, NoKey),
      Req(SystemOwner, "restore", c1, 1, NoKey),
      Req(SystemOwner, "purge", c1, 1, NoKey) }

\* A credential that is deleted, perhaps restored, and purged by hand, on
\* demand or by the nightly run.
DrainRequests ==
    { DevCredential,
      Req(Editor, "delete", c1, 1, NoKey),
      Req(SystemOwner, "restore", c1, 1, NoKey),
      Req(SystemOwner, "purge", c1, 1, NoKey),
      Req(SystemOwner, "purge_expired", NoCred, 0, NoKey) }

\* A credential labelled prod is relabelled dev while an agent reads it.
TornRequests ==
    { CreateReq(Editor, { prod }, {}, pA, NoKey),
      [Req(Editor, "update", c1, 1, NoKey) EXCEPT !.labels = { dev },
                                                  !.payload = pB],
      Req(DevAgent, "get", c1, 0, NoKey) }
=============================================================================
