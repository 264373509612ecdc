------------------------------- MODULE Assets -------------------------------
(***************************************************************************)
(* Assets, their tags and their links to credentials, and the listings.    *)
(* Of the credentials (module Credentials) only what concerns the links is *)
(* here: they are made and updated with their tags and the assets they are *)
(* linked to, recycled, restored and purged; who may do so is left open,   *)
(* and their events are not in this trail.                                 *)
(* An asset request resolves the actor's roles in one transaction and      *)
(* changes the asset in another.  A read takes the row in one statement    *)
(* and the tags in a second.  A listing is a series of pages, each a       *)
(* request of its own that reads the table in batches and returns a cursor *)
(* for the next page.  An agent only reads.  Filters of a listing other    *)
(* than the Space only narrow the rows and are left out.                   *)
(***************************************************************************)
EXTENDS Spaces, SequencesExt

CONSTANTS
    Ids,             \* identifiers of assets, and of credentials, in order
    InitialAssets, InitialLinks,
    CredentialSpace, \* identifier of a credential -> its Space, for ever
    InitialCredentials,
    CredentialWrites, \* what may be asked of the credentials: see CredentialWrite
    Absent,          \* a field that a write does not mention
    AgentGrants,     \* what the agent that lists may see
    Listings,        \* what may be listed: see Listing
    Limit,           \* filter.Limit
    ListScanBatch,   \* listScanBatch
    MaxListScan,     \* maxListScan
    NoAsset

VARIABLES
    assets,          \* identifier -> row
    links,           \* asset_credentials
    creds,           \* identifier -> tags and state of a credential
    lister           \* the listing in progress

assetVars == <<assets, links, creds, lister>>
vars == <<spaceVars, assetVars>>

Asset == [space : Spaces, labels : SUBSET Labels, version : Nat, live : BOOLEAN]

Credential ==
    [labels : SUBSET Labels, state : {"none", "live", "recycled", "purged"}]
CredentialWrite ==
    [cred : DOMAIN CredentialSpace, labels : (SUBSET Labels) \cup {Absent},
     assets : (SUBSET Ids) \cup {Absent}]

\* what: the assets of the Space, or the credentials linked to an asset.
Listing == [who : Users \cup {"agent"}, space : Spaces, what : {"assets", "links"},
            asset : Ids]

\* cursor: where the page starts; after, scanned: how far it has read; rows:
\* the batch that waits for its tags; acc: found on this page; got: returned by
\* the pages before; stable: present and visible ever since the listing began.
NotListing == [pc |-> "off", q |-> NoRequest, cursor |-> 0, after |-> 0,
               scanned |-> 0, rows |-> <<>>, acc |-> <<>>, got |-> <<>>,
               stable |-> {}]

\* The assets, too, are as they were made.
ASSUME InitialAssetsAssumption ==
    /\ InitialAssets \in [Ids -> Asset \cup {NoAsset}] /\ NoAsset \notin Asset
    /\ \A a \in Ids : InitialAssets[a] # NoAsset => InitialAssets[a].version = 1
    /\ \A q \in Requests : q.asset \in Ids

\* Identifiers have a fixed length, and the empty cursor comes before them all.
ASSUME ListingsAssumption ==
    /\ Listings \subseteq Listing
    /\ Ids \subseteq Nat \ {0} /\ IsFiniteSet(Ids)
    /\ Limit \in Nat \ {0} /\ ListScanBatch \in Nat \ {0} /\ MaxListScan \in Nat \ {0}

\* A link is within one Space.
ASSUME CredentialsAssumption ==
    /\ DOMAIN CredentialSpace \subseteq Nat \ {0} /\ IsFiniteSet(DOMAIN CredentialSpace)
    /\ CredentialSpace \in [DOMAIN CredentialSpace -> Spaces]
    /\ InitialCredentials \in [DOMAIN CredentialSpace -> Credential]
    /\ CredentialWrites \subseteq CredentialWrite
    /\ \A l \in InitialLinks :
         /\ l[1] \in Ids /\ InitialAssets[l[1]] # NoAsset
         /\ CredentialSpace[l[2]] = InitialAssets[l[1]].space

Init ==
    /\ SpacesInit /\ assets = InitialAssets /\ links = InitialLinks
    /\ creds = InitialCredentials
    /\ lister = NotListing

Live(a) == assets[a] # NoAsset /\ assets[a].live
Res(space, labels) == [space |-> space, labels |-> labels]

(***************************************************************************)
(* What a listing may show, in a state with rows as, links ls and          *)
(* credentials cs.                                                         *)
(***************************************************************************)
AgentPrincipal == [authenticated |-> TRUE, grants |-> AgentGrants]

\* The role of a human covers a Space whole; it is checked with the page.
authorizeRow(q, labels) ==
    \/ q.who # "agent"
    \/ DecisionForAgent(AgentPrincipal, Res(q.space, labels),
         IF q.what = "assets" THEN "asset.list" ELSE "credential.list") = "allowed"

TableOf(q, as, ls, cs) ==
    IF q.what = "assets"
    THEN {a \in Ids : as[a] # NoAsset /\ as[a].live /\ as[a].space = q.space}
    ELSE {c \in DOMAIN CredentialSpace :
            <<q.asset, c>> \in ls /\ cs[c].state = "live"}
LabelsIn(q, as, cs, i) ==
    IF q.what = "assets" THEN as[i].labels ELSE cs[i].labels
Visible(q, as, ls, cs) ==
    {i \in TableOf(q, as, ls, cs) : authorizeRow(q, LabelsIn(q, as, cs, i))}

\* What stays visible to the listing when a transaction has changed the tables.
Watched ==
    lister' = IF lister.pc = "off" THEN lister
              ELSE [lister EXCEPT !.stable =
                      @ \cap Visible(lister.q, assets', links', creds')]

(***************************************************************************)
(* Requests that change an asset.                                          *)
(***************************************************************************)
Request(r) == slot[r].q
actsAs(r) ==
    principalOf(Request(r).actor, [s \in Spaces |->
      IF s = Request(r).space THEN slot[r].role ELSE "none"])
authorize(r, space, action) ==
    /\ space = Request(r).space    \* BoundSpaceID
    /\ DecisionForHuman(actsAs(r), Res(space, {}), action) = "allowed"

\* Get: the roles of the actor, the row, and then the tags.
GetRow(r) ==
    LET a == Request(r).asset
    IN  /\ At(r, "read") /\ Request(r).op \in {"asset_update", "asset_delete"}
        /\ Live(a) /\ assets[a].space = Request(r).space
        /\ slot' = [slot EXCEPT ![r].pc = "tags",
                      ![r].role = RoleIn(members, Request(r)),
                      ![r].seen = [NoMember EXCEPT !.version = assets[a].version]]
        /\ UNCHANGED <<spaces, members, sessions, trail, requests, assetVars>>
GetTags(r) ==
    /\ At(r, "tags") /\ authorize(r, Request(r).space, "asset.read")
    /\ slot' = [slot EXCEPT ![r].pc = "again",
                            ![r].labels = assets[Request(r).asset].labels]
    /\ UNCHANGED <<spaces, members, sessions, trail, requests, assetVars>>

\* Mutant: the principal of the client's first request is used again.
ResolveAuthorizationPrincipal_Cached(r) ==
    /\ At(r, "resolve")
    /\ slot' = [slot EXCEPT ![r].pc = "run",
         ![r].role = IF @ = "none" THEN RoleIn(members, Request(r)) ELSE @]
    /\ UNCHANGED <<spaces, members, sessions, trail, requests, assetVars>>

\* A transaction of its own.
ResolveAuthorizationPrincipal(r) ==
    /\ At(r, "resolve")
    /\ slot' = [slot EXCEPT ![r].pc = "run", ![r].role = RoleIn(members, Request(r))]
    /\ UNCHANGED <<spaces, members, sessions, trail, requests, assetVars>>

appendAuditTx(r, action, a) ==
    trail' = Append(trail, [action |-> action, space |-> Request(r).space,
                            id |-> a, actor |-> Request(r).actor])

\* The end of a transaction of r on asset a.
Commits(r, action, a) ==
    /\ appendAuditTx(r, action, a) /\ Done(r, members)
    /\ UNCHANGED <<spaces, members, sessions, requests, creds>>
    /\ Watched

\* Identifiers are random: a new one is anywhere in the order.
Create(r, a) ==
    /\ Asks(r, "asset_create") /\ assets[a] = NoAsset
    /\ authorize(r, Request(r).space, "asset.create")
    /\ requireActiveSpaceTx(Request(r).space)
    /\ assets' = [assets EXCEPT ![a] =
         [space |-> Request(r).space, labels |-> Request(r).labels, version |-> 1,
          live |-> TRUE]]
    /\ UNCHANGED links /\ Commits(r, "asset.create", a)

\* Mutant: the version that the client saw is not looked at.
CurrentVersion_Any(r, a) == Live(a) /\ slot[r].seen.version > 0

CurrentVersion(r, a) == Live(a) /\ assets[a].version = slot[r].seen.version

Update(r) ==
    LET a == Request(r).asset
    IN  /\ Asks(r, "asset_update") /\ CurrentVersion(r, a)
        /\ authorize(r, assets[a].space, "asset.update")
        /\ assets' = [assets EXCEPT ![a].labels = Request(r).labels,
                                    ![a].version = @ + 1]
        /\ UNCHANGED links /\ Commits(r, "asset.update", a)

\* Mutant: a deletion keeps the version.
Delete_SameVersion(r) ==
    LET a == Request(r).asset
    IN  /\ Asks(r, "asset_delete") /\ CurrentVersion(r, a)
        /\ authorize(r, assets[a].space, "asset.delete")
        /\ assets' = [assets EXCEPT ![a].live = FALSE]
        /\ UNCHANGED links /\ Commits(r, "asset.delete", a)

\* The row stays, and so do its links.
Delete(r) ==
    LET a == Request(r).asset
    IN  /\ Asks(r, "asset_delete") /\ CurrentVersion(r, a)
        /\ authorize(r, assets[a].space, "asset.delete")
        /\ assets' = [assets EXCEPT ![a].live = FALSE, ![a].version = @ + 1]
        /\ UNCHANGED links /\ Commits(r, "asset.delete", a)

\* The asset and a credential that is not recycled, in one Space.
MayLink(r) ==
    LET a == Request(r).asset
        c == Request(r).cred
    IN  /\ Live(a) /\ authorize(r, assets[a].space, "asset.credential.link")
        /\ creds[c].state = "live" /\ CredentialSpace[c] = assets[a].space

\* A link that exists is left as it is, without an event (Returns).  Operations of
\* the service that no route of the API calls.
LinkCredential(r) ==
    LET l == <<Request(r).asset, Request(r).cred>>
    IN  /\ Asks(r, "link") /\ MayLink(r) /\ l \notin links
        /\ links' = links \cup {l}
        /\ UNCHANGED assets /\ Commits(r, "asset.credential.link", l[1])
UnlinkCredential(r) ==
    LET l == <<Request(r).asset, Request(r).cred>>
    IN  /\ Asks(r, "unlink") /\ MayLink(r) /\ l \in links
        /\ links' = links \ {l}
        /\ UNCHANGED assets /\ Commits(r, "asset.credential.unlink", l[1])

(***************************************************************************)
(* What the operations on credentials do to their tags and to the links.   *)
(***************************************************************************)
Turns(c, from, row) ==
    /\ creds[c].state = from /\ creds' = [creds EXCEPT ![c] = row]
    /\ requests < MaxRequests /\ requests' = requests + 1
    /\ UNCHANGED <<spaces, members, sessions, trail, slot, assets>>

LinksOfOthers(c) == {l \in links : l[2] # c}

\* Mutant: an asset of any Space may be linked.
Linkable_AnySpace(c, a) == Live(a) /\ c \in DOMAIN CredentialSpace

\* authorizeAssetLinksTx and replaceAssetLinks look for each asset.
Linkable(c, a) == Live(a) /\ assets[a].space = CredentialSpace[c]

\* replaceTags and replaceAssetLinks, for what the request mentions; without an
\* event of the links.
Write(w, from) ==
    LET labels == IF w.labels = Absent THEN creds[w.cred].labels ELSE w.labels
    IN  /\ links' = IF w.assets = Absent THEN links
                    ELSE LinksOfOthers(w.cred) \cup {<<a, w.cred>> : a \in w.assets}
        /\ w.assets # Absent => \A a \in w.assets : Linkable(w.cred, a)
        /\ Turns(w.cred, from, [labels |-> labels, state |-> "live"])
        /\ Watched

CreateCredential(w) == requireActiveSpaceTx(CredentialSpace[w.cred]) /\ Write(w, "none")
UpdateCredential(w) == Write(w, "live")

\* The bin keeps the tags and the links; the purge takes both with the row.
DeleteCredential(c) ==
    /\ UNCHANGED links /\ Turns(c, "live", [creds[c] EXCEPT !.state = "recycled"])
    /\ Watched
RestoreCredential(c) ==
    /\ UNCHANGED links /\ Turns(c, "recycled", [creds[c] EXCEPT !.state = "live"])
    /\ Watched
PurgeCredential(c) ==
    /\ links' = LinksOfOthers(c)
    /\ Turns(c, "recycled", [labels |-> {}, state |-> "purged"])
    /\ Watched

(***************************************************************************)
(* List and ListCredentialMetadata.                                        *)
(***************************************************************************)

\* Who lists is authorized anew for each page, and so is the asset whose
\* credentials are listed.
PageAllowed(q) ==
    LET human == DecisionForHuman(humanPrincipal(q.who), Res(q.space, {}),
                   IF q.what = "assets" THEN "asset.list" ELSE "asset.read")
        scope == IF q.what = "assets" THEN "asset.list" ELSE "asset.read"
    IN  /\ IF q.who # "agent" THEN human = "allowed"
           ELSE \E g \in AgentGrants :
                  /\ g.space = q.space /\ scope \in g.scopes
                  /\ (q.what = "assets" \/ labelsMatch(g.labels, assets[q.asset].labels))
        /\ q.what = "assets" \/ (Live(q.asset) /\ assets[q.asset].space = q.space)

ListBegin(q) ==
    /\ lister.pc = "off"
    /\ lister' = [NotListing EXCEPT !.pc = "page", !.q = q,
                     !.stable = Visible(q, assets, links, creds)]
    /\ UNCHANGED <<spaceVars, assets, links, creds>>

ListPage ==
    /\ lister.pc = "page"
    /\ lister' = IF PageAllowed(lister.q)
                 THEN [lister EXCEPT !.pc = "scan", !.after = lister.cursor,
                                     !.scanned = 0, !.acc = <<>>]
                 ELSE NotListing
    /\ UNCHANGED <<spaceVars, assets, links, creds>>

BatchLimit == Min({ListScanBatch, MaxListScan - lister.scanned})

\* ORDER BY id: the n-th element of S is the one that n - 1 others precede.
InOrder(S) ==
    [n \in 1..Cardinality(S) |->
       CHOOSE i \in S : Cardinality({j \in S : j < i}) = n - 1]

\* listBatch and linkedCredentialMetadata: the rows of a batch in their order.
ListRows ==
    LET rows == InOrder({i \in TableOf(lister.q, assets, links, creds) :
                           i > lister.after})
    IN  /\ lister.pc = "scan"
        /\ lister' = [lister EXCEPT !.pc = "tags",
                        !.rows = SubSeq(rows, 1, Min({BatchLimit, Len(rows)}))]
        /\ UNCHANGED <<spaceVars, assets, links, creds>>

\* Mutants: the next page starts after the row that did not fit; a page that
\* found nothing among what it may scan starts again.
NextCursor_Skips(acc, after) == IF Len(acc) > Limit THEN acc[Limit + 1] ELSE after
NextCursor_LastFound(acc, after) ==
    IF Len(acc) > Limit THEN acc[Limit]
    ELSE IF acc # <<>> THEN Last(acc) ELSE lister.cursor

NextCursor(acc, after) == IF Len(acc) > Limit THEN acc[Limit] ELSE after

\* The loop over a batch, once its tags are read, and the end of the page.
ListTags ==
    LET l == lister
        visible == InOrder({i \in Range(l.rows) :
                              authorizeRow(l.q, LabelsIn(l.q, assets, creds, i))})
        room == Limit + 1 - Len(l.acc)
        full == Len(visible) >= room
        acc == l.acc \o SubSeq(visible, 1, Min({room, Len(visible)}))
        after == IF full THEN Last(acc)
                 ELSE IF l.rows = <<>> THEN l.after ELSE Last(l.rows)
        scanned == l.scanned + Cardinality({i \in Range(l.rows) : i <= after})
        exhausted == ~full /\ Len(l.rows) < BatchLimit
        more == ~full /\ ~exhausted /\ scanned < MaxListScan
        page == SubSeq(acc, 1, Min({Limit, Len(acc)}))
    IN  /\ l.pc = "tags"
        /\ lister' = IF more THEN [l EXCEPT !.pc = "scan", !.rows = <<>>, !.acc = acc,
                                            !.after = after, !.scanned = scanned]
           ELSE [l EXCEPT !.rows = <<>>, !.acc = <<>>, !.scanned = 0, !.got = @ \o page,
                          !.pc = IF exhausted THEN "done" ELSE "page",
                          !.after = IF exhausted THEN @ ELSE NextCursor(acc, after),
                          !.cursor = IF exhausted THEN @ ELSE NextCursor(acc, after)]
        /\ UNCHANGED <<spaceVars, assets, links, creds>>

ListEnd ==
    /\ lister.pc = "done" /\ lister' = NotListing
    /\ UNCHANGED <<spaceVars, assets, links, creds>>

Next ==
    \/ SpacesNext /\ UNCHANGED assetVars
    \/ \E r \in Slots :
         \/ GetRow(r) \/ GetTags(r) \/ ResolveAuthorizationPrincipal(r)
         \/ \E a \in Ids : Create(r, a)
         \/ Update(r) \/ Delete(r) \/ LinkCredential(r) \/ UnlinkCredential(r)
    \/ \E w \in CredentialWrites : CreateCredential(w) \/ UpdateCredential(w)
    \/ \E c \in DOMAIN CredentialSpace :
         DeleteCredential(c) \/ RestoreCredential(c) \/ PurgeCredential(c)
    \/ \E q \in Listings : ListBegin(q)
    \/ ListPage \/ ListRows \/ ListTags \/ ListEnd

Spec == Init /\ [][Next]_vars

(***************************************************************************)
(* Properties.                                                             *)
(***************************************************************************)

\* A request that changes an asset acts with a role that its actor has had
\* while the request was being served, though the role was read before the
\* transaction and may be gone: who is demoted or removed can finish what had
\* arrived, and begin nothing.
ActsWithHeldRole ==
    \A r \in Slots :
      (At(r, "run") /\ Request(r).op \notin MemberOps) => slot[r].role \in slot[r].held

\* Part of ChangeMeetsSeen: what request r does to an asset.
AssetMeetsSeen(r) ==
    LET a == Request(r).asset
    IN  (/\ Asks(r, "asset_update") \/ Asks(r, "asset_delete")
         /\ slot'[r].pc = "free" /\ assets' # assets)
        => assets[a].labels = slot[r].labels

\* A change or a removal meets what its client saw: the role of a member, unless
\* the member was removed and added again meanwhile (versions then start again at
\* 1), and exactly the tags of an asset, although row and tags were read in two
\* statements and others update in between.
ChangeMeetsSeen ==
    [][\A r \in Slots : MemberMeetsSeen(r) /\ AssetMeetsSeen(r)]_vars

\* The events of the trail tell the tables: who is a member and the version of
\* the membership, and a version of an asset for each creation, update and
\* deletion.  They do not tell the links, which credentials replace.
TrailTellsTables ==
    /\ TrailTellsMembers
    /\ \A a \in Ids :
         (IF InitialAssets[a] = NoAsset THEN 0 ELSE 1)
         + Cardinality({i \in DOMAIN trail :
             /\ trail[i].id = a
             /\ trail[i].action \in {"asset.create", "asset.update", "asset.delete"}})
         = IF assets[a] = NoAsset THEN 0 ELSE assets[a].version

\* A listing returns nothing twice, in order, and of a credential nothing from
\* another Space; when it ends it has returned everything that was there and
\* visible from its beginning, whatever was created, updated, deleted, linked or
\* relabelled between its pages and its batches; and every page but the last
\* moves the cursor, even where it finds nothing that its agent may see.
ListingExact ==
    /\ [](/\ \A i, j \in DOMAIN lister.got : i < j => lister.got[i] < lister.got[j]
          /\ (lister.pc # "off" /\ lister.q.what = "links") =>
               \A c \in Range(lister.got) : CredentialSpace[c] = lister.q.space
          /\ lister.pc = "done" => lister.stable \subseteq Range(lister.got))
    /\ [][(lister.pc = "tags" /\ lister'.pc = "page")
             => lister'.cursor > lister.cursor]_lister
=============================================================================
