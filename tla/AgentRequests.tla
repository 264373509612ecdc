--------------------------- MODULE AgentRequests ---------------------------
(***************************************************************************)
(* How a request of an agent is served, by the MCP endpoint or by the REST *)
(* routes open to agents: reservations in the limiter, an inspection of    *)
(* the token, a stricter reservation, the authenticating transaction, an   *)
(* audit event, the tool, and the response, which MCP keeps in a buffer    *)
(* until the tool is done.  An MCP request draws every time it uses from a *)
(* guard that fails for good when the clock has gone back.  The limiter    *)
(* may refuse each reservation; LoginGuard models how it decides.          *)
(***************************************************************************)
EXTENDS AgentTokens

CONSTANTS
    Reqs,           \* slots of concurrent requests
    Wishes,         \* [via, tool, token]: what a request may be
    MaxRequests,    \* bound of the requests
    MaxBack,        \* bound of the times the clock is set back
    NoRequest

ASSUME WishesAssumption ==
    Wishes \subseteq [via : {"mcp", "rest"}, tool : {"list", "get", "totp", "write"},
                      token : Tokens]

VARIABLES
    req,            \* slot -> the request being served
    requests, backs

requestVars == <<req, requests, backs>>
vars == <<serviceVars, requestVars>>

\* last, failed: requestTimeGuard; back: the clock went back between two times
\* the request drew; at: the time of the authentication; body: what the buffer
\* holds; done: the tool has committed a mutation.
Fresh(w) == [pc |-> "inspect", w |-> w, last |-> -1, failed |-> FALSE,
             back |-> FALSE, at |-> 0, principal |-> {}, audited |-> {},
             body |-> "none", done |-> FALSE]
Free == [Fresh(NoRequest) EXCEPT !.pc = "free"]

Init ==
    /\ ServiceInit
    /\ req = [r \in Reqs |-> Free] /\ requests = 0 /\ backs = 0

(***************************************************************************)
(* requestTimeGuard.Next; REST reads the clock itself.                     *)
(***************************************************************************)
\* Mutant: the tools read the clock and not the guard.
Drawn_ToolsUnguarded(q) ==
    LET back == now < q.last
    IN  [q EXCEPT !.last = now, !.back = @ \/ back,
                  !.failed = @ \/ (back /\ q.pc \notin {"tool", "generate", "record"})]

Drawn(q) ==
    IF q.w.via = "rest" THEN q
    ELSE LET failed == q.failed \/ now < q.last
         IN  [q EXCEPT !.last = IF failed THEN @ ELSE now, !.failed = failed,
                       !.back = @ \/ now < q.last]

\* A step of request r at pc, before the tool: it draws a time, and a guard
\* that fails ends the request with CLOCK_UNAVAILABLE; otherwise q is its next
\* state.
At(r, pc) == req[r].pc = pc
Ends(r) == req' = [req EXCEPT ![r] = Free]
Step(r, q) == req' = [req EXCEPT ![r] = IF q.failed THEN Free ELSE q]

Arrive(r, w) ==
    /\ At(r, "free") /\ requests < MaxRequests /\ requests' = requests + 1
    /\ req' = [req EXCEPT ![r] = Drawn(Fresh(w))]
    /\ UNCHANGED <<serviceVars, backs>>

\* A reservation that the limiter refuses, of the source or of the token, or
\* storage that is not available: the request ends.
Refused(r) ==
    /\ req[r].pc \in {"inspect", "strict", "audit"} /\ Ends(r)
    /\ UNCHANGED <<serviceVars, requests, backs>>

\* rejectAuthentication, or the failure gate of the REST routes: an event, and
\* the refusal.
Goes(r, ok, q) == IF ok THEN Step(r, q) ELSE Ends(r)

\* InspectAuthenticationAt reads without a transaction.
Inspect(r) ==
    LET q == Drawn(req[r])
    IN  /\ At(r, "inspect")
        /\ Goes(r, validateAuthenticationCandidate(q.w.token, now),
                   [q EXCEPT !.pc = "strict"])
        /\ UNCHANGED <<serviceVars, requests, backs>>

\* The strict reservation and the time of the authentication.
Strict(r) ==
    /\ At(r, "strict")
    /\ Step(r, [Drawn(req[r]) EXCEPT !.pc = "check", !.at = now])
    /\ UNCHANGED <<serviceVars, requests, backs>>

\* AuthenticateAt: the check on the reader, then the transaction.
AuthenticateCheck(r) ==
    /\ At(r, "check")
    /\ Goes(r, validateAuthenticationCandidate(req[r].w.token, req[r].at),
               [req[r] EXCEPT !.pc = "authenticate"])
    /\ UNCHANGED <<serviceVars, requests, backs>>

\* Mutant: the transaction relies on the check before it.
Authenticate_Unchecked(r) ==
    LET t == req[r].w.token
    IN  /\ At(r, "authenticate")
        /\ tokens' = Used(t, req[r].at)
        /\ Step(r, [req[r] EXCEPT !.pc = "audit", !.at = 0,
                                  !.principal = grants[tokens[t].agent]])
        /\ UNCHANGED <<agents, grants, managing, system, now, high, requests, backs>>

Authenticate(r) ==
    LET t == req[r].w.token
        ok == validateAuthenticationCandidate(t, req[r].at)
    IN  /\ At(r, "authenticate")
        /\ tokens' = IF ok THEN Used(t, req[r].at) ELSE tokens
        /\ Goes(r, ok, [req[r] EXCEPT !.pc = "audit", !.at = 0,
                                      !.principal = grants[tokens[t].agent]])
        /\ UNCHANGED <<agents, grants, managing, system, now, high, requests, backs>>

\* Mutant: the event is written on a best effort.
AuthAudit_BestEffort(r) ==
    /\ At(r, "audit")
    /\ \E events \in SUBSET {"auth"} :
         Step(r, [Drawn(req[r]) EXCEPT !.pc = "tool", !.audited = @ \cup events])
    /\ UNCHANGED <<serviceVars, requests, backs>>

AuthAudit(r) ==
    /\ At(r, "audit")
    /\ Step(r, [Drawn(req[r]) EXCEPT !.pc = "tool", !.audited = @ \cup {"auth"}])
    /\ UNCHANGED <<serviceVars, requests, backs>>

(***************************************************************************)
(* The tools.  A time that the guard refuses is an error in the buffer.    *)
(* The credential service authorizes with the grants of the authentication *)
(* and writes its own event in the transaction (module Credentials).       *)
(***************************************************************************)
Covers(r, action) ==
    LET p == [authenticated |-> TRUE, grants |-> req[r].principal]
    IN  \E s \in Spaces : DecisionForAgent(p, [space |-> s, labels |-> {}], action)
                            = "allowed"

Buffer(r, q, body) == req' = [req EXCEPT ![r] =
    [q EXCEPT !.pc = "answer", !.last = -1, !.principal = {},
              !.body = IF q.failed THEN "error" ELSE body]]

\* Input that is not valid, a resource that is not found, or no storage.
ToolError(r) ==
    /\ req[r].pc \in {"tool", "generate", "record"}
    /\ Buffer(r, req[r], "error") /\ UNCHANGED <<serviceVars, requests, backs>>

\* credential_list, asset_list and asset_get draw no time.
ToolList(r) ==
    /\ At(r, "tool") /\ req[r].w.tool = "list" /\ Covers(r, "credential.list")
    /\ Buffer(r, req[r], "metadata")
    /\ UNCHANGED <<serviceVars, requests, backs>>

\* handleCredentialGet, and the first half of handleTOTPGenerate.
ToolGet(r) ==
    LET q == Drawn(req[r])
        read == [q EXCEPT !.audited = @ \cup {"read"}]
    IN  /\ At(r, "tool") /\ req[r].w.tool \in {"get", "totp"}
        /\ \/ q.failed /\ Buffer(r, q, "error")
           \/ /\ ~q.failed /\ Covers(r, "credential.read")
              /\ IF req[r].w.tool = "get" THEN Buffer(r, read, "plaintext")
                 ELSE req' = [req EXCEPT ![r] = [read EXCEPT !.pc = "generate"]]
        /\ UNCHANGED <<serviceVars, requests, backs>>

ToolGenerate(r) ==
    LET q == Drawn(req[r])
    IN  /\ At(r, "generate")
        /\ IF q.failed THEN Buffer(r, q, "error")
           ELSE req' = [req EXCEPT ![r] = [q EXCEPT !.pc = "record"]]
        /\ UNCHANGED <<serviceVars, requests, backs>>
ToolRecord(r) ==
    LET q == Drawn(req[r])
    IN  /\ At(r, "record")
        /\ IF q.failed THEN Buffer(r, q, "error")
           ELSE Buffer(r, [q EXCEPT !.audited = @ \cup {"generate"}], "code")
        /\ UNCHANGED <<serviceVars, requests, backs>>

\* Mutant: the time is drawn once the mutation is done.
ToolWrite_DrawsAfter(r) ==
    /\ At(r, "tool") /\ req[r].w.tool = "write"
    /\ Covers(r, "credential.update")
    /\ Buffer(r, [Drawn(req[r]) EXCEPT !.done = TRUE], "done")
    /\ UNCHANGED <<serviceVars, requests, backs>>

\* credential_create, credential_update and credential_delete.
ToolWrite(r) ==
    LET q == Drawn(req[r])
    IN  /\ At(r, "tool") /\ req[r].w.tool = "write"
        /\ \/ q.failed /\ Buffer(r, q, "error")
           \/ /\ ~q.failed /\ Covers(r, "credential.update")
              /\ Buffer(r, [q EXCEPT !.done = TRUE], "done")
        /\ UNCHANGED <<serviceVars, requests, backs>>

\* The buffer is sent, or dropped when the guard has failed.
Sent(q) == IF q.failed THEN "error" ELSE q.body
Answer(r) ==
    /\ At(r, "answer") /\ Ends(r) /\ UNCHANGED <<serviceVars, requests, backs>>

Tick == now < MaxTime /\ SetClock(now + 1) /\ UNCHANGED requestVars
SetBack ==
    /\ now > 0 /\ backs < MaxBack /\ SetClock(now - 1) /\ backs' = backs + 1
    /\ UNCHANGED <<req, requests>>

Serve(r) ==
    \/ Refused(r) \/ Inspect(r) \/ Strict(r) \/ AuthenticateCheck(r)
    \/ Authenticate(r) \/ AuthAudit(r) \/ ToolError(r)
    \/ ToolList(r) \/ ToolGet(r) \/ ToolGenerate(r) \/ ToolRecord(r)
    \/ ToolWrite(r) \/ Answer(r)

Next ==
    \/ ServiceNext /\ UNCHANGED requestVars
    \/ \E r \in Reqs : Serve(r) \/ \E w \in Wishes : Arrive(r, w)
    \/ Tick \/ SetBack

Spec == Init /\ [][Next]_vars

(***************************************************************************)
(* Properties.                                                             *)
(***************************************************************************)

\* Nothing sensitive is sent without its events: the authentication for every
\* answer of a tool, the read for plaintext and codes, the generation for codes,
\* whichever write of an event failed on the way.
Needed == [none |-> {}, error |-> {}, done |-> {"auth"},
           metadata |-> {"auth"}, plaintext |-> {"auth", "read"},
           code |-> {"auth", "read", "generate"}]
AnswerAudited ==
    \A r \in Reqs : At(r, "answer") => Needed[Sent(req[r])] \subseteq req[r].audited

\* The answer is honest about the clock and about changes: an MCP request between
\* two of whose times the clock went back is answered with an error, although a
\* tool may have read or generated something; but a mutation that committed is
\* reported, its response never replaced by CLOCK_UNAVAILABLE.
AnswerHonest ==
    \A r \in Reqs : At(r, "answer") =>
      /\ req[r].w.via = "mcp" /\ req[r].back => Sent(req[r]) = "error"
      /\ req[r].done => Sent(req[r]) = "done"
=============================================================================
