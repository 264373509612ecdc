----------------------------- MODULE MCIdentity -----------------------------
(***************************************************************************)
(* The instances of Identity that TLC checks.                              *)
(***************************************************************************)
EXTENDS Identity, TLC

CONSTANTS u1, u2, pA, h1, h2, t1, t2, x1, d0, d1, r1, r2

\* The codes of three successive counters; the fourth shows the first again.
MCTotpCode(u, k) == IF k % 3 = 0 THEN d0 ELSE d1

ReqSymmetry == Permutations(Reqs)
LoginSymmetry ==
    ReqSymmetry \cup Permutations(Challenges) \cup Permutations(Sessions)

\* A request of operation op that gives nothing.
Req(op) ==
    [ op |-> op, user |-> NoUser, password |-> NoPassword,
      challenge |-> NoChallenge, factor |-> NoFactor, session |-> NoSession,
      role |-> "member" ]

Totp(code) == [kind |-> "totp", code |-> code]
Recovery(code) == [kind |-> "recovery", code |-> code]

FirstOwner(u) ==
    [Req("initial_owner") EXCEPT !.user = u, !.password = pA]

Begin(u, p) == [Req("begin_login") EXCEPT !.user = u, !.password = p]

Complete(f) ==
    { [Req("complete_login") EXCEPT !.challenge = h, !.factor = f] :
      h \in Challenges }

With(op, f) ==
    { [Req(op) EXCEPT !.session = t, !.factor = f] : t \in Sessions }

ChangeRole(u, role) ==
    { [Req("change_role") EXCEPT !.session = t, !.user = u, !.role = role] :
      t \in Sessions }

Reset(u, p) == [Req("reset_password") EXCEPT !.user = u, !.password = p]

\* One user logs in, twice at once, verifies again, uses sessions and ends them.
FactorRequests ==
    { FirstOwner(u1), Begin(u1, pA) }
      \cup UNION { Complete(f) : f \in { Totp(d0), Totp(d1), Recovery(x1) } }
      \cup With("reverify", Totp(d0))
      \cup With("resolve", NoFactor) \cup With("logout", NoFactor)
      \cup { [Req("revoke_all") EXCEPT !.user = u1] }

\* Passwords are reset during logins; an owner who logged in with a recovery code
\* gives up the role sooner or later, perhaps after a TOTP code.
AccountRequests ==
    { FirstOwner(u1), Begin(u1, pA), Reset(u1, pA) }
      \cup Complete(Recovery(x1))
      \cup ChangeRole(u1, "member")
      \cup With("reverify", Totp(d0))
=============================================================================
