---------------------------- MODULE MCLoginGuard ----------------------------
EXTENDS LoginGuard, TLC

CONSTANTS x, y, r1, r2

\* Two tokens per source of a login, one elsewhere; a token takes five ticks for
\* a principal, more than a second and a half, and two for a source.
MCCapacity == [LoginSource |-> 10, AuthFailure |-> 5,
               ReverifySource |-> 5, ReverifyPrincipal |-> 5]
MCRefill == [LoginSource |-> 5, AuthFailure |-> 1,
             ReverifySource |-> 3, ReverifyPrincipal |-> 1]

\* x and y name a source or a principal, by the operation they are used for.
Try(kind, s, p) == [kind |-> kind, source |-> s, principal |-> p]
MCAttempts == {Try("password", x, x), Try("password", y, x),
               Try("reverify", x, x), Try("reverify", x, y)}
ReqSymmetry == Permutations({r1, r2})
=============================================================================
