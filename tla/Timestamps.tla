----------------------------- MODULE Timestamps -----------------------------
(***************************************************************************)
(* Times as the services store them: RFC3339Nano text in SQLite, compared  *)
(* as text by SQL.  A tick of the clock is half a second.                  *)
(***************************************************************************)
EXTENDS Naturals

\* The rank of a tick in the order of the RFC3339Nano text: "X.5Z" sorts
\* before "XZ", because a whole second is written without its fraction.
Stamp(t) == IF t % 2 = 1 THEN t - 1 ELSE t + 1

\* The comparison "a <= b" of SQL on two stored times.
LexLE(a, b) == Stamp(a) <= Stamp(b)
=============================================================================
