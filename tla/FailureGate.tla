----------------------------- MODULE FailureGate -----------------------------
(***************************************************************************)
(* The gate of anonymous failures: within a window a bounded number of     *)
(* failures of an operation is recorded one by one, per key and in total;  *)
(* the others are counted, and the count is handed to the first failure of *)
(* the next window.  One operation is modelled: they share nothing.        *)
(***************************************************************************)
EXTENDS Integers, FiniteSets

CONSTANTS
  GateKeys,          \* source addresses and fingerprints
  FailureWindow,     \* anonymousFailureWindow
  PerKeyLimit, DurableLimit, MaxKeys

ASSUME GateAssumption ==
  /\ FailureWindow \in Nat \ {0} /\ DurableLimit \in Nat \ {0}
  /\ PerKeyLimit \in Nat /\ MaxKeys \in Nat

NewWindow(t) ==
  [start |-> t, entries |-> [k \in GateKeys |-> -1], rows |-> 0, suppressed |-> 0]
NoWindow == NewWindow(-1)

Known(g) == {k \in GateKeys : g.entries[k] # -1}

\* Mutant: the row of the count carried over is not one of the window's rows.
Window_FreeRow(g, t) ==
  IF g.start # -1 /\ t - g.start < FailureWindow THEN g ELSE NewWindow(t)

\* The window in which an observation at time t falls: the current one or, when
\* it is over, a new one; a count carried over takes one of its rows.
Window(g, t) ==
  IF g.start = -1 THEN NewWindow(t)
  ELSE IF t - g.start < FailureWindow THEN g
  ELSE [NewWindow(t) EXCEPT !.rows = IF g.suppressed > 0 THEN 1 ELSE 0]

\* Mutant: the boundary of a window differs from the one of Window.
Carried_Late(g, t) ==
  IF g.start # -1 /\ t - g.start > FailureWindow THEN g.suppressed ELSE 0

Carried(g, t) ==
  IF g.start # -1 /\ t - g.start >= FailureWindow THEN g.suppressed ELSE 0

Suppressed(w) == [w EXCEPT !.suppressed = @ + 1]

\* observe and suppress: the new state, whether to record this failure, and the
\* count to record for the window before.
observeMode(g, k, t, force) ==
  LET w == Window(g, t)
      room == k \in Known(w) \/ Cardinality(Known(w)) < MaxKeys
      entry == IF k \in Known(w) THEN w.entries[k] ELSE 0
      noted == [w EXCEPT !.entries[k] = entry]
      open == entry < PerKeyLimit /\ w.rows < DurableLimit
      result(s, rec) == [gate |-> s, record |-> rec, carried |-> Carried(g, t),
                         early |-> FALSE]
  IN  IF t < g.start
      THEN [gate |-> g, record |-> FALSE, carried |-> 0, early |-> TRUE]
      ELSE IF force \/ ~room THEN result(Suppressed(w), FALSE)
      ELSE IF ~open THEN result(Suppressed(noted), FALSE)
      ELSE result([noted EXCEPT !.entries[k] = entry + 1, !.rows = @ + 1], TRUE)
==============================================================================
