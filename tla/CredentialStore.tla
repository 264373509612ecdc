-------------------------- MODULE CredentialStore --------------------------
(***************************************************************************)
(* What the credential service promises its callers, whatever their        *)
(* requests interleave with: a credential is one atomic cell.  A write     *)
(* takes a live cell to the next version, a delete and a restore change    *)
(* nothing but the state, and only a cell in the recycle bin is purged,    *)
(* with its content, for good.  Module Credentials implements this.        *)
(***************************************************************************)
EXTENDS Naturals

CONSTANTS Creds, Contents, NoContent

VARIABLE cell

States == { "free", "live", "deleted", "purged" }

Init ==
    cell = [c \in Creds |->
              [state |-> "free", ver |-> 0, content |-> NoContent]]

Create(c, x) ==
    /\ cell[c].state = "free"
    /\ cell' = [cell EXCEPT ![c] = [state |-> "live", ver |-> 1, content |-> x]]

Write(c, x) ==
    /\ cell[c].state = "live"
    /\ cell' = [cell EXCEPT ![c].ver = @ + 1, ![c].content = x]

Delete(c) ==
    /\ cell[c].state = "live"
    /\ cell' = [cell EXCEPT ![c].state = "deleted"]

Restore(c) ==
    /\ cell[c].state = "deleted"
    /\ cell' = [cell EXCEPT ![c].state = "live"]

\* One transaction may purge several credentials.
Purge(C) ==
    /\ \A c \in C : cell[c].state = "deleted"
    /\ cell' = [c \in Creds |->
                 IF c \in C
                 THEN [cell[c] EXCEPT !.state = "purged", !.content = NoContent]
                 ELSE cell[c]]

Next ==
    \/ \E C \in SUBSET Creds : Purge(C)
    \/ \E c \in Creds :
         \/ Delete(c) \/ Restore(c)
         \/ \E x \in Contents : Create(c, x) \/ Write(c, x)

Spec == Init /\ [][Next]_cell
=============================================================================
