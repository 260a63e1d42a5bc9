----------------------------- MODULE MCExports -----------------------------
(* A small instance of Exports: two pages, two documents, room for one ticket. *)
EXTENDS Exports

\* Two exports with what may cross them; an export and an installation; updates
\* by themselves.
MCBudgets == {[exports |-> 2, calls |-> 0, incidents |-> 2],
              [exports |-> 1, calls |-> 3, incidents |-> 1],
              [exports |-> 0, calls |-> 5, incidents |-> 0]}
=============================================================================
