-------------------------- MODULE MCDocumentHost --------------------------
(* DocumentHost with three requests in flight and one database of another    *)
(* machine.                                                                  *)
EXTENDS DocumentHost, TLC

Symmetric == Permutations(Command)
=============================================================================
