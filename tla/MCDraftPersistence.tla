------------------------- MODULE MCDraftPersistence -------------------------
(* Small instances of DraftPersistence: the edits of the user are told apart *)
(* by nothing, so that a safety run need not tell them apart either.         *)
EXTENDS DraftPersistence, TLC

Symmetric == Permutations(Edit)

\* The user only types and does one thing.
Quiet(kind) == {[edits |-> Edit, kinds |-> {kind}, mayFail |-> FALSE, mayInterfere |-> FALSE]}

QuietCommit == Quiet("commit")
QuietUndo == Quiet("undo")

\* One window in which any call may fail, and two windows of which one loads other
\* states over what has been typed in it.
Two == [edits |-> {CHOOSE e \in Edit : TRUE}, kinds |-> {"load", "undo", "import"},
        mayFail |-> FALSE, mayInterfere |-> TRUE]

OneAndTwo ==
    {Two, [edits |-> Edit, kinds |-> {"commit", "close"}, mayFail |-> TRUE, mayInterfere |-> FALSE]}
=============================================================================
